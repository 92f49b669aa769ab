----------------------------- MODULE FaceGallery -----------------------------
(***************************************************************************)
(* The gallery of the face service: enrolment, deletion, 1:N search,       *)
(* identification and 1:1 verification, over Redis or a dictionary, as     *)
(* get_redis decides once per process.  The handlers never await, so each  *)
(* request is served in one step; a request whose caller has timed out is  *)
(* served all the same, later.                                             *)
(*                                                                         *)
(* A face is a number, NoFace if none is detected.  Similarities are       *)
(* integers, Unit of them to the last decimal that an answer shows.        *)
(***************************************************************************)
EXTENDS FaceClient, FiniteSets

CONSTANTS
  Users,      \* user ids
  Faces,      \* faces
  NoFace,     \* a photo without a face, or one of low quality
  Identical,  \* similarity of a face with itself
  Threshold,  \* MATCH_THRESHOLD
  Unit,       \* one in the last decimal shown
  TopK,       \* values of top_k
  Asked,      \* values of threshold in a search
  UseRedis,   \* REDIS_URL is set
  MaxOps,     \* bound: enrolments and deletions
  MaxFaults   \* bound: faults

ASSUME GalleryConstants ==
  /\ Faces \subseteq Int /\ NoFace \notin Faces
  /\ Nothing \notin Faces /\ Nothing \notin Users
  /\ Identical \in Nat /\ Threshold \in Nat /\ Unit \in Nat \ {0}
  /\ TopK \subseteq Nat \ {0} /\ Asked \subseteq Int
  /\ UseRedis \in BOOLEAN
  /\ MaxOps \in Nat /\ MaxFaults \in Nat

VARIABLES
  redis,     \* the Redis hash face_gallery
  up,        \* Redis answers
  dict,      \* the dictionary face_gallery of the running process
  client,    \* redis_client: "none", "connected" or "unavailable"
  late,      \* enrolments whose callers have timed out
  skip,      \* FACE_SKIP of the Go caller
  answer,    \* the last answer, with the gallery it was given from
  possible,  \* per user: faces the answers so far allow the gallery to hold
  known,     \* users written since the process started
  ops, faults

gallery == <<redis, dict>>
vars == <<redis, up, dict, client, late, skip, answer, possible, known, ops, faults>>

Content == Faces \cup {Nothing}
Enrolment == [user : Users, face : Faces \cup {NoFace}]

TypeOK ==
  /\ redis \in [Users -> Content]
  /\ up \in BOOLEAN
  /\ dict \in [Users -> Content]
  /\ client \in {"none", "connected", "unavailable"}
  /\ client = "connected" => UseRedis
  /\ late \subseteq Enrolment
  /\ skip \in BOOLEAN
  /\ possible \in [Users -> SUBSET Content]
  /\ known \subseteq Users
  /\ ops \in Nat /\ faults \in Nat

Empty == [u \in Users |-> Nothing]
NoAnswer == [op |-> "none"]

Init ==
  /\ redis = Empty
  /\ up \in BOOLEAN
  /\ dict = Empty
  /\ client = "none"
  /\ late = {}
  /\ skip \in BOOLEAN
  /\ answer = NoAnswer
  /\ possible = [u \in Users |-> {Nothing}]
  /\ known = {}
  /\ ops = 0
  /\ faults = 0

-----------------------------------------------------------------------------
(* A mutated form of GetRedis: a failed connection is tried again. *)
GetRedisAgain ==
  IF client # "connected" /\ UseRedis
  THEN IF up THEN "connected" ELSE "unavailable"
  ELSE client

(* get_redis: the first call connects, or gives up for good. *)
GetRedis ==
  IF client = "none" /\ UseRedis
  THEN IF up THEN "connected" ELSE "unavailable"
  ELSE client

(* get_all_gallery and load_from_gallery. *)
View(c) == IF c = "connected" THEN redis ELSE dict

Enrolled(g) == {u \in Users : g[u] # Nothing}

(* The store can be used: any call over a broken connection is a 500. *)
Answers(c) == c # "connected" \/ up

(* save_to_gallery and delete_from_gallery. *)
Store(c, u, f) ==
  /\ redis' = IF c = "connected" THEN [redis EXCEPT ![u] = f] ELSE redis
  /\ dict' = IF c = "connected" THEN dict ELSE [dict EXCEPT ![u] = f]

(* The value that is in the gallery once e is served, if it changes it. *)
LateFaces(u) == {e.face : e \in {x \in late : x.user = u /\ x.face # NoFace}}

Learn(u, faces) ==
  /\ possible' = [possible EXCEPT ![u] = faces]
  /\ known' = known \cup {u}

Similarity(f, g) == IF f < g THEN Identical - (g - f) ELSE Identical - (f - g)

(* round(similarity, 4). *)
Round(s) == Unit * ((s + Unit \div 2) \div Unit)

-----------------------------------------------------------------------------
(* Writes *)

(* POST /enroll, by the Go client or (with skip FALSE) by the dashboard.  A
   photo without a good face is answered with success = FALSE. *)
EnrollFace(u, f) ==
  /\ ops < MaxOps
  /\ ops' = ops + 1
  /\ LET c == GetRedis
         reply == IF f = NoFace THEN [user |-> u, success |-> FALSE]
                  ELSE IF Answers(c) THEN [user |-> u, success |-> TRUE]
                  ELSE Refused
         result == Enroll(skip, u, reply)
     IN IF skip \/ f = NoFace \/ ~Answers(c)
        THEN /\ client' = IF skip \/ f = NoFace THEN client ELSE c
             /\ answer' = [op |-> "enroll", user |-> u, face |-> f,
                           result |-> result, from |-> View(c)]
             /\ UNCHANGED <<gallery, possible, known>>
        ELSE /\ client' = c
             /\ Store(c, u, f)
             /\ Learn(u, {f} \cup LateFaces(u))
             /\ answer' = [op |-> "enroll", user |-> u, face |-> f,
                           result |-> result,
                           from |-> [View(c) EXCEPT ![u] = f]]
  /\ UNCHANGED <<up, late, skip, faults>>

(* The caller times out; the request is still to be served. *)
EnrollTimeout(u, f) ==
  /\ ~skip
  /\ ops < MaxOps /\ faults < MaxFaults
  /\ ops' = ops + 1 /\ faults' = faults + 1
  /\ late' = late \cup {[user |-> u, face |-> f]}
  /\ answer' = [op |-> "enroll", user |-> u, face |-> f,
                result |-> Enroll(skip, u, Unreachable), from |-> View(client)]
  /\ possible' = [possible EXCEPT ![u] = @ \cup ({f} \ {NoFace})]
  /\ UNCHANGED <<gallery, up, client, skip, known>>

(* A mutated form of EnrollLate: without the quality gate. *)
EnrollLateUnchecked(e) ==
  /\ e \in late
  /\ late' = late \ {e}
  /\ client' = GetRedis
  /\ IF Answers(GetRedis) THEN Store(GetRedis, e.user, e.face) ELSE UNCHANGED gallery
  /\ UNCHANGED <<up, skip, answer, possible, known, ops, faults>>

(* The service gets to a request that nobody waits for any more. *)
EnrollLate(e) ==
  /\ e \in late
  /\ late' = late \ {e}
  /\ LET c == GetRedis
     IN IF e.face = NoFace THEN UNCHANGED <<client, gallery>>
        ELSE /\ client' = c
             /\ IF Answers(c) THEN Store(c, e.user, e.face) ELSE UNCHANGED gallery
  /\ UNCHANGED <<up, skip, answer, possible, known, ops, faults>>

(* DELETE /enroll/{user_id}, by the dashboard; 404 if there is none. *)
Unenroll(u) ==
  /\ ops < MaxOps
  /\ ops' = ops + 1
  /\ client' = GetRedis
  /\ IF Answers(GetRedis)
     THEN /\ Store(GetRedis, u, Nothing)
          /\ Learn(u, {Nothing} \cup LateFaces(u))
     ELSE UNCHANGED <<gallery, possible, known>>
  /\ answer' = NoAnswer
  /\ UNCHANGED <<up, late, skip, faults>>

-----------------------------------------------------------------------------
(* Reads.  An answer keeps the gallery it was computed from. *)

(* The users of a result cut to k: sorted by the rounded similarity, equals
   in the order of the gallery. *)
Best(S, k, f, g) ==
  {M \in SUBSET S :
     /\ Cardinality(M) = IF Cardinality(S) < k THEN Cardinality(S) ELSE k
     /\ \A m \in M, u \in S \ M :
          Round(Similarity(f, g[u])) <= Round(Similarity(f, g[m]))}

Near(f, g, threshold) == {u \in Enrolled(g) : Similarity(f, g[u]) >= threshold}

(* A mutated form of SearchMatches: cut before it is sorted. *)
SearchMatchesUnsorted(f, g, k, threshold) ==
  {M \in SUBSET Near(f, g, threshold) :
     Cardinality(M) = IF Cardinality(Near(f, g, threshold)) < k
                      THEN Cardinality(Near(f, g, threshold)) ELSE k}

SearchMatches(f, g, k, threshold) == Best(Near(f, g, threshold), k, f, g)

(* POST /search through the Go client. *)
SearchFace(f, k, asked) ==
  /\ LET c == GetRedis
         threshold == SearchThreshold(asked, Threshold)
     IN \E M \in SearchMatches(f, View(c), k, threshold) :
          /\ client' = IF skip THEN client ELSE c
          /\ answer' = [op |-> "search", face |-> f, k |-> k, threshold |-> threshold,
                        result |-> Search(skip, IF Answers(c) THEN [matches |-> M]
                                                ELSE Refused),
                        from |-> View(c)]
  /\ UNCHANGED <<gallery, up, late, skip, possible, known, ops, faults>>

(* best_match: the head of the list, if its rounded similarity reaches the
   threshold. *)
BestMatch(M, f, g) ==
  LET tops == {m \in M : /\ Round(Similarity(f, g[m])) >= Threshold
                         /\ \A n \in M : Round(Similarity(f, g[n]))
                                           <= Round(Similarity(f, g[m]))}
  IN IF tops = {} THEN {Nothing} ELSE tops

(* POST /identify, by the dashboard. *)
Identify(f, k) ==
  /\ LET c == GetRedis
         g == View(c)
         near == {u \in Enrolled(g) : 10 * Similarity(f, g[u]) >= 8 * Threshold}
     IN /\ client' = c
        /\ \E M \in Best(near, k, f, g) : \E b \in BestMatch(M, f, g) :
             answer' = IF Answers(c) THEN [op |-> "identify", face |-> f, best |-> b,
                                           from |-> g]
                       ELSE NoAnswer
  /\ UNCHANGED <<gallery, up, late, skip, possible, known, ops, faults>>

Verified(f, g) == Similarity(f, g) >= Threshold

(* POST /verify through the Go client; 404 if the user is not enrolled. *)
VerifyFace(u, f) ==
  /\ LET c == GetRedis
         g == View(c)
         reply == IF ~Answers(c) \/ g[u] = Nothing THEN Refused
                  ELSE [user |-> u, verified |-> Verified(f, g[u]),
                        similarity |-> Round(Similarity(f, g[u]))]
     IN /\ client' = IF skip THEN client ELSE c
        /\ answer' = [op |-> "verify", user |-> u, face |-> f,
                      result |-> Verify(skip, u, reply), from |-> g]
  /\ UNCHANGED <<gallery, up, late, skip, possible, known, ops, faults>>

(* GET /health through the Go client: it too asks Redis. *)
CheckHealth ==
  /\ client' = IF skip THEN client ELSE GetRedis
  /\ answer' = [op |-> "health",
                result |-> Health(skip, IF Answers(GetRedis) THEN Nothing ELSE Refused)]
  /\ UNCHANGED <<gallery, up, late, skip, possible, known, ops, faults>>

(* POST /compare, /liveness and /embed: they do not touch the gallery. *)
CompareFaces(f, g) ==
  /\ answer' = [op |-> "compare", face |-> f, other |-> g,
                result |-> Compare(skip, [similarity |-> Round(Similarity(f, g)),
                                          match |-> Verified(f, g)])]
  /\ UNCHANGED <<gallery, up, client, late, skip, possible, known, ops, faults>>

CheckLiveness(f, live) ==
  /\ answer' = [op |-> "liveness", face |-> f,
                result |-> Liveness(skip, IF f = NoFace THEN Refused ELSE [isLive |-> live])]
  /\ UNCHANGED <<gallery, up, client, late, skip, possible, known, ops, faults>>

EmbedFace(f, url) ==
  /\ answer' = [op |-> "embed", face |-> f,
                result |-> Embed(skip, url, IF f = NoFace THEN Refused
                                            ELSE [embedding |-> <<f>>, score |-> 1])]
  /\ UNCHANGED <<gallery, up, client, late, skip, possible, known, ops, faults>>

-----------------------------------------------------------------------------
(* The service restarts: late requests and the dictionary are gone. *)
Restart ==
  /\ faults < MaxFaults
  /\ faults' = faults + 1
  /\ client' = "none"
  /\ dict' = Empty
  /\ late' = {}
  /\ known' = {}
  /\ answer' = NoAnswer
  /\ UNCHANGED <<redis, up, skip, possible, ops>>

(* Redis goes away or comes back, with its data. *)
RedisChanges ==
  /\ faults < MaxFaults
  /\ faults' = faults + 1
  /\ up' = ~up
  /\ UNCHANGED <<gallery, client, late, skip, answer, possible, known, ops>>

Next ==
  \/ \E u \in Users, f \in Faces \cup {NoFace} : EnrollFace(u, f) \/ EnrollTimeout(u, f)
  \/ \E e \in late : EnrollLate(e)
  \/ \E u \in Users : Unenroll(u)
  \/ \E f \in Faces, k \in TopK, t \in Asked : SearchFace(f, k, t)
  \/ \E f \in Faces, k \in TopK : Identify(f, k)
  \/ \E u \in Users, f \in Faces : VerifyFace(u, f)
  \/ \E f, g \in Faces : CompareFaces(f, g)
  \/ \E f \in Faces \cup {NoFace} : EmbedFace(f, f) \/ EmbedFace(f, Nothing)
  \/ \E f \in Faces \cup {NoFace}, live \in BOOLEAN : CheckLiveness(f, live)
  \/ CheckHealth
  \/ Restart
  \/ RedisChanges

Spec == Init /\ [][Next]_vars

-----------------------------------------------------------------------------
(* Properties *)

(* As long as the service runs, it holds for each user what was enrolled last,
   or a late enrolment; a Redis that comes back or goes away does not swap
   the gallery under its users. *)
GalleryConsistent == \A u \in known : View(client)[u] \in possible[u]

(* Without FACE_SKIP, a result of Enroll that is no error says whether the
   face is in the gallery now. *)
EnrollTruthful ==
  (answer.op = "enroll" /\ ~skip /\ ~answer.result.err) =>
    (answer.result.value.success <=>
       answer.face # NoFace /\ answer.from[answer.user] = answer.face)

(* Every match of a search reaches the threshold that was asked for, and who is
   left out either does not, or is not closer than any match by more than the
   rounding hides. *)
SearchSound ==
  (answer.op = "search" /\ ~skip /\ ~answer.result.err) =>
    LET M == answer.result.value.matches
        S(u) == Similarity(answer.face, answer.from[u])
    IN /\ \A m \in M : m \in Enrolled(answer.from) /\ S(m) >= answer.threshold
       /\ \A u \in Enrolled(answer.from) \ M :
            S(u) >= answer.threshold =>
              Cardinality(M) = answer.k /\ \A m \in M : S(u) < S(m) + Unit

(* The least similarity an answer can show that reaches the threshold: the
   threshold itself, unless it has more decimals than answers do. *)
Shown == Unit * ((Threshold + Unit - 1) \div Unit)

(* Whoever /identify names is a best match up to rounding, and somebody is
   named if anybody reaches the threshold. *)
IdentifySound ==
  answer.op = "identify" =>
    LET S(u) == Similarity(answer.face, answer.from[u])
    IN /\ answer.best # Nothing =>
            /\ 2 * S(answer.best) + Unit >= 2 * Threshold
            /\ \A u \in Enrolled(answer.from) : S(u) < S(answer.best) + Unit
       /\ (\E u \in Enrolled(answer.from) : S(u) >= Shown) => answer.best # Nothing

(* /search and /verify decide alike: a search with the service's threshold and
   room for everybody finds exactly those that /verify would confirm. *)
DecisionsAgree ==
  (/\ answer.op = "search" /\ ~skip /\ ~answer.result.err
   /\ answer.threshold = Threshold /\ answer.k >= Cardinality(Enrolled(answer.from)))
  => answer.result.value.matches =
       {u \in Enrolled(answer.from) : Verified(answer.face, answer.from[u])}

(* Every lookup is right by the gallery it was answered from. *)
LookupsSound == SearchSound /\ IdentifySound /\ DecisionsAgree

(* The invariant of the proofs: users are written only after GetRedis has
   decided where, and whatever a late enrolment will store is possible. *)
GalleryInv ==
  /\ TypeOK
  /\ IsFiniteSet(Enrolled(redis)) /\ IsFiniteSet(Enrolled(dict))
  /\ client = "none" /\ UseRedis => known = {}
  /\ \A e \in late : e.face # NoFace => e.face \in possible[e.user]
  /\ GalleryConsistent /\ EnrollTruthful /\ LookupsSound
=============================================================================
