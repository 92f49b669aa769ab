--------------------------- MODULE EndpointsProofs ---------------------------
(* Proofs about the endpoints register and events, for any number of requests, *)
(* devices, events and faults: each has an invariant of its own, which implies *)
(* its properties.  With the invariant of upload (UploadProofs) they make      *)
(* EndpointsInv, which holds whichever endpoint a behaviour is about.          *)
EXTENDS Endpoints, UploadProofs

(* Unless it names its prover, a leaf is tried with SMT, with Zenon, and   *)
(* with SMT again for longer.                                              *)
USE SMTT(30), ZenonT(30), SMTT(60)

-----------------------------------------------------------------------------
(* register: arithmetic *)

(* Rounding down to whole seconds loses less than a second. *)
LEMMA Rounding ==
    ASSUME NEW t \in Int, NEW p \in Nat \ {0}
    PROVE  /\ t \div p \in Int
           /\ (t \div p) * p <= t
           /\ t < (t \div p) * p + p
  OBVIOUS

(* So a rounded deadline is never later and less than a second earlier. *)
LEMMA RoundedDeadline ==
    ASSUME NEW n \in Int, NEW t \in Int, NEW p \in Nat \ {0}
    PROVE  /\ n < (t \div p) * p => n < t
           /\ n + p <= t => n < (t \div p) * p
<1>. DEFINE d == (t \div p) * p
<1>1. d \in Int /\ d <= t /\ t < d + p
  BY Rounding
<1>. HIDE DEF d
<1>2. (n < d => n < t) /\ (n + p <= t => n < d)
  BY <1>1
<1>. QED
  BY <1>2 DEF d

-----------------------------------------------------------------------------
(* Issue *)

(* A time cut to seconds is a time. *)
LEMMA SecondsType ==
    ASSUME NEW t \in Int
    PROVE  Register!Seconds(t) \in Int
  BY Rounding, TokenAssumption DEF Register!Seconds, Register!TokenConstants

(* Sign returns a token. *)
LEMMA SignedToken ==
    ASSUME NEW d \in Devices, NEW set \in Settings,
           NEW exp \in Int, NEW iat \in Int
    PROVE  Register!Sign(d, set, exp, iat) \in Register!Token
  BY SecondsType DEF Register!Sign, Register!Token

(* What Issue returns agrees with itself. *)
LEMMA IssuedPair ==
    ASSUME NEW d \in Devices, NEW set \in Settings,
           NEW a \in Int, NEW b \in Int, NEW c \in Int, NEW e \in Int
    PROVE  /\ Register!Issued(d, set, <<a, b, c, e>>) \in Register!Pair
           /\ Register!PairOK(Register!Issued(d, set, <<a, b, c, e>>))
<1>. DEFINE access == Register!Sign(d, set, a + AccessTTL, c)
            refresh == Register!Sign(d, set, b + RefreshTTL, e)
<1>1. a + AccessTTL \in Int /\ b + RefreshTTL \in Int
  BY TokenAssumption DEF Register!TokenConstants
<1>2. access \in Register!Token /\ refresh \in Register!Token
  BY <1>1, SignedToken
<1>3. Register!Seconds(a + AccessTTL) \in Int
  BY <1>1, SecondsType
<1>4. /\ access.settings = set /\ access.exp = Register!Seconds(a + AccessTTL)
      /\ refresh.sub = d /\ refresh.exp = Register!Seconds(b + RefreshTTL)
  BY DEF Register!Sign
<1>5. Register!Issued(d, set, <<a, b, c, e>>) =
        [device |-> d, start |-> a, settings |-> set, access |-> access,
         refresh |-> refresh, refreshExp |-> b + RefreshTTL,
         expiresAt |-> Register!Seconds(a + AccessTTL)]
  BY DEF Register!Issued
<1>. HIDE DEF access, refresh
<1>. QED
  BY <1>1, <1>2, <1>3, <1>4, <1>5 DEF Register!Pair, Register!PairOK

-----------------------------------------------------------------------------
(* register: the invariant *)

(* The answer changes nothing but the request's own state and issued. *)
LEMMA Answered ==
    ASSUME Register!TokenInv, NEW r \in Requests, pc[r] = "save", NEW saved \in BOOLEAN,
           Register!Answer(r, saved)
    PROVE  /\ pc' \in [Requests -> {"idle", "issue", "save"}]
           /\ DOMAIN loc' = Requests
           /\ \A q \in Requests : pc'[q] # "idle" => pc'[q] = pc[q] /\ loc'[q] = loc[q]
           /\ loc[r] \in Register!Pair /\ Register!PairOK(loc[r])
           /\ issued' \subseteq [pair : Register!Pair, saved : BOOLEAN]
           /\ \A i \in issued' : i \in issued \/ (i.pair = loc[r] /\ i.saved = saved)
<1>1. Register!TypeOK /\ loc[r] \in Register!Pair /\ Register!PairOK(loc[r])
  BY DEF Register!TokenInv, Register!TypeOK
<1>2. /\ pc' = [pc EXCEPT ![r] = "idle"] /\ loc' = [loc EXCEPT ![r] = Register!Nothing]
      /\ issued' = issued \cup {[pair |-> loc[r], saved |-> saved]}
  BY DEF Register!Answer
<1>3. /\ pc' \in [Requests -> {"idle", "issue", "save"}] /\ DOMAIN loc' = Requests
      /\ \A q \in Requests : pc'[q] # "idle" => pc'[q] = pc[q] /\ loc'[q] = loc[q]
  BY <1>1, <1>2 DEF Register!TypeOK
<1>4. issued' \subseteq [pair : Register!Pair, saved : BOOLEAN]
  BY <1>1, <1>2 DEF Register!TypeOK
<1>. QED
  BY <1>1, <1>2, <1>3, <1>4

(* An INSERT that is refused met an equal token, which names the same device
   and the same second. *)
LEMMA RowStored ==
    ASSUME Register!TokenInv, NEW r \in Requests, Register!SaveRefreshToken(r)
    PROVE  /\ tokens \subseteq tokens' /\ tokens' \subseteq Register!Row
           /\ \A w \in tokens' : w.device = w.token.sub /\ Register!Seconds(w.expires) = w.token.exp
           /\ \E w \in tokens' : /\ w.token = loc[r].refresh
                                 /\ w.device = loc[r].device
                                 /\ Register!Seconds(w.expires) = loc[r].refresh.exp
<1>1. loc[r] \in Register!Pair /\ Register!PairOK(loc[r]) /\ tokens \subseteq Register!Row
  BY DEF Register!TokenInv, Register!TypeOK, Register!SaveRefreshToken
<1>2. Register!RowOf(loc[r]) \in Register!Row
  BY <1>1 DEF Register!RowOf, Register!Row, Register!Pair
<1>3. /\ Register!RowOf(loc[r]).token = loc[r].refresh /\ Register!RowOf(loc[r]).device = loc[r].device
      /\ loc[r].refresh.sub = loc[r].device
      /\ Register!Seconds(Register!RowOf(loc[r]).expires) = loc[r].refresh.exp
  BY <1>1 DEF Register!RowOf, Register!PairOK
<1>4. CASE \E w \in tokens : w.token = loc[r].refresh
  BY <1>1, <1>3, <1>4 DEF Register!SaveRefreshToken, Register!TokenInv
<1>5. CASE ~\E w \in tokens : w.token = loc[r].refresh
  <2>1. tokens' = tokens \cup {Register!RowOf(loc[r])}
    BY <1>5 DEF Register!SaveRefreshToken
  <2>. QED
    BY <1>1, <1>2, <1>3, <2>1 DEF Register!TokenInv
<1>. QED
  BY <1>4, <1>5

(* TokenInv always holds: what Issue signed agrees with what it returned, and
   every pair that was answered has its refresh token stored. *)
LEMMA TokensKeep ==
    /\ Register!Init => Register!TokenInv
    /\ Register!TokenInv /\ (Register!Next \/ UNCHANGED Register!vars) => Register!TokenInv'
<1>1. Register!Init => Register!TokenInv
  BY DEF Register!Init, Register!TokenInv, Register!TypeOK, Register!RefreshStored
<1>2. Register!TokenInv /\ (Register!Next \/ UNCHANGED Register!vars) => Register!TokenInv'
  <2>. SUFFICES ASSUME Register!TokenInv, Register!Next \/ UNCHANGED Register!vars PROVE Register!TokenInv'
    OBVIOUS
  <2>1. ASSUME NEW r \in Requests, Register!BeginIssue(r)
        PROVE  Register!TokenInv'
    BY <2>1 DEF Register!BeginIssue, Register!TokenInv, Register!TypeOK, Register!RefreshStored
  <2>2. ASSUME NEW r \in Requests, Register!Issue(r)
        PROVE  Register!TokenInv'
    <3>1. PICK t2, t3, t4 \in loc[r].start .. now :
            loc' = [loc EXCEPT ![r] =
                      Register!Issued(loc[r].device, settings, <<loc[r].start, t2, t3, t4>>)]
      BY <2>2, Zenon DEF Register!Issue
    <3>. DEFINE new == Register!Issued(loc[r].device, settings, <<loc[r].start, t2, t3, t4>>)
    <3>2. new \in Register!Pair /\ Register!PairOK(new)
      BY <2>2, <3>1, IssuedPair DEF Register!Issue, Register!TokenInv, Register!TypeOK
    <3>. HIDE DEF new
    <3>. QED
      BY <2>2, <3>1, <3>2 DEF Register!Issue, Register!TokenInv, Register!TypeOK, Register!RefreshStored, new
  <2>3. ASSUME NEW r \in Requests, Register!SaveRefreshToken(r)
        PROVE  Register!TokenInv'
    <3>1. pc[r] = "save" /\ Register!Answer(r, TRUE) /\ UNCHANGED <<now, settings, started, faults>>
      BY <2>3, Zenon DEF Register!SaveRefreshToken
    <3>2. Register!TypeOK'
      BY <3>1, <2>3, Answered, RowStored, Zenon DEF Register!TokenInv, Register!TypeOK
    <3>3. ASSUME NEW i \in issued', i.saved
          PROVE  \E w \in tokens' : /\ w.token = i.pair.refresh
                                    /\ w.device = i.pair.device
                                    /\ Register!Seconds(w.expires) = i.pair.refresh.exp
      <4>1. CASE i \in issued
        BY <4>1, <3>3, <2>3, RowStored DEF Register!TokenInv, Register!RefreshStored
      <4>2. CASE i.pair = loc[r]
        BY <4>2, <2>3, RowStored
      <4>. QED
        BY <4>1, <4>2, <3>1, Answered, Zenon
    <3>. QED
      BY <3>1, <3>2, <3>3, <2>3, Answered, RowStored, Zenon DEF Register!TokenInv, Register!RefreshStored
  <2>4. ASSUME NEW r \in Requests, Register!SaveFails(r)
        PROVE  Register!TokenInv'
    <3>1. pc[r] = "save" /\ Register!Answer(r, FALSE) /\ UNCHANGED <<now, settings, tokens, started>>
      BY <2>4, Zenon DEF Register!SaveFails
    <3>2. Register!TypeOK'
      <4>1. /\ pc' \in [Requests -> {"idle", "issue", "save"}]
            /\ DOMAIN loc' = Requests
            /\ \A q \in Requests : pc'[q] # "idle" => pc'[q] = pc[q] /\ loc'[q] = loc[q]
            /\ issued' \subseteq [pair : Register!Pair, saved : BOOLEAN]
        BY <3>1, Answered, Zenon
      <4>2. faults' \in Nat
        BY <2>4 DEF Register!SaveFails, Register!TokenInv, Register!TypeOK
      <4>. QED
        BY <3>1, <4>1, <4>2 DEF Register!TokenInv, Register!TypeOK
    <3>3. Register!RefreshStored'
      BY <3>1, Answered, Zenon DEF Register!TokenInv, Register!RefreshStored
    <3>. QED
      BY <3>1, <3>2, <3>3, Answered, Zenon DEF Register!TokenInv
  <2>5. CASE Register!Restart
    BY <2>5 DEF Register!Restart, Register!TokenInv, Register!TypeOK, Register!RefreshStored
  <2>6. CASE Register!Tick
    BY <2>6 DEF Register!Tick, Register!TokenInv, Register!TypeOK, Register!RefreshStored
  <2>7. CASE UNCHANGED Register!vars
    BY <2>7 DEF Register!vars, Register!TokenInv, Register!TypeOK, Register!RefreshStored
  <2>. QED
    BY <2>1, <2>2, <2>3, <2>4, <2>5, <2>6, <2>7 DEF Register!Next
<1>. QED
  BY <1>1, <1>2

-----------------------------------------------------------------------------
(* Tokens are accepted for as long as they and the answer say. *)
LEMMA Lifetimes ==
    Register!TokenInv => Register!LifetimeExact
<1>. SUFFICES ASSUME Register!TokenInv, NEW i \in issued
              PROVE  /\ Register!Parse(i.pair.access) => now < i.pair.start + AccessTTL
                     /\ i.pair.settings = settings =>
                          /\ now + PerSecond <= i.pair.start + AccessTTL => Register!Parse(i.pair.access)
                          /\ Register!Parse(i.pair.access) <=> now < i.pair.expiresAt * PerSecond
  BY DEF Register!LifetimeExact
<1>. DEFINE t == i.pair.start + AccessTTL
<1>1. /\ i.pair.access.settings = i.pair.settings
      /\ i.pair.access.exp = Register!Seconds(t)
      /\ i.pair.expiresAt = i.pair.access.exp
  BY DEF Register!TokenInv, Register!PairOK
<1>2. t \in Int /\ now \in Int /\ PerSecond \in Nat \ {0}
  BY TokenAssumption DEF Register!TokenInv, Register!TypeOK, Register!Pair, Register!TokenConstants
<1>. HIDE DEF t
<1>3. /\ now < Register!Seconds(t) * PerSecond => now < t
      /\ now + PerSecond <= t => now < Register!Seconds(t) * PerSecond
  BY <1>2, RoundedDeadline DEF Register!Seconds
<1>4. Register!Parse(i.pair.access) <=> i.pair.settings = settings /\ now < Register!Seconds(t) * PerSecond
  BY <1>1 DEF Register!Parse
<1>. QED
  BY <1>1, <1>3, <1>4 DEF t

-----------------------------------------------------------------------------
(* events: the query *)

(* The size of a set means the same in EventListing as here. *)
LEMMA ListingSizes ==
    \A S : /\ Listing!IsFiniteSet(S) = IsFiniteSet(S)
           /\ Listing!Cardinality(S) = Cardinality(S)
  BY Zenon DEF Listing!IsFiniteSet, Listing!Cardinality, IsFiniteSet, Cardinality

(* When one sequence is the concatenation of two others. *)
LEMMA ConcatIs ==
    ASSUME NEW S, NEW s \in Seq(S), NEW t \in Seq(S), NEW u \in Seq(S),
           Len(u) = Len(s) + Len(t),
           \A i \in 1 .. Len(s) : u[i] = s[i],
           \A i \in 1 .. Len(t) : u[Len(s) + i] = t[i]
    PROVE  s \o t = u
<1>1. s \o t \in Seq(S) /\ Len(s \o t) = Len(u)
  OBVIOUS
<1>2. ASSUME NEW i \in 1 .. Len(s \o t) PROVE (s \o t)[i] = u[i]
  <2>1. CASE i <= Len(s)
    BY <2>1
  <2>2. CASE i > Len(s)
    <3>1. i - Len(s) \in 1 .. Len(t) /\ i = Len(s) + (i - Len(s))
      BY <1>1, <2>2
    <3>. QED
      BY <2>2, <3>1
  <2>. QED
    BY <1>1, <2>1, <2>2
<1>. QED
  BY <1>1, <1>2

(* The concatenations that BuildQuery makes. *)
LEMMA Join ==
    ASSUME NEW a, NEW b, NEW c, NEW d
    PROVE  /\ <<a>> # <<>>
           /\ <<>> \o <<>> = <<>> /\ <<a>> \o <<>> = <<a>> /\ <<>> \o <<a>> = <<a>>
           /\ <<>> \o <<c, d>> = <<c, d>>
           /\ <<a>> \o <<b>> = <<a, b>>
           /\ <<a>> \o <<c, d>> = <<a, c, d>>
           /\ <<a, b>> \o <<c, d>> = <<a, b, c, d>>
<1>. DEFINE S == {a, b, c, d}
<1>1. <<a>> # <<>>
  OBVIOUS
<1>2. <<>> \o <<>> = <<>> /\ <<a>> \o <<>> = <<a>> /\ <<>> \o <<a>> = <<a>>
  OBVIOUS
<1>3. <<>> \o <<c, d>> = <<c, d>>
  OBVIOUS
<1>4. <<a>> \o <<b>> = <<a, b>>
  <2>. DEFINE s == <<a>>
              t == <<b>>
              u == <<a, b>>
  <2>1. s \in Seq(S) /\ t \in Seq(S) /\ u \in Seq(S)
    OBVIOUS
  <2>2. /\ Len(s) = 1 /\ Len(t) = 1 /\ Len(u) = 2
        /\ u[1] = s[1] /\ u[2] = t[1]
    OBVIOUS
  <2>. HIDE DEF s, t, u, S
  <2>3. Len(u) = Len(s) + Len(t)
    BY <2>2
  <2>4. \A i \in 1 .. Len(s) : u[i] = s[i]
    BY <2>2
  <2>5. \A i \in 1 .. Len(t) : u[Len(s) + i] = t[i]
    BY <2>2
  <2>6. s \o t = u
    BY <2>1, <2>3, <2>4, <2>5, ConcatIs, Zenon
  <2>. QED
    BY <2>6 DEF s, t, u
<1>5. <<a>> \o <<c, d>> = <<a, c, d>>
  <2>. DEFINE s == <<a>>
              t == <<c, d>>
              u == <<a, c, d>>
  <2>1. s \in Seq(S) /\ t \in Seq(S) /\ u \in Seq(S)
    OBVIOUS
  <2>2. /\ Len(s) = 1 /\ Len(t) = 2 /\ Len(u) = 3
        /\ u[1] = s[1] /\ u[2] = t[1] /\ u[3] = t[2]
    OBVIOUS
  <2>. HIDE DEF s, t, u, S
  <2>3. Len(u) = Len(s) + Len(t)
    BY <2>2
  <2>4. \A i \in 1 .. Len(s) : u[i] = s[i]
    BY <2>2
  <2>5. \A i \in 1 .. Len(t) : u[Len(s) + i] = t[i]
    BY <2>2
  <2>6. s \o t = u
    BY <2>1, <2>3, <2>4, <2>5, ConcatIs, Zenon
  <2>. QED
    BY <2>6 DEF s, t, u
<1>6. <<a, b>> \o <<c, d>> = <<a, b, c, d>>
  <2>. DEFINE s == <<a, b>>
              t == <<c, d>>
              u == <<a, b, c, d>>
  <2>1. s \in Seq(S) /\ t \in Seq(S) /\ u \in Seq(S)
    OBVIOUS
  <2>2. /\ Len(s) = 2 /\ Len(t) = 2 /\ Len(u) = 4
        /\ u[1] = s[1] /\ u[2] = s[2] /\ u[3] = t[1] /\ u[4] = t[2]
    OBVIOUS
  <2>. HIDE DEF s, t, u, S
  <2>3. Len(u) = Len(s) + Len(t)
    BY <2>2
  <2>4. \A i \in 1 .. Len(s) : u[i] = s[i]
    BY <2>2
  <2>5. \A i \in 1 .. Len(t) : u[Len(s) + i] = t[i]
    BY <2>2
  <2>6. s \o t = u
    BY <2>1, <2>3, <2>4, <2>5, ConcatIs, Zenon
  <2>. QED
    BY <2>6 DEF s, t, u
<1>. QED
  BY <1>1, <1>2, <1>3, <1>4, <1>5, <1>6

(* The parameters as the query uses them. *)
LEMMA Parameters ==
    ASSUME request \in Listing!Request, offset \in Nat
    PROVE  /\ Listing!Limit(request.limit) \in Nat \ {0}
           /\ Listing!Offset(offset) = offset
<1>1. request.limit \in Int \cup {Absent}
  BY ListingAssumption, ListingSizes, Zenon DEF Listing!Request, Listing!ListingConstants
<1>2. offset # Absent
  BY ListingAssumption, ListingSizes DEF Listing!ListingConstants
<1>. QED
  BY <1>1, <1>2, ListingAssumption, ListingSizes DEF Listing!Limit, Listing!Offset, Listing!ListingConstants

Query == Listing!BuildQuery(request.device, request.user, request.limit, offset)

(* Every combination of filters selects what is wanted, and the placeholders of
   LIMIT and OFFSET meet their arguments. *)
LEMMA QueryMeans ==
    ASSUME Listing!TypeOK
    PROVE  /\ Listing!Selected(Query) = {e \in stored : Listing!Wanted(e)}
           /\ Query.args[Query.limit] = Listing!Limit(request.limit)
           /\ Query.args[Query.offset] = offset
<1>. DEFINE dev == request.device
            usr == request.user
            lim == Listing!Limit(request.limit)
<1>1. Listing!Offset(offset) = offset
  BY Parameters DEF Listing!TypeOK
<1>2. CASE dev = Any /\ usr = Any
  <2>1. Query = [where |-> <<>>, limit |-> 1, offset |-> 2, args |-> <<lim, offset>>]
    BY <1>1, <1>2, Join DEF Query, Listing!BuildQuery
  <2>. QED
    BY <2>1, <1>2 DEF Listing!Selected, Listing!Wanted
<1>3. CASE dev # Any /\ usr = Any
  <2>1. Query = [where |-> <<[column |-> "device_id", arg |-> 1]>>, limit |-> 2,
                 offset |-> 3, args |-> <<dev, lim, offset>>]
    BY <1>1, <1>3, Join DEF Query, Listing!BuildQuery
  <2>. QED
    BY <2>1, <1>3 DEF Listing!Selected, Listing!Wanted, Listing!Column
<1>4. CASE dev = Any /\ usr # Any
  <2>1. Query = [where |-> <<[column |-> "user_id", arg |-> 1]>>, limit |-> 2,
                 offset |-> 3, args |-> <<usr, lim, offset>>]
    BY <1>1, <1>4, Join DEF Query, Listing!BuildQuery
  <2>. QED
    BY <2>1, <1>4 DEF Listing!Selected, Listing!Wanted, Listing!Column
<1>5. CASE dev # Any /\ usr # Any
  <2>1. Query = [where |-> <<[column |-> "device_id", arg |-> 1],
                             [column |-> "user_id", arg |-> 2]>>, limit |-> 3,
                 offset |-> 4, args |-> <<dev, usr, lim, offset>>]
    BY <1>1, <1>5, Join DEF Query, Listing!BuildQuery
  <2>. QED
    BY <2>1, <1>5 DEF Listing!Selected, Listing!Wanted, Listing!Column
<1>. QED
  BY <1>2, <1>3, <1>4, <1>5

-----------------------------------------------------------------------------
(* events: pages *)

Listed == {e \in stored : Listing!Wanted(e)}

(* The events of a listing are finitely many. *)
LEMMA StoredFinite ==
    ASSUME Listing!TypeOK
    PROVE  /\ IsFiniteSet(Listed)
           /\ \A X \in SUBSET Listed :
                IsFiniteSet(X) /\ Cardinality(X) \in Nat /\ Cardinality(X) <= Cardinality(Listed)
<1>1. Listed \subseteq Events /\ IsFiniteSet(Events)
  BY ListingAssumption, ListingSizes DEF Listed, Listing!TypeOK, Listing!ListingConstants
<1>2. IsFiniteSet(Listed)
  BY <1>1, FS_Subset
<1>. QED
  BY <1>2, FS_Subset, FS_CardinalityType

(* A page is what a first part of the listing has more than a shorter one. *)
LEMMA PageIs ==
    ASSUME Listing!TypeOK, NEW P \in Listing!Pages(Query)
    PROVE  \E skipped \in SUBSET Listed, T \in SUBSET Listed :
             /\ skipped \subseteq T /\ P = T \ skipped
             /\ Cardinality(skipped) = Listing!Smaller(offset, Cardinality(Listed))
             /\ Cardinality(T) = Listing!Smaller(Cardinality(skipped) + Listing!Limit(request.limit), Cardinality(Listed))
             /\ \A e \in skipped, f \in Listed \ skipped : WhenOf[f] <= WhenOf[e]
             /\ \A e \in T, f \in Listed \ T : WhenOf[f] <= WhenOf[e]
<1>. DEFINE n == Listing!Cardinality(Listed)
            from == Listing!Smaller(offset, n)
            to == Listing!Smaller(from + Listing!Limit(request.limit), n)
<1>1. P \in UNION {{T \ skipped : T \in {U \in Listing!Tops(Listed, to) : skipped \subseteq U}} :
                     skipped \in Listing!Tops(Listed, from)}
  BY QueryMeans, ZenonT(40) DEF Listing!Pages, Listed
<1>. HIDE DEF n, from, to
<1>2. PICK skipped \in Listing!Tops(Listed, from), T \in Listing!Tops(Listed, to) :
        skipped \subseteq T /\ P = T \ skipped
  BY <1>1
<1>. QED
  BY <1>2, ListingSizes DEF Listing!Tops, n, from, to

(* A page advances the offset to the number of rows that are behind it. *)
LEMMA PageSize ==
    ASSUME NEW o \in Nat, NEW n \in Nat, NEW l \in Nat \ {0}, o < n
    PROVE  /\ Listing!Smaller(o, n) = o
           /\ Listing!Smaller(o + l, n) \in Nat /\ Listing!Smaller(o + l, n) > o
  BY DEF Listing!Smaller

(* The step of the argument: an event that is still ahead is on the page, or
   still ahead after it. *)
LEMMA StillAheadAfterPage ==
    ASSUME Listing!TypeOK, NEW P \in Listing!Pages(Query),
           NEW e \in Listed, Listing!Unmistakable(e), e \notin P,
           Cardinality(Listing!Later(e)) >= offset
    PROVE  P # {} /\ Cardinality(Listing!Later(e)) >= offset + Cardinality(P)
<1>1. PICK skipped \in SUBSET Listed, T \in SUBSET Listed :
             /\ skipped \subseteq T /\ P = T \ skipped
             /\ Cardinality(skipped) = Listing!Smaller(offset, Cardinality(Listed))
             /\ Cardinality(T) = Listing!Smaller(Cardinality(skipped) + Listing!Limit(request.limit), Cardinality(Listed))
             /\ \A d \in skipped, f \in Listed \ skipped : WhenOf[f] <= WhenOf[d]
             /\ \A d \in T, f \in Listed \ T : WhenOf[f] <= WhenOf[d]
  BY PageIs
<1>2. \A f \in Listed : f \in Events /\ WhenOf[f] \in Int
  BY ListingAssumption, ListingSizes DEF Listed, Listing!TypeOK, Listing!ListingConstants
<1>3. /\ Listing!Later(e) \subseteq Listed
      /\ \A f \in Listed : f \in Listing!Later(e) <=> WhenOf[f] > WhenOf[e]
      /\ e \notin Listing!Later(e)
  BY <1>2 DEF Listing!Later, Listed
<1>4. \A f \in Listed \ {e} : WhenOf[f] # WhenOf[e]
  BY DEF Listing!Unmistakable, Listed
<1>. DEFINE n == Cardinality(Listed)
<1>5. n \in Nat /\ Cardinality(Listing!Later(e)) \in Nat /\ Cardinality(skipped) \in Nat
  BY <1>1, <1>3, StoredFinite
<1>6. e \notin skipped
  <2>. SUFFICES ASSUME e \in skipped PROVE FALSE
    OBVIOUS
  <2>1. Listing!Later(e) \subseteq skipped
    BY <1>1, <1>2, <1>3
  <2>2. Listing!Later(e) # skipped /\ IsFiniteSet(skipped)
    BY <1>1, <1>3, StoredFinite
  <2>3. Cardinality(Listing!Later(e)) < Cardinality(skipped)
    BY <2>1, <2>2, FS_Subset, <1>5, FS_CardinalityType
  <2>. QED
    BY <2>3, <1>1, <1>5 DEF Listing!Smaller, Listing!TypeOK
<1>7. offset < n
  <2>. SUFFICES ASSUME offset >= n PROVE FALSE
    BY <1>5 DEF Listing!TypeOK
  <2>1. Cardinality(skipped) = n
    BY <1>1, <1>5 DEF Listing!Smaller, Listing!TypeOK
  <2>2. skipped = Listed
    BY <2>1, <1>1, StoredFinite, FS_Subset, Zenon
  <2>. QED
    BY <2>2, <1>6
<1>8. e \notin T
  BY <1>1, <1>6
<1>9. T \subseteq Listing!Later(e)
  BY <1>1, <1>2, <1>3, <1>4, <1>8
<1>10. Cardinality(T) <= Cardinality(Listing!Later(e))
  BY <1>3, <1>9, StoredFinite, FS_Subset
<1>11. /\ Cardinality(skipped) = offset
       /\ Cardinality(T) \in Nat /\ Cardinality(T) > offset
  <2>1. offset \in Nat /\ Listing!Limit(request.limit) \in Nat \ {0}
    BY Parameters DEF Listing!TypeOK
  <2>2. /\ Listing!Smaller(offset, n) = offset
        /\ Listing!Smaller(offset + Listing!Limit(request.limit), n) \in Nat
        /\ Listing!Smaller(offset + Listing!Limit(request.limit), n) > offset
    BY <2>1, <1>5, <1>7, PageSize, Zenon
  <2>. QED
    BY <1>1, <2>2
<1>12. Cardinality(P) = Cardinality(T) - Cardinality(skipped)
  <2>1. IsFiniteSet(T) /\ T \cap skipped = skipped
    BY <1>1, StoredFinite
  <2>. QED
    BY <1>1, <2>1, FS_Difference, Zenon
<1>13. Cardinality(P) > 0 /\ offset + Cardinality(P) = Cardinality(T)
  BY <1>11, <1>12 DEF Listing!TypeOK
<1>14. P # {}
  BY <1>13, FS_EmptySet
<1>. QED
  BY <1>10, <1>13, <1>14

-----------------------------------------------------------------------------
(* events: the invariant *)

(* A row that is stored meanwhile only moves others further back. *)
LEMMA InsertKeeps ==
    ASSUME Listing!ListingInv, Listing!InsertEvent
    PROVE  Listing!ListingInv'
<1>1. PICK n \in Events : stored' = stored \cup {n}
  BY DEF Listing!InsertEvent
<1>2. UNCHANGED <<request, offset, seen, begun, done>> /\ Listing!TypeOK'
  BY <1>1 DEF Listing!InsertEvent, Listing!ListingInv, Listing!TypeOK
<1>3. \A e : Listing!Wanted(e)' = Listing!Wanted(e)
  BY <1>2 DEF Listing!Wanted
<1>4. ASSUME NEW e \in begun \ seen, Listing!Wanted(e), Listing!Unmistakable(e)'
      PROVE  ~done /\ Cardinality(Listing!Later(e)') >= offset
  <2>1. Listing!Unmistakable(e)
    BY <1>1, <1>3, <1>4 DEF Listing!Unmistakable
  <2>2. ~done /\ Cardinality(Listing!Later(e)) >= offset
    BY <2>1, <1>4, ListingSizes DEF Listing!ListingInv, Listing!StillAhead
  <2>3. Listing!Later(e) \subseteq Listing!Later(e)'
    BY <1>1, <1>3 DEF Listing!Later
  <2>4. IsFiniteSet(Listing!Later(e)')
    <3>1. Listing!Later(e)' \subseteq Events /\ IsFiniteSet(Events)
      BY <1>2, ListingAssumption, ListingSizes DEF Listing!Later, Listing!TypeOK, Listing!ListingConstants
    <3>. QED
      BY <3>1, FS_Subset
  <2>5. /\ Cardinality(Listing!Later(e)) <= Cardinality(Listing!Later(e)') /\ Cardinality(Listing!Later(e)') \in Nat
        /\ Cardinality(Listing!Later(e)) \in Nat /\ offset \in Nat
    BY <2>3, <2>4, FS_Subset, FS_CardinalityType DEF Listing!ListingInv, Listing!TypeOK
  <2>. QED
    BY <2>2, <2>5
<1>5. Listing!StillAhead'
  BY <1>2, <1>3, <1>4, ListingSizes DEF Listing!StillAhead
<1>6. (begun \subseteq stored)' /\ Listing!FilterExact'
  BY <1>1, <1>2, <1>3 DEF Listing!ListingInv, Listing!FilterExact
<1>. QED
  BY <1>2, <1>5, <1>6 DEF Listing!ListingInv

(* A page shows some events and leaves the others ahead. *)
LEMMA ListKeeps ==
    ASSUME Listing!ListingInv, Listing!ListEvents
    PROVE  Listing!ListingInv'
<1>1. PICK P \in Listing!Pages(Query) :
        seen' = seen \cup P /\ offset' = offset + Cardinality(P) /\ done' = (P = {})
  BY ListingSizes DEF Listing!ListEvents, Query
<1>2. UNCHANGED <<stored, request, begun>> /\ Listing!TypeOK /\ ~done
  BY ListingSizes DEF Listing!ListEvents, Listing!ListingInv
<1>3. P \subseteq Listed /\ Cardinality(P) \in Nat
  <2>1. P \subseteq Listed
    BY <1>2, PageIs
  <2>. QED
    BY <2>1, <1>2, StoredFinite
<1>4. \A e : /\ Listing!Wanted(e)' = Listing!Wanted(e) /\ Listing!Unmistakable(e)' = Listing!Unmistakable(e)
             /\ Listing!Later(e)' = Listing!Later(e)
  BY <1>2 DEF Listing!Wanted, Listing!Unmistakable, Listing!Later
<1>5. Listing!TypeOK'
  BY <1>1, <1>2, <1>3 DEF Listing!TypeOK, Listed
<1>6. ASSUME NEW e \in begun \ seen', Listing!Wanted(e), Listing!Unmistakable(e)
      PROVE  ~done' /\ Cardinality(Listing!Later(e)) >= offset'
  <2>1. e \in begun \ seen /\ e \notin P /\ e \in Listed
    BY <1>1, <1>6 DEF Listing!ListingInv, Listed
  <2>2. Cardinality(Listing!Later(e)) >= offset
    BY <2>1, <1>6, ListingSizes DEF Listing!ListingInv, Listing!StillAhead
  <2>3. P # {} /\ Cardinality(Listing!Later(e)) >= offset + Cardinality(P)
    BY <2>1, <2>2, <1>2, <1>6, StillAheadAfterPage
  <2>. QED
    BY <1>1, <2>3, Zenon
<1>7. Listing!StillAhead'
  BY <1>2, <1>4, <1>6, ListingSizes DEF Listing!StillAhead
<1>8. (begun \subseteq stored)' /\ Listing!FilterExact'
  BY <1>1, <1>2, <1>3, <1>4 DEF Listing!ListingInv, Listing!FilterExact, Listed
<1>. QED
  BY <1>5, <1>7, <1>8 DEF Listing!ListingInv

(* ListingInv holds whatever is stored while a client reads its pages. *)
LEMMA ListingKeep ==
    /\ Listing!Init => Listing!ListingInv
    /\ Listing!ListingInv /\ (Listing!Next \/ UNCHANGED Listing!vars) => Listing!ListingInv'
<1>1. Listing!Init => Listing!ListingInv
  <2>. SUFFICES ASSUME Listing!Init PROVE Listing!ListingInv
    OBVIOUS
  <2>1. Listing!TypeOK /\ begun \subseteq stored /\ Listing!FilterExact
    BY Zenon DEF Listing!Init, Listing!TypeOK, Listing!FilterExact
  <2>2. ASSUME NEW e PROVE Cardinality(Listing!Later(e)) >= offset
    <3>1. Listing!Later(e) \subseteq Events /\ IsFiniteSet(Events)
      BY <2>1, ListingAssumption, ListingSizes DEF Listing!Later, Listing!TypeOK, Listing!ListingConstants
    <3>2. Cardinality(Listing!Later(e)) \in Nat
      BY <3>1, FS_Subset, FS_CardinalityType
    <3>. QED
      BY <3>2 DEF Listing!Init
  <2>3. ~done
    BY DEF Listing!Init
  <2>. QED
    BY <2>1, <2>2, <2>3, ListingSizes DEF Listing!ListingInv, Listing!StillAhead
<1>2. Listing!ListingInv /\ (Listing!Next \/ UNCHANGED Listing!vars) => Listing!ListingInv'
  <2>. SUFFICES ASSUME Listing!ListingInv, Listing!Next \/ UNCHANGED Listing!vars PROVE Listing!ListingInv'
    OBVIOUS
  <2>1. CASE Listing!InsertEvent
    BY <2>1, InsertKeeps
  <2>2. CASE Listing!ListEvents
    BY <2>2, ListKeeps
  <2>3. CASE UNCHANGED Listing!vars
    BY <2>3, ListingSizes
       DEF Listing!vars, Listing!ListingInv, Listing!TypeOK, Listing!FilterExact,
           Listing!StillAhead, Listing!Wanted, Listing!Unmistakable, Listing!Later
  <2>. QED
    BY <2>1, <2>2, <2>3 DEF Listing!Next
<1>. QED
  BY <1>1, <1>2

-----------------------------------------------------------------------------
(* The endpoints together *)

LEMMA EndpointsInit ==
    Init => EndpointsInv
<1>. SUFFICES ASSUME Init PROVE EndpointsInv
  OBVIOUS
<1>1. Register!TokenInv /\ Upload!UploadInv /\ Listing!ListingInv
  BY TokensKeep, UploadInit, ListingKeep DEF Init
<1>2. issued = {}
  BY DEF Init, Register!Init
<1>. QED
  BY <1>1, <1>2 DEF EndpointsInv

(* A step of one endpoint keeps its invariant, and those of the others as they
   share nothing with it but what belongs to the endpoint that is chosen. *)
LEMMA EndpointsKeep ==
    EndpointsInv /\ [Next]_vars => EndpointsInv'
<1>. SUFFICES ASSUME EndpointsInv, [Next]_vars PROVE EndpointsInv'
  OBVIOUS
<1>1. UNCHANGED eventsVars => Listing!ListingInv'
  <2>1. UNCHANGED eventsVars => UNCHANGED Listing!vars
    BY DEF eventsVars, Listing!vars
  <2>. QED
    BY <2>1, ListingKeep DEF EndpointsInv
<1>2. CASE endpoint = "register" /\ Register!Next /\ UNCHANGED <<eventsVars, endpoint>>
  BY <1>1, <1>2, TokensKeep DEF EndpointsInv
<1>3. CASE endpoint = "upload" /\ Upload!Next /\ UNCHANGED <<registerVars, eventsVars, endpoint>>
  BY <1>1, <1>3, UploadKeeps DEF EndpointsInv, registerVars
<1>4. CASE endpoint = "events" /\ Listing!Next /\ UNCHANGED <<registerVars, endpoint>>
  BY <1>4, ListingKeep DEF EndpointsInv, registerVars
<1>5. CASE endpoint \in {"healthz", "students"} /\ UNCHANGED <<registerVars, eventsVars, endpoint>>
  BY <1>1, <1>5 DEF EndpointsInv, registerVars
<1>6. CASE UNCHANGED vars
  <2>1. /\ UNCHANGED <<endpoint, issued, eventsVars>>
        /\ UNCHANGED Register!vars /\ UNCHANGED Upload!vars
    BY <1>6 DEF vars, registerVars, uploadVars, Register!vars, Upload!vars
  <2>. QED
    BY <1>1, <2>1, TokensKeep, UploadKeeps DEF EndpointsInv
<1>7. CASE Next
  BY <1>2, <1>3, <1>4, <1>5, <1>7 DEF Next
<1>. QED
  BY <1>6, <1>7

(* The invariants of register, upload and events hold in every reachable state
   of the API, for any number of requests, devices, photos, events and faults
   and however requests interleave at the endpoint that is looked at. *)
THEOREM EndpointsInvariance ==
    FairSpec => []EndpointsInv
  BY EndpointsInit, EndpointsKeep, PTL DEF FairSpec

(* The access token that register answers with is accepted as long as
   Issuer.Issue and the answer's expires_at say, up to the second that a claim
   rounds to. *)
THEOREM AccessLifetime ==
    FairSpec => []LifetimeExact
<1>1. EndpointsInv => LifetimeExact
  <2>1. issued = {} => Register!LifetimeExact
    BY DEF Register!LifetimeExact
  <2>. QED
    BY <2>1, Lifetimes DEF EndpointsInv, LifetimeExact
<1>. QED
  BY <1>1, EndpointsInvariance, PTL

(* A refresh token that was handed out and saved is in the table, for its own
   device and with its own expiry, also if the same token was issued twice. *)
THEOREM RefreshAlwaysStored ==
    FairSpec => []RefreshStored
<1>1. EndpointsInv => RefreshStored
  BY DEF EndpointsInv, RefreshStored, Register!TokenInv, Register!RefreshStored
<1>. QED
  BY <1>1, EndpointsInvariance, PTL

(* A client that pages through GET /v1/events misses nothing that was there
   when it began, except among equal times, and sees only what it asked for. *)
THEOREM ListingAlwaysExact ==
    FairSpec => []ListingExact
<1>1. EndpointsInv => ListingExact
  BY DEF EndpointsInv, ListingExact, Listing!ListingInv, Listing!ListingExact, Listing!StillAhead
<1>. QED
  BY <1>1, EndpointsInvariance, PTL

(* An upload that is answered 200 gets the URL of its own image and of no other;
   answers 502 and images that no answer names are at most as many as the
   faults, whatever the order of Go's maps. *)
THEOREM UploadsAlwaysRight ==
    FairSpec => []UploadsRight
<1>1. EndpointsInv => UploadsRight
  BY UploadsCounted DEF EndpointsInv, UploadsRight
<1>. QED
  BY <1>1, EndpointsInvariance, PTL
=============================================================================
