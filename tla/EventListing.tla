----------------------------- MODULE EventListing -----------------------------
(***************************************************************************)
(* GET /v1/events: the query that ListEvents builds, and a client that     *)
(* reads all pages of a listing while check-ins go on.                     *)
(*                                                                         *)
(* An event is an element of Events; device, user and time are functions   *)
(* of it, as they never change (EventLifecycle).  A page is the set of its *)
(* events.  A query parameter is an integer, or Absent, which also stands  *)
(* for text that Atoi rejects.                                             *)
(***************************************************************************)
EXTENDS Integers, Sequences, FiniteSets

CONSTANTS
  Events,         \* events that are stored sooner or later
  DeviceOf, UserOf, WhenOf,  \* device_id, user_id and occurred_at of an event
  Any,            \* an empty filter
  Absent,         \* a parameter that is missing or not a number
  Limits,         \* values the client gives for limit
  DefaultLimit    \* 50

ListingConstants ==
  /\ IsFiniteSet(Events)
  /\ WhenOf \in [Events -> Int]
  /\ DOMAIN DeviceOf = Events /\ DOMAIN UserOf = Events
  /\ \A e \in Events : DeviceOf[e] # Any /\ UserOf[e] # Any
  /\ Absent \notin Int
  /\ Limits \subseteq Int \cup {Absent}
  /\ DefaultLimit \in Nat \ {0}

ListedDevices == {DeviceOf[e] : e \in Events}
ListedUsers == {UserOf[e] : e \in Events}

VARIABLES
  stored,   \* rows of attendance_events
  request,  \* the listing the client reads: [device, user, limit]
  offset,   \* offset of its next page
  seen,     \* events on the pages it has read
  begun,    \* events that were stored when it began
  done      \* the last page was empty

vars == <<stored, request, offset, seen, begun, done>>

Request == [device : ListedDevices \cup {Any}, user : ListedUsers \cup {Any}, limit : Limits]

TypeOK ==
  /\ stored \subseteq Events
  /\ request \in Request
  /\ offset \in Nat
  /\ seen \subseteq Events
  /\ begun \subseteq Events
  /\ done \in BOOLEAN

-----------------------------------------------------------------------------
(* The handler's default and ListEvents' clamp, for both parameters. *)
Limit(v) == IF v = Absent \/ v <= 0 THEN DefaultLimit ELSE v

(* A mutated form of Offset: pages are numbered from one. *)
OffsetFromOne(v) == IF v = Absent \/ v < 0 THEN 0 ELSE v + 1

Offset(v) == IF v = Absent \/ v < 0 THEN 0 ELSE v

(* The text of the query and its arguments: a clause compares a column with
   the argument that its placeholder numbers. *)
BuildQuery(device, user, limit, off) ==
  LET d == IF device # Any THEN <<device>> ELSE <<>>
      u == IF user # Any THEN <<user>> ELSE <<>>
  IN [where |-> (IF d # <<>> THEN <<[column |-> "device_id", arg |-> 1]>> ELSE <<>>)
             \o (IF u # <<>> THEN <<[column |-> "user_id", arg |-> Len(d) + 1]>> ELSE <<>>),
      limit |-> Len(d \o u) + 1,
      offset |-> Len(d \o u) + 2,
      args |-> d \o u \o <<Limit(limit), Offset(off)>>]

Column(e, c) == IF c = "device_id" THEN DeviceOf[e] ELSE UserOf[e]

(* The rows that the WHERE clause of q selects. *)
Selected(q) ==
  {e \in stored : \A k \in DOMAIN q.where :
     Column(e, q.where[k].column) = q.args[q.where[k].arg]}

Smaller(a, b) == IF a <= b THEN a ELSE b

(* The sets that the first k rows of S may be, in an order in which
   occurred_at descends; rows with the same time come in any order. *)
Tops(S, k) ==
  {T \in SUBSET S : /\ Cardinality(T) = k
                    /\ \A e \in T, f \in S \ T : WhenOf[f] <= WhenOf[e]}

(* The results that ORDER BY occurred_at DESC LIMIT OFFSET may have. *)
Pages(q) ==
  LET S == Selected(q)
      n == Cardinality(S)
      from == Smaller(q.args[q.offset], n)
      to == Smaller(from + q.args[q.limit], n)
  IN UNION {{T \ skipped : T \in {U \in Tops(S, to) : skipped \subseteq U}} :
              skipped \in Tops(S, from)}

-----------------------------------------------------------------------------
(* A client begins to read a listing at any time. *)
Init ==
  /\ stored \in SUBSET Events
  /\ begun = stored
  /\ request \in Request
  /\ offset = 0
  /\ seen = {}
  /\ done = FALSE

(* A check-in is stored.  Its time was read before, so it need not be later
   than those of the rows that are there. *)
InsertEvent ==
  /\ \E e \in Events \ stored : stored' = stored \cup {e}
  /\ UNCHANGED <<request, offset, seen, begun, done>>

(* The client asks for its next page; it has finished when that is empty. *)
ListEvents ==
  /\ ~done
  /\ \E q \in {BuildQuery(request.device, request.user, request.limit, offset)} :
       \E P \in Pages(q) :
         /\ seen' = seen \cup P
         /\ offset' = offset + Cardinality(P)
         /\ done' = (P = {})
  /\ UNCHANGED <<stored, request, begun>>

Next == InsertEvent \/ ListEvents

Spec == Init /\ [][Next]_vars

-----------------------------------------------------------------------------
(* Properties *)

Wanted(e) ==
  /\ request.device \in {Any, DeviceOf[e]}
  /\ request.user \in {Any, UserOf[e]}

(* Nothing else is listed than what was asked for. *)
FilterExact == \A e \in seen : Wanted(e)

(* No other listed event has the same time. *)
Unmistakable(e) ==
  \A f \in stored \ {e} : Wanted(f) => WhenOf[f] # WhenOf[e]

(* A client that has read all pages has seen every event that was there when
   it began, whatever was stored meanwhile, except where times are equal; and
   it sees nothing it did not ask for, as the numbered placeholders of every
   combination of filters meet their arguments. *)
ListingExact ==
  /\ FilterExact
  /\ done => \A e \in begun : (Wanted(e) /\ Unmistakable(e)) => e \in seen

(* The invariant of the proof: an event not seen yet is still ahead. *)
Later(e) == {f \in stored : Wanted(f) /\ WhenOf[f] > WhenOf[e]}

StillAhead ==
  \A e \in begun \ seen :
    (Wanted(e) /\ Unmistakable(e)) => ~done /\ Cardinality(Later(e)) >= offset

ListingInv ==
  /\ TypeOK
  /\ begun \subseteq stored
  /\ FilterExact
  /\ StillAhead
=============================================================================
