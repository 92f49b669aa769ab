------------------------------ MODULE RedisQueue ------------------------------
(***************************************************************************)
(* The Redis-backed queue: what a message becomes on its way through the   *)
(* list.  serialize joins type and body with a bar, deserialize cuts at    *)
(* the first one.  A string is a sequence of characters.                   *)
(***************************************************************************)
EXTENDS Integers, Sequences

CONSTANTS
  Chars,      \* characters other than the bar
  Bar,        \* "|"
  Messages,   \* messages published: [type, body], each a string
  None,       \* no message
  MaxQueued,  \* bound: length of the list
  MaxOut,     \* bound: messages delivered
  MaxFaults   \* bound: faults

CodecConstants ==
  /\ Bar \notin Chars
  /\ Messages \subseteq [type : Seq(Chars), body : Seq(Chars \cup {Bar})]
  /\ None \notin [type : Seq(Chars \cup {Bar}), body : Seq(Chars \cup {Bar})]
  /\ MaxQueued \in Nat /\ MaxOut \in Nat /\ MaxFaults \in Nat

String == Seq(Chars \cup {Bar})
Message == [type : String, body : String]

-----------------------------------------------------------------------------
(* Type|Body. *)
serialize(msg) == msg.type \o <<Bar>> \o msg.body

(* A mutated form of deserialize: it cuts at the last bar. *)
deserializeLast(s) ==
  IF \E i \in 1..Len(s) : s[i] = Bar
  THEN LET i == CHOOSE i \in 1..Len(s) :
                  s[i] = Bar /\ \A j \in i+1 .. Len(s) : s[j] # Bar
       IN [type |-> SubSeq(s, 1, i - 1), body |-> SubSeq(s, i + 1, Len(s))]
  ELSE [type |-> <<>>, body |-> s]

(* The part before the first bar and the part after it; without a bar all of
   it is the body. *)
deserialize(s) ==
  IF \E i \in 1..Len(s) : s[i] = Bar
  THEN LET i == CHOOSE i \in 1..Len(s) :
                  s[i] = Bar /\ \A j \in 1 .. i-1 : s[j] # Bar
       IN [type |-> SubSeq(s, 1, i - 1), body |-> SubSeq(s, i + 1, Len(s))]
  ELSE [type |-> <<>>, body |-> s]

-----------------------------------------------------------------------------
VARIABLES
  list,    \* the Redis list, its left end first
  held,    \* what Consume's goroutine has popped and deserialized, or None
  out,     \* messages received from Consume's channel
  faults

vars == <<list, held, out, faults>>

TypeOK ==
  /\ list \in Seq(String)
  /\ held \in Message \cup {None}
  /\ out \in Seq(Message)
  /\ faults \in Nat

Init ==
  /\ list = <<>>
  /\ held = None
  /\ out = <<>>
  /\ faults = 0

(* LPUSH, by any of the publishers; its reply may be lost. *)
Publish ==
  /\ Len(list) < MaxQueued
  /\ \E m \in Messages : list' = <<serialize(m)>> \o list
  /\ UNCHANGED <<held, out, faults>>

Last == list[Len(list)]
Rest == SubSeq(list, 1, Len(list) - 1)

(* BRPOP; deserialize never fails.  Its timeouts and errors change nothing. *)
Pop ==
  /\ held = None
  /\ list # <<>>
  /\ held' = deserialize(Last)
  /\ list' = Rest
  /\ UNCHANGED <<out, faults>>

(* The element is popped and its reply is lost, or the process stops before
   it has handed the message on. *)
Lose ==
  /\ faults < MaxFaults
  /\ faults' = faults + 1
  /\ IF held # None THEN held' = None /\ UNCHANGED list
                    ELSE list # <<>> /\ list' = Rest /\ UNCHANGED held
  /\ UNCHANGED out

(* out <- msg. *)
Forward ==
  /\ held # None
  /\ Len(out) < MaxOut
  /\ out' = Append(out, held)
  /\ held' = None
  /\ UNCHANGED <<list, faults>>

Next == Publish \/ Pop \/ Lose \/ Forward

Spec == Init /\ [][Next]_vars

-----------------------------------------------------------------------------
(* Properties *)

(* The messages in the list, the oldest first. *)
Decoded == [k \in 1..Len(list) |-> deserialize(list[Len(list) + 1 - k])]

Abstract == INSTANCE WorkQueue WITH
  pending <- (IF held = None THEN <<>> ELSE <<held>>) \o Decoded,
  Lossy <- TRUE

(* The Redis list is a queue that may lose a message but never reorders,
   repeats or changes one, whatever bars its body contains. *)
ImplementsQueue == Abstract!Spec
=============================================================================
