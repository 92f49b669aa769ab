------------------------------ MODULE WorkQueue ------------------------------
(***************************************************************************)
(* What queue.Queue, "the abstraction over different backends", promises   *)
(* the code that uses it: messages come out whole, in the order in which   *)
(* they went in, and at most once.  A backend that can lose messages, one  *)
(* behind a network, is Lossy; the others deliver all of them.             *)
(***************************************************************************)
EXTENDS Sequences

CONSTANTS
  Messages,  \* what may be published
  Lossy      \* whether an accepted message may be lost

VARIABLES
  pending,   \* accepted and not handed to the consumer yet
  out        \* handed to the consumer, in this order

Init == pending = <<>> /\ out = <<>>

Accept ==
  /\ \E m \in Messages : pending' = Append(pending, m)
  /\ UNCHANGED out

Deliver ==
  /\ pending # <<>>
  /\ out' = Append(out, Head(pending))
  /\ pending' = Tail(pending)

Lose ==
  /\ Lossy
  /\ pending # <<>>
  /\ pending' = Tail(pending)
  /\ UNCHANGED out

Next == Accept \/ Deliver \/ Lose

Spec == Init /\ [][Next]_<<pending, out>>
=============================================================================
