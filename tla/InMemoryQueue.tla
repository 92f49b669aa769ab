---------------------------- MODULE InMemoryQueue ----------------------------
(***************************************************************************)
(* The channel-backed queue: goroutines that publish, the goroutine that   *)
(* Consume starts, and the loop that ranges over its channel.  A goroutine *)
(* owns one side of a channel each; a send on the unbuffered channel out   *)
(* and its receive are one step.                                           *)
(*                                                                         *)
(* PublishTo and ConsumeFrom name the instances that the two sides use.    *)
(* They are the same when one process holds both sides.  The API and the   *)
(* worker each call NewInMemory for themselves.                            *)
(***************************************************************************)
EXTENDS Integers, Sequences

CONSTANTS
  Publishers,   \* goroutines that call Publish
  Impatient,    \* those whose context may be cancelled
  Instances,    \* the results of NewInMemory
  PublishTo, ConsumeFrom,
  Messages,     \* messages
  None,         \* no message
  Size,         \* capacity of the channel
  MaxPublished  \* bound: calls of Publish

ASSUME QueueConstants ==
  /\ Impatient \subseteq Publishers
  /\ PublishTo \in Instances /\ ConsumeFrom \in Instances
  /\ None \notin Messages
  /\ Size \in Nat \ {0} /\ MaxPublished \in Nat

VARIABLES
  ch,         \* the buffered channel of each instance
  sending,    \* per publisher: the message Publish tries to send, or None
  result,     \* per publisher: what the last Publish returned
  held,       \* message that Consume's goroutine has received, or None
  consumer,   \* Consume's goroutine: "running" or "returned", out closed
  loop,       \* the ranging loop: "ready", "busy" or "stopped"
  out,        \* messages the loop has received
  cancelled,  \* the consumer's context is done
  published   \* calls of Publish so far

vars == <<ch, sending, result, held, consumer, loop, out, cancelled, published>>

TypeOK ==
  /\ ch \in [Instances -> Seq(Messages)]
  /\ \A i \in Instances : Len(ch[i]) <= Size
  /\ sending \in [Publishers -> Messages \cup {None}]
  /\ result \in [Publishers -> {"none", "ok", "error"}]
  /\ held \in Messages \cup {None}
  /\ consumer \in {"running", "returned"}
  /\ loop \in {"ready", "busy", "stopped"}
  /\ out \in Seq(Messages)
  /\ cancelled \in BOOLEAN
  /\ published \in Nat

(* NewInMemory has been called, and Consume. *)
Init ==
  /\ ch = [i \in Instances |-> <<>>]
  /\ sending = [p \in Publishers |-> None]
  /\ result = [p \in Publishers |-> "none"]
  /\ held = None
  /\ consumer = "running"
  /\ loop = "ready"
  /\ out = <<>>
  /\ cancelled = FALSE
  /\ published = 0

Publish(p) ==
  /\ sending[p] = None
  /\ published < MaxPublished
  /\ published' = published + 1
  /\ \E m \in Messages : sending' = [sending EXCEPT ![p] = m]
  /\ UNCHANGED <<ch, result, held, consumer, loop, out, cancelled>>

Return(p, res) ==
  /\ sending' = [sending EXCEPT ![p] = None]
  /\ result' = [result EXCEPT ![p] = res]

(* The first case of Publish's select: there is room. *)
Send(p) ==
  /\ sending[p] # None
  /\ Len(ch[PublishTo]) < Size
  /\ ch' = [ch EXCEPT ![PublishTo] = Append(@, sending[p])]
  /\ Return(p, "ok")
  /\ UNCHANGED <<held, consumer, loop, out, cancelled, published>>

(* The second case: the publisher's context is done. *)
SendCancelled(p) ==
  /\ p \in Impatient
  /\ sending[p] # None
  /\ Return(p, "error")
  /\ UNCHANGED <<ch, held, consumer, loop, out, cancelled, published>>

(* The first case of the select in Consume's goroutine. *)
Receive ==
  /\ consumer = "running" /\ held = None
  /\ ch[ConsumeFrom] # <<>>
  /\ held' = Head(ch[ConsumeFrom])
  /\ ch' = [ch EXCEPT ![ConsumeFrom] = Tail(@)]
  /\ UNCHANGED <<sending, result, consumer, loop, out, cancelled, published>>

(* A mutated form of Forward: the send on out gives up when ctx is done. *)
ForwardOrGiveUp ==
  /\ held # None
  /\ held' = None
  /\ \/ cancelled /\ UNCHANGED <<loop, out>>
     \/ loop = "ready" /\ loop' = "busy" /\ out' = Append(out, held)
  /\ UNCHANGED <<ch, sending, result, consumer, cancelled, published>>

(* out <- msg, which no context interrupts, meets the loop's receive. *)
Forward ==
  /\ held # None
  /\ loop = "ready"
  /\ out' = Append(out, held)
  /\ held' = None
  /\ loop' = "busy"
  /\ UNCHANGED <<ch, sending, result, consumer, cancelled, published>>

(* A mutated form of Handled: an error ends the loop instead of the pass. *)
HandledEnds ==
  /\ loop = "busy"
  /\ loop' \in {"ready", "stopped"}
  /\ UNCHANGED <<ch, sending, result, held, consumer, out, cancelled, published>>

(* A mutated form of Handled: the loop leaves as soon as it sees ctx.Err. *)
HandledLeaves ==
  /\ loop = "busy"
  /\ loop' = IF cancelled THEN "stopped" ELSE "ready"
  /\ UNCHANGED <<ch, sending, result, held, consumer, out, cancelled, published>>

(* The loop is done with a message. *)
Handled ==
  /\ loop = "busy"
  /\ loop' = "ready"
  /\ UNCHANGED <<ch, sending, result, held, consumer, out, cancelled, published>>

Cancel ==
  /\ ~cancelled
  /\ cancelled' = TRUE
  /\ UNCHANGED <<ch, sending, result, held, consumer, loop, out, published>>

(* The second case of the select: the goroutine returns and closes out. *)
ConsumerReturns ==
  /\ consumer = "running" /\ held = None /\ cancelled
  /\ consumer' = "returned"
  /\ UNCHANGED <<ch, sending, result, held, loop, out, cancelled, published>>

(* The range over the closed channel ends. *)
LoopStops ==
  /\ consumer = "returned" /\ loop = "ready"
  /\ loop' = "stopped"
  /\ UNCHANGED <<ch, sending, result, held, consumer, out, cancelled, published>>

Consumer == Receive \/ Forward \/ Handled

Next ==
  \/ \E p \in Publishers : Publish(p) \/ Send(p) \/ SendCancelled(p)
  \/ Consumer \/ Cancel \/ ConsumerReturns \/ LoopStops

Spec == Init /\ [][Next]_vars

(* Runnable goroutines run; of several ready senders Go serves the one that
   has waited longest, so a sender that finds room again and again sends.  A
   select with two ready cases picks at random, so a context that is done ends
   the goroutine in the end. *)
Fairness ==
  /\ WF_vars(Consumer)
  /\ SF_vars(ConsumerReturns)
  /\ WF_vars(LoopStops)
  /\ \A p \in Publishers : SF_vars(Send(p))

FairSpec == Spec /\ Fairness

-----------------------------------------------------------------------------
(* Properties *)

Held == IF held = None THEN <<>> ELSE <<held>>

Abstract == INSTANCE WorkQueue WITH
  pending <- Held \o ch[ConsumeFrom], Lossy <- FALSE

(* One instance used by both sides is a queue that loses nothing: what Publish
   accepted comes out in order and once, also around cancellation. *)
ImplementsQueue == Abstract!Spec

(* A Publish that waits for room returns, unless the consumer is stopped. *)
PublishReturns ==
  \A p \in Publishers : sending[p] # None ~> sending[p] = None \/ cancelled

(* A message that Consume has taken from the channel reaches the loop even
   when the context is cancelled meanwhile, and then the loop stops. *)
ShutdownDelivers ==
  /\ (held # None) ~> (held = None)
  /\ cancelled ~> loop = "stopped"

(* What Publish accepted is handled by the worker's loop, as long as the
   worker is not stopped: memory is one of the two values of QUEUE_BACKEND. *)
AcceptedIsHandled ==
  \A i \in Instances : (ch[i] # <<>>) ~> (ch[i] = <<>> \/ cancelled)
=============================================================================
