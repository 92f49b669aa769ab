---------------------------- MODULE QueueBackends ----------------------------
(***************************************************************************)
(* QUEUE_BACKEND: the API and the worker use InMemoryQueue or RedisQueue,  *)
(* whichever the variable names when they start.  The two share no state;  *)
(* in a behaviour the one that was chosen moves and the other rests.       *)
(***************************************************************************)
EXTENDS InMemoryQueue

CONSTANTS
  Chars, Bar, Texts,             \* characters and messages of RedisQueue
  MaxQueued, MaxOut, MaxFaults   \* its bounds

VARIABLES
  backend,                       \* cfg.QueueBackend
  list, popped, received, faults \* the variables of RedisQueue

Redis == INSTANCE RedisQueue WITH
  Messages <- Texts, held <- popped, out <- received

ASSUME TextsAssumption == Redis!CodecConstants

redisVars == <<list, popped, received, faults>>

BackendInit ==
  /\ backend \in {"memory", "redis"}
  /\ Init
  /\ Redis!Init

BackendNext ==
  \/ backend = "memory" /\ Next /\ UNCHANGED <<backend, redisVars>>
  \/ backend = "redis" /\ Redis!Next /\ UNCHANGED <<backend, vars>>

BackendSpec ==
  BackendInit /\ [][BackendNext]_<<backend, vars, redisVars>> /\ Fairness

-----------------------------------------------------------------------------
(* Properties *)

(* The Redis list is a queue that may lose a message but never reorders,
   repeats or changes one, whatever bars its body contains: ImplementsQueue
   of RedisQueue. *)
RedisImplementsQueue == Redis!ImplementsQueue
=============================================================================
