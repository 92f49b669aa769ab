----------------------------- MODULE Services ------------------------------
(***************************************************************************)
(* Starting and running the API and the workers while Postgres, Redis and  *)
(* the face service come and go: main of both programs, internal/store     *)
(* and GET /healthz.                                                       *)
(*                                                                         *)
(* A container whose program ends is started again, the policy of          *)
(* docker-compose.prod.yml.  depends_on orders only the first start, so    *)
(* every combination of services may be met.                               *)
(***************************************************************************)
EXTENDS Integers, FiniteSets

CONSTANTS
    Workers,
    MaxFaults,  \* bound on outages and crashes
    None

VARIABLES
    up,         \* the services that can be reached
    api,        \* "down", or the database handle: "handle" or "nil"
    worker,     \* per worker: "down" or "consuming"
    health,     \* the status of the last answer of /healthz
    faults

vars == <<up, api, worker, health, faults>>

Dependencies == {"postgres", "redis", "face"}

---------------------------------------------------------------------------
(* A mutated form of NewDB: no handle when the first ping fails.           *)
NewDBNoHandle ==
    [handle |-> IF "postgres" \in up THEN "handle" ELSE "nil", err |-> "postgres" \notin up]

(* sql.Open makes a handle without connecting; the error is the ping's.    *)
NewDB == [handle |-> "handle", err |-> "postgres" \notin up]

(* Redis.Healthy                                                           *)
RedisHealthy == "redis" \in up

---------------------------------------------------------------------------
Init ==
    /\ up \in SUBSET Dependencies
    /\ api = "down"
    /\ worker = [w \in Workers |-> "down"]
    /\ health = None
    /\ faults = 0

(* runHTTP up to ListenAndServe: an unreachable database is a warning.     *)
ApiStart ==
    /\ api = "down"
    /\ api' = NewDB.handle
    /\ UNCHANGED <<up, worker, health, faults>>

(* The worker's main up to its loop: it ends if the database cannot be     *)
(* reached; what Health returns is only logged.  Consume waits for Redis.  *)
WorkerStart(w) ==
    /\ worker[w] = "down"
    /\ worker' = [worker EXCEPT ![w] = IF NewDB.err THEN "down" ELSE "consuming"]
    /\ UNCHANGED <<up, api, health, faults>>

(* GET /healthz                                                            *)
Healthz ==
    /\ api # "down"
    /\ LET dbHealthy == api # "nil"
       IN  health' = IF RedisHealthy /\ dbHealthy THEN 200 ELSE 503
    /\ UNCHANGED <<up, api, worker, faults>>

Fails(s) ==
    /\ s \in up
    /\ faults < MaxFaults
    /\ faults' = faults + 1
    /\ up' = up \ {s}
    /\ UNCHANGED <<api, worker, health>>

Returns(s) ==
    /\ s \notin up
    /\ up' = up \cup {s}
    /\ UNCHANGED <<api, worker, health, faults>>

Crash ==
    /\ faults < MaxFaults
    /\ faults' = faults + 1
    /\ \/ /\ api # "down"
          /\ api' = "down"
          /\ UNCHANGED worker
       \/ /\ \E w \in Workers : worker[w] # "down" /\ worker' = [worker EXCEPT ![w] = "down"]
          /\ UNCHANGED api
    /\ UNCHANGED <<up, health>>

Next ==
    \/ ApiStart \/ Healthz \/ Crash
    \/ \E w \in Workers : WorkerStart(w)
    \/ \E s \in Dependencies : Fails(s) \/ Returns(s)

Spec == Init /\ [][Next]_vars

---------------------------------------------------------------------------
(* An API that was started during an outage of Postgres needs no restart:  *)
(* once Redis is there for good, /healthz says 200 for good.  Workers that *)
(* could not start, or crashed, consume again once Postgres is there for   *)
(* good, whether or not the face service ever is.                          *)
ServicesReturn ==
    /\ <>[]RedisHealthy => <>[](health = 200)
    /\ <>[]("postgres" \in up) => <>[](\A w \in Workers : worker[w] = "consuming")
===========================================================================
