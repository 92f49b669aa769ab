-------------------------- MODULE CheckinPipeline --------------------------
(***************************************************************************)
(* A check-in from the HTTP request to the row's final status: the API's   *)
(* request goroutines (src/cmd/api/main.go, internal/attendance), the      *)
(* Redis list between the processes (internal/queue) and the worker        *)
(* processes (src/cmd/worker/main.go), over one Postgres table.            *)
(*                                                                         *)
(* Every call that leaves a process is a step of its own.  A call that can *)
(* return an error has a second action, named ...Fails, for what the code  *)
(* does with the error; MaxFaults bounds how many of those, of crashes and *)
(* of shutdown signals a behaviour contains.                               *)
(***************************************************************************)
EXTENDS Attendance, Sequences

CONSTANTS
    Handlers,     \* request goroutines that may run at the same time
    Workers,      \* worker processes (docker-compose.prod.yml runs two)
    MaxRequests,  \* bound: requests accepted by the API
    MaxTime,      \* bound: ticks of the clock
    MaxFaults     \* bound: errors, crashes, signals and evictions

ASSUME PipelineConstants ==
    /\ IsFiniteSet(Handlers)
    /\ IsFiniteSet(Workers)
    /\ MaxRequests \in Nat
    /\ MaxTime \in Nat
    /\ MaxFaults \in Nat

VARIABLES
    devices,   \* table devices
    tokens,    \* devices that hold an access token signed by the API
    events,    \* table attendance_events: id -> row or None
    queue,     \* Redis list attendance:checkins; pushed at the end, popped at the head
    api,       \* the API process: "up", "draining" (srv.Shutdown) or "down"
    hpc,       \* handler -> next call it makes
    req,       \* handler -> its bound request
    evt,       \* handler -> the event CheckIn returned
    view,      \* handler -> when RecentEvent ran, and the rows stored at that moment
    proc,      \* worker -> "up", "stopping" (ctx cancelled) or "down"
    held,      \* worker -> message its Consume goroutine popped and blocks on
    wpc,       \* worker -> next call of its loop
    cur,       \* worker -> event its loop is processing
    score,     \* worker -> score of EmbedWithScore, None after an error
    seen,      \* history: event -> the rows stored when its handler ran RecentEvent
    by,        \* history: event -> the handler that inserted it
    now,       \* the database's clock
    reqs,      \* requests accepted so far
    faults     \* faults so far

history     == <<seen, by>>
dbVars      == <<devices, events, history>>
handlerVars == <<hpc, req, evt, view>>
apiVars     == <<api, tokens, reqs, handlerVars>>
workerVars  == <<proc, held, wpc, cur, score>>
vars == <<dbVars, apiVars, queue, workerVars, now, faults>>

HandlerPC == {"idle", "upsert", "issue", "recent", "insert", "publish"}
WorkerPC  == {"idle", "get", "embed", "update"}
Request   == [user : Users \cup {None}, device : Devices]
View      == [at : Nat, rows : SUBSET EventIds]

(* One type invariant: every variable holds what its Go type, column or    *)
(* wire format admits.                                                     *)
TypeOK ==
    /\ devices \in SUBSET Devices
    /\ tokens \in SUBSET Devices
    /\ events \in [EventIds -> Row \cup {None}]
    /\ queue \in Seq(EventIds)
    /\ api \in {"up", "draining", "down"}
    /\ hpc \in [Handlers -> HandlerPC]
    /\ req \in [Handlers -> Request \cup {None}]
    /\ evt \in [Handlers -> EventIds \cup {None}]
    /\ view \in [Handlers -> View \cup {None}]
    /\ proc \in [Workers -> {"up", "stopping", "down"}]
    /\ held \in [Workers -> EventIds \cup {None}]
    /\ wpc \in [Workers -> WorkerPC]
    /\ cur \in [Workers -> EventIds \cup {None}]
    /\ score \in [Workers -> Scores \cup {None}]
    /\ seen \in [EventIds -> SUBSET EventIds]
    /\ by \in [EventIds -> Handlers \cup {None}]
    /\ now \in Nat
    /\ reqs \in Nat
    /\ faults \in Nat

Init ==
    /\ devices = {}
    /\ tokens = {}
    /\ events = [e \in EventIds |-> None]
    /\ queue = <<>>
    /\ api = "up"
    /\ hpc = [h \in Handlers |-> "idle"]
    /\ req = [h \in Handlers |-> None]
    /\ evt = [h \in Handlers |-> None]
    /\ view = [h \in Handlers |-> None]
    /\ proc = [w \in Workers |-> "up"]
    /\ held = [w \in Workers |-> None]
    /\ wpc = [w \in Workers |-> "idle"]
    /\ cur = [w \in Workers |-> None]
    /\ score = [w \in Workers |-> None]
    /\ seen = [e \in EventIds |-> {}]
    /\ by = [e \in EventIds |-> None]
    /\ now = 0
    /\ reqs = 0
    /\ faults = 0

Fault == faults < MaxFaults /\ faults' = faults + 1

---------------------------------------------------------------------------
(* The API: helpers for a request goroutine.                               *)

(* The server accepts a request into a free goroutine.                     *)
Accept(h, r, pc) ==
    /\ api = "up"
    /\ hpc[h] = "idle"
    /\ reqs < MaxRequests
    /\ reqs' = reqs + 1
    /\ hpc' = [hpc EXCEPT ![h] = pc]
    /\ req' = [req EXCEPT ![h] = r]
    /\ UNCHANGED <<evt, view, api>>

(* The handler writes its response and returns.                            *)
Respond(h) ==
    /\ hpc' = [hpc EXCEPT ![h] = "idle"]
    /\ req' = [req EXCEPT ![h] = None]
    /\ evt' = [evt EXCEPT ![h] = None]
    /\ view' = [view EXCEPT ![h] = None]
    /\ UNCHANGED <<api, reqs>>

---------------------------------------------------------------------------
(* POST /v1/devices/register                                               *)

RegisterRequest(h, d) ==
    /\ Accept(h, [user |-> None, device |-> d], "upsert")
    /\ UNCHANGED <<dbVars, tokens, queue, workerVars, now, faults>>

UpsertDevice(h) ==
    /\ hpc[h] = "upsert"
    /\ devices' = devices \cup {req[h].device}
    /\ hpc' = [hpc EXCEPT ![h] = "issue"]
    /\ UNCHANGED <<events, history, api, tokens, reqs, req, evt, view, queue,
                   workerVars, now, faults>>

(* auth.Issue and the 201.  SaveRefreshToken's error is ignored, so its    *)
(* outcome changes nothing here.                                           *)
IssueToken(h) ==
    /\ hpc[h] = "issue"
    /\ tokens' = tokens \cup {req[h].device}
    /\ Respond(h)
    /\ UNCHANGED <<dbVars, queue, workerVars, now, faults>>

---------------------------------------------------------------------------
(* POST /v1/checkins                                                       *)

Authorized(t, d) == t \in tokens /\ t = d

(* DeviceAuth accepts the bearer token of device t and the handler accepts *)
(* a body for device d; other requests get 400, 401 or 403 and change      *)
(* nothing.                                                                *)
CheckinRequest(h, t, u, d) ==
    /\ Authorized(t, d)
    /\ Accept(h, [user |-> u, device |-> d], "recent")
    /\ UNCHANGED <<dbVars, tokens, queue, workerVars, now, faults>>

(* A mutated form of Recent: the query forgets device_id = $2.             *)
RecentAnyDevice(h) ==
    UNION {InWindow(events, req[h].user, d, now) : d \in Devices}

(* What the query of RecentEvent selects for handler h.                    *)
Recent(h) == InWindow(events, req[h].user, req[h].device, now)

(* A mutated form of RecentEventFound: a repeated check-in is answered at  *)
(* once, without a message.                                                *)
RecentEventFoundNoPublish(h) ==
    /\ hpc[h] = "recent"
    /\ Recent(h) # {}
    /\ Respond(h)
    /\ UNCHANGED <<dbVars, tokens, queue, workerVars, now, faults>>

(* RecentEvent returns a row: CheckIn returns it as it is.                 *)
RecentEventFound(h) ==
    /\ hpc[h] = "recent"
    /\ \E e \in Latest(events, Recent(h)) : evt' = [evt EXCEPT ![h] = e]
    /\ hpc' = [hpc EXCEPT ![h] = "publish"]
    /\ UNCHANGED <<dbVars, api, tokens, reqs, req, view, queue, workerVars,
                   now, faults>>

(* RecentEvent returns nil: CheckIn goes on to InsertEvent.                *)
RecentEventNone(h) ==
    /\ hpc[h] = "recent"
    /\ Recent(h) = {}
    /\ hpc' = [hpc EXCEPT ![h] = "insert"]
    /\ view' = [view EXCEPT ![h] = [at |-> now, rows |-> Stored(events)]]
    /\ UNCHANGED <<dbVars, api, tokens, reqs, req, evt, queue, workerVars,
                   now, faults>>

(* A mutated form of StoreNewEvent: the transaction is never committed.    *)
StoreNewEventNoCommit(h, e) == events[e] = None /\ UNCHANGED dbVars

(* The INSERT commits a row with a fresh id; occurred_at was read on the   *)
(* API host's clock between RecentEvent and this moment.  The foreign key  *)
(* admits registered devices only.                                         *)
StoreNewEvent(h, e) ==
    /\ events[e] = None
    /\ req[h].device \in devices
    /\ \E t \in view[h].at .. now :
          events' = [events EXCEPT
                       ![e] = NewRow(req[h].user, req[h].device, t + Skew)]
    /\ seen' = [seen EXCEPT ![e] = view[h].rows]
    /\ by' = [by EXCEPT ![e] = h]
    /\ UNCHANGED devices

InsertEvent(h) ==
    /\ hpc[h] = "insert"
    /\ \E e \in EventIds :
          /\ StoreNewEvent(h, e)
          /\ evt' = [evt EXCEPT ![h] = e]
    /\ hpc' = [hpc EXCEPT ![h] = "publish"]
    /\ UNCHANGED <<api, tokens, reqs, req, view, queue, workerVars, now, faults>>

(* LPUSH and the 202.                                                      *)
Publish(h) ==
    /\ hpc[h] = "publish"
    /\ queue' = Append(queue, evt[h])
    /\ Respond(h)
    /\ UNCHANGED <<dbVars, tokens, workerVars, now, faults>>

(* A statement fails and has changed nothing: 400.                         *)
StatementFails(h) ==
    /\ hpc[h] \in {"upsert", "recent", "insert"}
    /\ Fault
    /\ Respond(h)
    /\ UNCHANGED <<dbVars, tokens, queue, workerVars, now>>

(* A statement commits but its reply is lost (the connection broke, or the *)
(* client left and cancelled the request's context): 400 all the same.     *)
StatementReplyLost(h) ==
    /\ \/ /\ hpc[h] = "upsert"
          /\ devices' = devices \cup {req[h].device}
          /\ UNCHANGED <<events, history>>
       \/ /\ hpc[h] = "insert"
          /\ \E e \in EventIds : StoreNewEvent(h, e)
    /\ Fault
    /\ Respond(h)
    /\ UNCHANGED <<tokens, queue, workerVars, now>>

(* The error is only logged and the answer is 202 all the same.  The redis *)
(* client resends a command whose reply it lost, so a message may also be  *)
(* pushed twice.                                                           *)
PublishFails(h) ==
    /\ hpc[h] = "publish"
    /\ Fault
    /\ queue' \in {queue, queue \o <<evt[h], evt[h]>>}
    /\ Respond(h)
    /\ UNCHANGED <<dbVars, tokens, workerVars, now>>

---------------------------------------------------------------------------
(* The API process                                                         *)

(* SIGINT or SIGTERM: srv.Shutdown accepts no new request.                 *)
ApiSignal ==
    /\ api = "up"
    /\ Fault
    /\ api' = "draining"
    /\ UNCHANGED <<dbVars, tokens, reqs, handlerVars, queue, workerVars, now>>

(* All requests have completed: the process exits.                         *)
ApiExit ==
    /\ api = "draining"
    /\ \A h \in Handlers : hpc[h] = "idle"
    /\ api' = "down"
    /\ UNCHANGED <<dbVars, tokens, reqs, handlerVars, queue, workerVars, now, faults>>

(* The process dies, or Shutdown's ten seconds are over: the requests in   *)
(* progress are gone wherever they were.                                   *)
ApiCrash ==
    /\ api # "down"
    /\ Fault
    /\ api' = "down"
    /\ hpc' = [h \in Handlers |-> "idle"]
    /\ req' = [h \in Handlers |-> None]
    /\ evt' = [h \in Handlers |-> None]
    /\ view' = [h \in Handlers |-> None]
    /\ UNCHANGED <<dbVars, tokens, reqs, queue, workerVars, now>>

(* restart: unless-stopped                                                 *)
ApiStart ==
    /\ api = "down"
    /\ api' = "up"
    /\ UNCHANGED <<dbVars, tokens, reqs, handlerVars, queue, workerVars, now, faults>>

---------------------------------------------------------------------------
(* The worker: the Consume goroutine and the loop over its channel         *)

(* A mutated form of BRPop: the message is read and not removed.           *)
BRPopPeek(q) == q

(* What BRPOP leaves of the list.                                          *)
BRPop(q) == Tail(q)

(* A mutated form of Pop: the goroutine drops a message the loop is not    *)
(* ready for.                                                              *)
PopNonBlocking(w) ==
    /\ proc[w] = "up"
    /\ held[w] = None
    /\ queue # <<>>
    /\ held' = [held EXCEPT ![w] = IF wpc[w] = "idle" THEN Head(queue) ELSE None]
    /\ queue' = BRPop(queue)
    /\ UNCHANGED <<dbVars, apiVars, proc, wpc, cur, score, now, faults>>

(* BRPOP returns a message; the goroutine now blocks on out <- msg.        *)
Pop(w) ==
    /\ proc[w] = "up"
    /\ held[w] = None
    /\ queue # <<>>
    /\ held' = [held EXCEPT ![w] = Head(queue)]
    /\ queue' = BRPop(queue)
    /\ UNCHANGED <<dbVars, apiVars, proc, wpc, cur, score, now, faults>>

(* BRPOP removed a message and its reply was lost: Consume continues.      *)
PopFails(w) ==
    /\ proc[w] = "up"
    /\ held[w] = None
    /\ queue # <<>>
    /\ Fault
    /\ queue' = BRPop(queue)
    /\ UNCHANGED <<dbVars, apiVars, workerVars, now>>

(* The loop receives the message (all messages are of type "checkin").     *)
Receive(w) ==
    /\ proc[w] # "down"
    /\ wpc[w] = "idle"
    /\ held[w] # None
    /\ cur' = [cur EXCEPT ![w] = held[w]]
    /\ held' = [held EXCEPT ![w] = None]
    /\ wpc' = [wpc EXCEPT ![w] = "get"]
    /\ UNCHANGED <<dbVars, apiVars, queue, proc, score, now, faults>>

(* The loop is done with its message, whatever became of it.               *)
Continue(w) ==
    /\ wpc' = [wpc EXCEPT ![w] = "idle"]
    /\ cur' = [cur EXCEPT ![w] = None]
    /\ score' = [score EXCEPT ![w] = None]
    /\ UNCHANGED <<proc, held>>

GetEvent(w) ==
    /\ proc[w] = "up"
    /\ wpc[w] = "get"
    /\ events[cur[w]] # None
    /\ wpc' = [wpc EXCEPT ![w] = "embed"]
    /\ UNCHANGED <<dbVars, apiVars, queue, proc, held, cur, score, now, faults>>

(* The face service answers with a score, or the call fails.               *)
EmbedWithScore(w) ==
    /\ proc[w] = "up"
    /\ wpc[w] = "embed"
    /\ \E s \in Scores \cup {None} : score' = [score EXCEPT ![w] = s]
    /\ wpc' = [wpc EXCEPT ![w] = "update"]
    /\ UNCHANGED <<dbVars, apiVars, queue, proc, held, cur, now, faults>>

(* A mutated form of Outcome: the error path does not continue.            *)
OutcomeFallsThrough(s) == "processed"

Outcome(s) == IF s = None THEN "failed" ELSE "processed"

(* "processed" with the score, or "failed" with a NULL score.              *)
UpdateEventStatus(w) ==
    /\ proc[w] = "up"
    /\ wpc[w] = "update"
    /\ events' = [events EXCEPT ![cur[w]] = UpdatedRow(@, Outcome(score[w]), score[w])]
    /\ Continue(w)
    /\ UNCHANGED <<devices, history, apiVars, queue, now, faults>>

(* GetEvent's error is logged, UpdateEventStatus's is discarded: the       *)
(* message is gone and the row keeps its status.                           *)
WorkerCallFails(w) ==
    /\ proc[w] = "up"
    /\ wpc[w] \in {"get", "update"}
    /\ Fault
    /\ Continue(w)
    /\ UNCHANGED <<dbVars, apiVars, queue, now>>

---------------------------------------------------------------------------
(* The worker process                                                      *)

(* SIGINT or SIGTERM: cancel().                                            *)
WorkerSignal(w) ==
    /\ proc[w] = "up"
    /\ Fault
    /\ proc' = [proc EXCEPT ![w] = "stopping"]
    /\ UNCHANGED <<dbVars, apiVars, queue, held, wpc, cur, score, now>>

(* With ctx cancelled GetEvent, EmbedWithScore and UpdateEventStatus all   *)
(* return at once with an error: the message is dropped.                   *)
Abandon(w) ==
    /\ proc[w] = "stopping"
    /\ wpc[w] # "idle"
    /\ Continue(w)
    /\ UNCHANGED <<dbVars, apiVars, queue, now, faults>>

(* The goroutine returns and closes its channel, the loop ends.            *)
WorkerExit(w) ==
    /\ proc[w] = "stopping"
    /\ wpc[w] = "idle"
    /\ held[w] = None
    /\ proc' = [proc EXCEPT ![w] = "down"]
    /\ UNCHANGED <<dbVars, apiVars, queue, held, wpc, cur, score, now, faults>>

WorkerCrash(w) ==
    /\ proc[w] # "down"
    /\ Fault
    /\ proc' = [proc EXCEPT ![w] = "down"]
    /\ held' = [held EXCEPT ![w] = None]
    /\ wpc' = [wpc EXCEPT ![w] = "idle"]
    /\ cur' = [cur EXCEPT ![w] = None]
    /\ score' = [score EXCEPT ![w] = None]
    /\ UNCHANGED <<dbVars, apiVars, queue, now>>

(* restart: unless-stopped                                                 *)
WorkerStart(w) ==
    /\ proc[w] = "down"
    /\ proc' = [proc EXCEPT ![w] = "up"]
    /\ UNCHANGED <<dbVars, apiVars, queue, held, wpc, cur, score, now, faults>>

---------------------------------------------------------------------------
(* The environment                                                         *)

(* Redis evicts the list (allkeys-lru), or loses it in a crash.            *)
Evict ==
    /\ queue # <<>>
    /\ Fault
    /\ queue' = <<>>
    /\ UNCHANGED <<dbVars, apiVars, workerVars, now>>

Tick ==
    /\ now < MaxTime
    /\ now' = now + 1
    /\ UNCHANGED <<dbVars, apiVars, queue, workerVars, faults>>

---------------------------------------------------------------------------
(* The steps a process takes when nothing fails.                           *)
HandlerStep(h) ==
    \/ UpsertDevice(h)
    \/ IssueToken(h)
    \/ RecentEventFound(h)
    \/ RecentEventNone(h)
    \/ InsertEvent(h)
    \/ Publish(h)

LoopStep(w) ==
    \/ Receive(w)
    \/ GetEvent(w)
    \/ EmbedWithScore(w)
    \/ UpdateEventStatus(w)
    \/ Abandon(w)

HandlerFault(h) ==
    \/ StatementFails(h)
    \/ StatementReplyLost(h)
    \/ PublishFails(h)

WorkerFault(w) ==
    \/ PopFails(w)
    \/ WorkerCallFails(w)
    \/ WorkerSignal(w)
    \/ WorkerCrash(w)

Next ==
    \/ \E h \in Handlers, d \in Devices : RegisterRequest(h, d)
    \/ \E h \in Handlers, t \in Devices, u \in Users, d \in Devices :
          CheckinRequest(h, t, u, d)
    \/ \E h \in Handlers : HandlerStep(h) \/ HandlerFault(h)
    \/ ApiSignal \/ ApiExit \/ ApiCrash \/ ApiStart
    \/ \E w \in Workers :
          Pop(w) \/ LoopStep(w) \/ WorkerExit(w) \/ WorkerStart(w) \/ WorkerFault(w)
    \/ Evict
    \/ Tick

Spec == Init /\ [][Next]_vars

(* The Go scheduler runs every goroutine that can run, every call out of a *)
(* process returns (the drivers and the face client have timeouts), and    *)
(* the container runtime restarts a process that has exited.  Clients,     *)
(* faults and the clock are not fair.                                      *)
Fairness ==
    /\ \A h \in Handlers : WF_vars(HandlerStep(h))
    /\ \A w \in Workers :
          /\ WF_vars(Pop(w))
          /\ WF_vars(LoopStep(w))
          /\ WF_vars(WorkerExit(w))
          /\ WF_vars(WorkerStart(w))
    /\ WF_vars(ApiExit)
    /\ WF_vars(ApiStart)

FairSpec == Spec /\ Fairness

---------------------------------------------------------------------------
(* Safety                                                                  *)

InQueue == {queue[i] : i \in 1 .. Len(queue)}

(* Every message, in the Redis list or in a worker, and every event a      *)
(* handler is about to publish, names a stored row: the worker's GetEvent  *)
(* never meets sql.ErrNoRows, because CheckIn commits before Publish.      *)
MessagesNameEvents ==
    /\ InQueue \subseteq Stored(events)
    /\ \A w \in Workers : {held[w], cur[w]} \subseteq Stored(events) \cup {None}
    /\ \A h \in Handlers : evt[h] \in Stored(events) \cup {None}

(* A token is only issued for a device that is saved, and a check-in is    *)
(* only accepted for the token's device: InsertEvent's foreign key never   *)
(* rejects a check-in, and every event belongs to a registered device.     *)
DevicesRegistered ==
    /\ tokens \subseteq devices
    /\ \A h \in Handlers :
          hpc[h] \in {"issue", "recent", "insert", "publish"} => req[h].device \in devices
    /\ \A e \in Stored(events) : events[e].device \in devices

(* The event_id that the 202 carries, new or deduplicated, is an event of  *)
(* the user and the device of the request.                                 *)
AnswerMatchesRequest ==
    \A h \in Handlers : hpc[h] = "publish" =>
        /\ evt[h] \in Stored(events)
        /\ events[evt[h]].user = req[h].user
        /\ events[evt[h]].device = req[h].device

SameSubject(e, f) ==
    /\ events[e].user = events[f].user
    /\ events[e].device = events[f].device

(* Deduplication between requests that do not overlap: an event whose      *)
(* handler could see an earlier event of the same user and device lies     *)
(* more than the window after it.  A skewed API clock shifts the distance. *)
DedupSequential ==
    \A f \in Stored(events) : \A e \in seen[f] :
        SameSubject(e, f) => events[f].when > events[e].when + Window + Skew

(* The damage of overlapping requests is bounded: no more events of one    *)
(* user and device fall into one window than requests can be in progress.  *)
DedupBound ==
    \A S \in SUBSET Stored(events) :
        (\A e, f \in S : /\ SameSubject(e, f)
                         /\ events[f].when <= events[e].when + Window + Skew)
        => Cardinality(S) <= Cardinality(Handlers)

(* A row that says "processed" carries a match score, even though a later  *)
(* message for the same event may fail and write a NULL score.             *)
ProcessedHasScore ==
    \A e \in Stored(events) : events[e].status = "processed" => events[e].score # None

(* Copies of the message for e that some process may still act on.         *)
Copies(e) ==
    Cardinality({i \in 1 .. Len(queue) : queue[i] = e})
    + Cardinality({w \in Workers : held[w] = e})
    + Cardinality({w \in Workers : cur[w] = e})

Settled(e) == e \in Stored(events) /\ events[e].status # "pending"

(* A message for e is on its way and nothing that carries it is stopping.  *)
OnItsWay(e) ==
    \/ e \in InQueue
    \/ \E h \in Handlers : hpc[h] = "publish" /\ evt[h] = e
    \/ \E w \in Workers : proc[w] = "up" /\ e \in {held[w], cur[w]}

(* BRPOP hands a message to one worker and no worker puts it back: copies  *)
(* appear only where a handler publishes, and every write of a status uses *)
(* one up.  Until then only a fault loses them: a step without one leaves  *)
(* an event's message on its way or settles the event.                     *)
DeliveryAccounted ==
    [][\A e \in EventIds :
          /\ Copies(e)' > Copies(e) =>
                \E h \in Handlers : hpc[h] = "publish" /\ evt[h] = e /\ hpc'[h] = "idle"
          /\ (e \in Stored(events) /\ events'[e] # events[e]) =>
                Copies(e)' = Copies(e) - 1
          /\ (OnItsWay(e) /\ faults' = faults) => (OnItsWay(e)' \/ Settled(e)')]_vars

Lifecycle == INSTANCE EventLifecycle WITH table <- events

(* The pipeline implements the life cycle of EventLifecycle.               *)
ImplementsLifecycle == Lifecycle!Spec

(* What a request or a message carries at each point of its handling, and  *)
(* what a handler that is about to insert knows: every row of its user and *)
(* device that was stored when it looked is older than the window.         *)
HandlerShape ==
    \A h \in Handlers :
        /\ hpc[h] # "idle" => req[h] \in Request
        /\ hpc[h] \in {"recent", "insert", "publish"} => req[h].user \in Users
        /\ hpc[h] = "insert" => view[h] \in View /\ view[h].at <= now

WorkerShape == \A w \in Workers : wpc[w] = "idle" <=> cur[w] = None

LookedBeforeInserting ==
    \A h \in Handlers : hpc[h] = "insert" =>
        /\ view[h].rows \subseteq Stored(events)
        /\ \A e \in view[h].rows :
              (events[e].user = req[h].user /\ events[e].device = req[h].device)
              => events[e].when + Window < view[h].at

SeenStored == \A f \in EventIds : seen[f] \subseteq Stored(events)

(* A goroutine serves one request at a time, so of two events from the     *)
(* same one the later request saw the earlier event.                       *)
OwnEventsSeen ==
    /\ \A e \in Stored(events) : by[e] \in Handlers
    /\ \A e, f \in Stored(events) :
          (e # f /\ by[e] = by[f]) => (e \in seen[f] \/ f \in seen[e])
    /\ \A h \in Handlers : hpc[h] = "insert" =>
          \A e \in Stored(events) : by[e] = h => e \in view[h].rows

(* As long as nothing has failed, a row is only pending while the message  *)
(* that will settle it is on its way: InsertEvent leads to Publish, and    *)
(* from there on the message is always somewhere.                          *)
PendingOnItsWay ==
    faults = 0 => \A e \in Stored(events) : Settled(e) \/ OnItsWay(e)

(* The inductive invariant of the pipeline: the safety properties and the  *)
(* facts about work in progress that they rest on.                         *)
PipelineInv ==
    /\ TypeOK
    /\ HandlerShape
    /\ WorkerShape
    /\ MessagesNameEvents
    /\ DevicesRegistered
    /\ AnswerMatchesRequest
    /\ LookedBeforeInserting
    /\ SeenStored
    /\ OwnEventsSeen
    /\ DedupSequential
    /\ ProcessedHasScore
    /\ PendingOnItsWay

(* What CheckIn's comment promises: no second event of a user on a device  *)
(* within the window.                                                      *)
NoDuplicateInWindow ==
    \A e, f \in Stored(events) :
        (e # f /\ SameSubject(e, f)) => (events[f].when > events[e].when + Window
                                         \/ events[e].when > events[f].when + Window)

---------------------------------------------------------------------------
(* Liveness                                                                *)

(* Without faults every stored event leaves "pending".                     *)
EveryEventSettles ==
    \A e \in EventIds : e \in Stored(events) ~> Settled(e)

(* Once faults cease, every event with a message on its way settles:       *)
(* whatever the workers and the API were doing, no message they still hold *)
(* is lost.                                                                *)
DeliveryAfterFaults ==
    \A e \in EventIds : (faults = MaxFaults /\ OnItsWay(e)) ~> Settled(e)

(* Once faults cease, a check-in that CheckIn starts to serve leads to a   *)
(* settled event of its user and device, also when an earlier event of     *)
(* theirs is stuck in the window because its message was lost.             *)
CheckinSettlesAfterFaults ==
    \A h \in Handlers, u \in Users, d \in Devices, t \in 0 .. MaxTime :
        (/\ faults = MaxFaults
         /\ hpc[h] = "recent"
         /\ req[h] = [user |-> u, device |-> d]
         /\ now = t)
        ~> \E e \in EventIds :
              /\ Settled(e)
              /\ events[e].user = u
              /\ events[e].device = d
              /\ events[e].when >= t - Window + (IF Skew < 0 THEN Skew ELSE 0)
===========================================================================
