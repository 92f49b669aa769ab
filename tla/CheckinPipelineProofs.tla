---------------------- MODULE CheckinPipelineProofs -----------------------
(***************************************************************************)
(* Proofs about CheckinPipeline for every value of its constants.          *)
(***************************************************************************)
EXTENDS CheckinPipeline, TLAPS

(* Unless it names its prover, a leaf is tried with SMT, with Zenon, and   *)
(* with SMT again for longer.                                              *)
USE SMTT(30), ZenonT(30), SMTT(60)

-----------------------------------------------------------------------------
(* Arithmetic                                                              *)

(* What is at most a is not more than a.                                   *)
LEMMA NotMore ==
    ASSUME NEW a \in Nat, NEW b \in Nat, b <= a
    PROVE  ~ (b > a)
  OBVIOUS

(* The sum of three numbers is a number.                                   *)
LEMMA SumOfThree ==
    \A a, b, c \in Nat : a + b + c \in Nat /\ a + b + c <= a + b + c
  OBVIOUS

(* What UpdateEventStatus's UPDATE does to a row: the identity stays, the  *)
(* status is overwritten, the score is coalesced.                          *)
LEMMA UpdatedRowFields ==
    ASSUME NEW row \in Row, NEW st \in Status, NEW sc \in Scores \cup {None}
    PROVE  /\ UpdatedRow(row, st, sc) \in Row
           /\ UpdatedRow(row, st, sc).user = row.user
           /\ UpdatedRow(row, st, sc).device = row.device
           /\ UpdatedRow(row, st, sc).when = row.when
           /\ UpdatedRow(row, st, sc).status = st
           /\ UpdatedRow(row, st, sc).score = IF sc = None THEN row.score ELSE sc
  BY Zenon DEF UpdatedRow, Row

(* The row UpdateEventStatus writes for worker w.                          *)
LEMMA UpdatedRowOfWorker ==
    ASSUME PipelineInv, NEW w \in Workers, UpdateEventStatus(w)
    PROVE  \E row \in Row :
              /\ cur[w] \in Stored(events)
              /\ events[cur[w]] \in Row
              /\ events' = [events EXCEPT ![cur[w]] = row]
              /\ row.user = events[cur[w]].user
              /\ row.device = events[cur[w]].device
              /\ row.when = events[cur[w]].when
              /\ \/ row.status = "processed" /\ row.score \in Scores
                 \/ row.status = "failed" /\ row.score = events[cur[w]].score
<1>. DEFINE st == Outcome(score[w])
            row == UpdatedRow(events[cur[w]], st, score[w])
<1>1. cur[w] \in Stored(events) /\ events[cur[w]] \in Row
  BY DEF PipelineInv, TypeOK, WorkerShape, MessagesNameEvents, UpdateEventStatus, Stored
<1>2. st \in Status /\ score[w] \in Scores \cup {None}
  BY DEF PipelineInv, TypeOK, Status, Outcome
<1>3. events' = [events EXCEPT ![cur[w]] = row]
  BY DEF UpdateEventStatus
<1>4. /\ row \in Row
      /\ row.user = events[cur[w]].user
      /\ row.device = events[cur[w]].device
      /\ row.when = events[cur[w]].when
      /\ row.status = st
      /\ row.score = IF score[w] = None THEN events[cur[w]].score ELSE score[w]
  BY <1>1, <1>2, UpdatedRowFields
<1>. HIDE DEF row
<1>5. \/ row.status = "processed" /\ row.score \in Scores
      \/ row.status = "failed" /\ row.score = events[cur[w]].score
  BY <1>2, <1>4 DEF Outcome
<1>. QED
  BY <1>1, <1>3, <1>4, <1>5, Zenon

(* It writes over a row there is: no row comes or goes, and what the       *)
(* inserting handlers saw is left alone.                                   *)
LEMMA UpdateKeepsStored ==
    ASSUME PipelineInv, NEW w \in Workers, UpdateEventStatus(w)
    PROVE  seen' = seen /\ by' = by /\ Stored(events') = Stored(events)
<1>1. PICK row \in Row : /\ cur[w] \in Stored(events)
                         /\ events' = [events EXCEPT ![cur[w]] = row]
  BY UpdatedRowOfWorker, Zenon
<1>2. row # None
  BY NoneIsNoRow
<1>3. events \in [EventIds -> Row \cup {None}]
  BY DEF PipelineInv, TypeOK
<1>4. ASSUME NEW e \in EventIds
      PROVE  (events'[e] # None) <=> (events[e] # None)
  <2>1. CASE e = cur[w]
    BY <1>1, <1>2, <1>3, <2>1 DEF Stored
  <2>2. CASE e # cur[w]
    BY <1>1, <1>3, <2>2
  <2>. QED
    BY <2>1, <2>2
<1>5. Stored(events') = Stored(events)
  BY <1>4, Zenon DEF Stored
<1>6. seen' = seen /\ by' = by
  BY DEF UpdateEventStatus, history
<1>. QED
  BY <1>5, <1>6

(* The row an INSERT commits for handler h.                                *)
LEMMA InsertedRow ==
    ASSUME PipelineInv, NEW h \in Handlers, NEW e \in EventIds,
           hpc[h] = "insert", StoreNewEvent(h, e)
    PROVE  \E row \in Row :
              /\ events[e] = None
              /\ events' = [events EXCEPT ![e] = row]
              /\ row.user = req[h].user
              /\ row.device = req[h].device
              /\ row.when >= view[h].at + Skew
              /\ row.status = "pending"
              /\ row.score = None
<1>1. /\ req[h] \in Request /\ req[h].user \in Users
      /\ view[h] \in View
      /\ now \in Nat
  BY DEF PipelineInv, TypeOK, HandlerShape
<1>2. PICK t \in view[h].at .. now :
        events' = [events EXCEPT ![e] = NewRow(req[h].user, req[h].device, t + Skew)]
  BY Zenon DEF StoreNewEvent
<1>. DEFINE row == NewRow(req[h].user, req[h].device, t + Skew)
<1>3. t \in Nat /\ t >= view[h].at /\ view[h].at \in Nat
  BY <1>1 DEF View
<1>4. /\ row \in Row
      /\ row.user = req[h].user
      /\ row.device = req[h].device
      /\ row.when >= view[h].at + Skew
      /\ row.status = "pending"
      /\ row.score = None
  BY <1>1, <1>3, AttendanceConstants DEF NewRow, Row, Status, Request
<1>. HIDE DEF row
<1>. QED
  BY <1>2, <1>4, Zenon DEF StoreNewEvent, row

(* What an INSERT leaves well typed.                                       *)
LEMMA InsertTypes ==
    ASSUME PipelineInv, NEW h \in Handlers, NEW e \in EventIds,
           hpc[h] = "insert", StoreNewEvent(h, e)
    PROVE  /\ events' \in [EventIds -> Row \cup {None}]
           /\ seen' \in [EventIds -> SUBSET EventIds]
           /\ by' \in [EventIds -> Handlers \cup {None}]
           /\ devices' = devices
<1>1. PICK row \in Row : events' = [events EXCEPT ![e] = row]
  BY InsertedRow
<1>2. view[h].rows \in SUBSET EventIds
  BY DEF PipelineInv, HandlerShape, View
<1>. QED
  BY <1>1, <1>2 DEF PipelineInv, TypeOK, StoreNewEvent

(* TypeOK is preserved.                                                    *)
LEMMA TypeStep == PipelineInv /\ [Next]_vars => TypeOK'
<1>. SUFFICES ASSUME PipelineInv, [Next]_vars PROVE TypeOK'
  OBVIOUS
<1>. USE AttendanceConstants, PipelineConstants, NoneIsNoRow DEF PipelineInv
<1>1. ASSUME NEW h \in Handlers, NEW d \in Devices, RegisterRequest(h, d) PROVE
         TypeOK'
  BY <1>1 DEF RegisterRequest, Accept, HandlerShape, HandlerPC, Request, TypeOK,
         Fault, dbVars, history, handlerVars, apiVars, workerVars
<1>2. ASSUME NEW h \in Handlers, UpsertDevice(h) PROVE TypeOK'
  BY <1>2 DEF UpsertDevice, HandlerShape, HandlerPC, Request, TypeOK, Fault,
         dbVars, history, handlerVars, apiVars, workerVars
<1>3. ASSUME NEW h \in Handlers, IssueToken(h) PROVE TypeOK'
  BY <1>3 DEF IssueToken, Respond, HandlerShape, HandlerPC, Request, TypeOK,
         Fault, dbVars, history, handlerVars, apiVars, workerVars
<1>4. ASSUME NEW h \in Handlers, NEW t \in Devices, NEW u \in Users, NEW d \in
         Devices, CheckinRequest(h, t, u, d) PROVE TypeOK'
  BY <1>4 DEF CheckinRequest, Accept, HandlerShape, HandlerPC, Request, TypeOK,
         Fault, dbVars, history, handlerVars, apiVars, workerVars
<1>5. ASSUME NEW h \in Handlers, RecentEventFound(h) PROVE TypeOK'
  BY <1>5 DEF RecentEventFound, HandlerShape, HandlerPC, Request, Latest,
         Recent, InWindow, Stored, TypeOK, Fault, dbVars, history, handlerVars,
         apiVars, workerVars
<1>6. ASSUME NEW h \in Handlers, RecentEventNone(h) PROVE TypeOK'
  BY <1>6 DEF RecentEventNone, HandlerShape, HandlerPC, Request, Stored, View,
         TypeOK, Fault, dbVars, history, handlerVars, apiVars, workerVars
<1>7. ASSUME NEW h \in Handlers, InsertEvent(h) PROVE TypeOK'
  <2>1. PICK e \in EventIds : StoreNewEvent(h, e) /\ evt' = [evt EXCEPT ![h] = e]
    BY <1>7, Zenon DEF InsertEvent
  <2>2. hpc[h] = "insert"
    BY <1>7 DEF InsertEvent
  <2>3. /\ events' \in [EventIds -> Row \cup {None}]
        /\ seen' \in [EventIds -> SUBSET EventIds]
        /\ by' \in [EventIds -> Handlers \cup {None}]
        /\ devices' = devices
    BY <2>1, <2>2, InsertTypes
  <2>. QED
    BY <1>7, <2>1, <2>3 DEF InsertEvent, HandlerPC, TypeOK, workerVars
<1>8. ASSUME NEW h \in Handlers, Publish(h) PROVE TypeOK'
  BY <1>8 DEF Publish, Respond, HandlerShape, HandlerPC, Request,
         AnswerMatchesRequest, Stored, TypeOK, Fault, dbVars, history,
         handlerVars, apiVars, workerVars
<1>9. ASSUME NEW h \in Handlers, StatementFails(h) PROVE TypeOK'
  BY <1>9 DEF StatementFails, Respond, HandlerShape, HandlerPC, Request, TypeOK,
         Fault, dbVars, history, handlerVars, apiVars, workerVars
<1>10. ASSUME NEW h \in Handlers, StatementReplyLost(h) PROVE TypeOK'
  <2>1. CASE hpc[h] = "upsert"
    BY <1>10, <2>1 DEF StatementReplyLost, Respond, Fault, HandlerShape, HandlerPC,
         Request, TypeOK, history, workerVars
  <2>2. CASE hpc[h] = "insert"
    <3>1. /\ events' \in [EventIds -> Row \cup {None}]
          /\ seen' \in [EventIds -> SUBSET EventIds]
          /\ by' \in [EventIds -> Handlers \cup {None}]
          /\ devices' = devices
      BY <1>10, <2>2, InsertTypes DEF StatementReplyLost
    <3>. QED
      BY <1>10, <3>1 DEF StatementReplyLost, Respond, Fault, HandlerPC, TypeOK, workerVars
  <2>. QED
    BY <1>10, <2>1, <2>2 DEF StatementReplyLost
<1>11. ASSUME NEW h \in Handlers, PublishFails(h) PROVE TypeOK'
  <2>1. evt[h] \in EventIds
    BY <1>11 DEF PublishFails, AnswerMatchesRequest, Stored
  <2>2. queue \o <<evt[h], evt[h]>> \in Seq(EventIds)
    BY <2>1 DEF TypeOK
  <2>3. queue' \in Seq(EventIds)
    BY <1>11, <2>2, Zenon DEF PublishFails, TypeOK
  <2>. QED
    BY <1>11, <2>3 DEF PublishFails, Respond, Fault, HandlerPC, TypeOK, dbVars, history, workerVars
<1>12. CASE ApiSignal
  BY <1>12 DEF ApiSignal, TypeOK, Fault, dbVars, history, handlerVars, apiVars,
         workerVars
<1>13. CASE ApiExit
  BY <1>13 DEF ApiExit, TypeOK, Fault, dbVars, history, handlerVars, apiVars,
         workerVars
<1>14. CASE ApiCrash
  BY <1>14 DEF ApiCrash, HandlerPC, TypeOK, Fault, dbVars, history, handlerVars,
         apiVars, workerVars
<1>15. CASE ApiStart
  BY <1>15 DEF ApiStart, TypeOK, Fault, dbVars, history, handlerVars, apiVars,
         workerVars
<1>16. ASSUME NEW w \in Workers, Pop(w) PROVE TypeOK'
  BY <1>16 DEF Pop, WorkerPC, BRPop, TypeOK, Fault, dbVars, history,
         handlerVars, apiVars, workerVars
<1>17. ASSUME NEW w \in Workers, PopFails(w) PROVE TypeOK'
  BY <1>17 DEF PopFails, WorkerPC, BRPop, TypeOK, Fault, dbVars, history,
         handlerVars, apiVars, workerVars
<1>18. ASSUME NEW w \in Workers, Receive(w) PROVE TypeOK'
  BY <1>18 DEF Receive, WorkerPC, TypeOK, Fault, dbVars, history, handlerVars,
         apiVars, workerVars
<1>19. ASSUME NEW w \in Workers, GetEvent(w) PROVE TypeOK'
  BY <1>19 DEF GetEvent, WorkerPC, TypeOK, Fault, dbVars, history, handlerVars,
         apiVars, workerVars
<1>20. ASSUME NEW w \in Workers, EmbedWithScore(w) PROVE TypeOK'
  BY <1>20 DEF EmbedWithScore, WorkerPC, TypeOK, Fault, dbVars, history,
         handlerVars, apiVars, workerVars
<1>21. ASSUME NEW w \in Workers, UpdateEventStatus(w) PROVE TypeOK'
  <2>1. events' \in [EventIds -> Row \cup {None}]
    BY <1>21, UpdatedRowOfWorker DEF TypeOK
  <2>. QED
    BY <1>21, <2>1 DEF UpdateEventStatus, Continue, WorkerPC, TypeOK,
         history, handlerVars, apiVars
<1>22. ASSUME NEW w \in Workers, WorkerCallFails(w) PROVE TypeOK'
  BY <1>22 DEF WorkerCallFails, Continue, WorkerPC, TypeOK, Fault, dbVars,
         history, handlerVars, apiVars, workerVars
<1>23. ASSUME NEW w \in Workers, WorkerSignal(w) PROVE TypeOK'
  BY <1>23 DEF WorkerSignal, WorkerPC, TypeOK, Fault, dbVars, history,
         handlerVars, apiVars, workerVars
<1>24. ASSUME NEW w \in Workers, Abandon(w) PROVE TypeOK'
  BY <1>24 DEF Abandon, Continue, WorkerPC, TypeOK, Fault, dbVars, history,
         handlerVars, apiVars, workerVars
<1>25. ASSUME NEW w \in Workers, WorkerExit(w) PROVE TypeOK'
  BY <1>25 DEF WorkerExit, WorkerPC, TypeOK, Fault, dbVars, history,
         handlerVars, apiVars, workerVars
<1>26. ASSUME NEW w \in Workers, WorkerCrash(w) PROVE TypeOK'
  BY <1>26 DEF WorkerCrash, WorkerPC, TypeOK, Fault, dbVars, history,
         handlerVars, apiVars, workerVars
<1>27. ASSUME NEW w \in Workers, WorkerStart(w) PROVE TypeOK'
  BY <1>27 DEF WorkerStart, WorkerPC, TypeOK, Fault, dbVars, history,
         handlerVars, apiVars, workerVars
<1>28. CASE Evict
  BY <1>28 DEF Evict, TypeOK, Fault, dbVars, history, handlerVars, apiVars,
         workerVars
<1>29. CASE Tick
  BY <1>29 DEF Tick, TypeOK, Fault, dbVars, history, handlerVars, apiVars,
         workerVars
<1>30. CASE UNCHANGED vars
  BY <1>30 DEF vars, TypeOK, dbVars, history, handlerVars, apiVars, workerVars
<1>. QED
  BY <1>1, <1>2, <1>3, <1>4, <1>5, <1>6, <1>7, <1>8, <1>9, <1>10, <1>11,
  <1>12, <1>13, <1>14, <1>15, <1>16, <1>17, <1>18, <1>19, <1>20, <1>21, <1>22,
  <1>23, <1>24, <1>25, <1>26, <1>27, <1>28, <1>29, <1>30 DEF Next, HandlerStep,
  HandlerFault, LoopStep, WorkerFault

---------------------------------------------------------------------------
(* The steps of the workers and of the environment, and the steps of the   *)
(* API process that touch no request.                                      *)
Elsewhere ==
    \/ ApiSignal \/ ApiExit \/ ApiStart
    \/ \E w \in Workers :
          Pop(w) \/ LoopStep(w) \/ WorkerExit(w) \/ WorkerStart(w) \/ WorkerFault(w)
    \/ Evict
    \/ Tick
    \/ UNCHANGED vars

(* Elsewhere leaves the requests and their tables alone.                   *)
LEMMA ElsewhereFrame ==
    ASSUME TypeOK, Elsewhere
    PROVE  /\ UNCHANGED <<devices, tokens, seen, by, hpc, req, evt, view>>
           /\ now' >= now
<1>1. CASE ApiSignal \/ ApiExit \/ ApiStart
  BY <1>1 DEF ApiSignal, ApiExit, ApiStart, TypeOK, dbVars, history, handlerVars
<1>2. ASSUME NEW w \in Workers,
             Pop(w) \/ LoopStep(w) \/ WorkerExit(w) \/ WorkerStart(w) \/ WorkerFault(w)
      PROVE  UNCHANGED <<devices, history, apiVars, now>>
  BY <1>2 DEF Pop, LoopStep, WorkerExit, WorkerStart, WorkerFault, Receive, GetEvent,
              EmbedWithScore, UpdateEventStatus, Abandon, PopFails,
              WorkerCallFails, WorkerSignal, WorkerCrash, dbVars, history
<1>3. CASE Evict \/ Tick \/ UNCHANGED vars
  BY <1>3 DEF Evict, Tick, vars, TypeOK, dbVars, history, handlerVars, apiVars
<1>. QED
  BY <1>1, <1>2, <1>3 DEF Elsewhere, TypeOK, dbVars, history, handlerVars, apiVars

(* Only three statements write rows.                                       *)
LEMMA EventsFrame ==
    ASSUME [Next]_vars,
           ~ \E h \in Handlers : InsertEvent(h) \/ StatementReplyLost(h),
           ~ \E w \in Workers : UpdateEventStatus(w)
    PROVE  UNCHANGED <<events, seen, by>>
  BY Zenon DEF Next, HandlerStep, HandlerFault, LoopStep, WorkerFault, RegisterRequest,
         UpsertDevice, IssueToken, CheckinRequest,
         RecentEventFound, RecentEventNone, StatementFails, Publish, PublishFails,
         ApiSignal, ApiExit, ApiCrash, ApiStart, Pop, PopFails, Receive, GetEvent,
         EmbedWithScore, WorkerCallFails, WorkerSignal,
         Abandon, WorkerExit, WorkerCrash, WorkerStart, Evict, Tick, vars, dbVars, history

(* The INSERT of handler h commits the row of event e.                     *)
Inserts(h, e) ==
    /\ hpc[h] = "insert"
    /\ StoreNewEvent(h, e)
    /\ InsertEvent(h) \/ StatementReplyLost(h)

(* What an insertion needs, and what it records beside the row.            *)
LEMMA InsertsRecords ==
    ASSUME NEW h \in Handlers, NEW e \in EventIds, Inserts(h, e)
    PROVE  /\ hpc[h] = "insert" /\ StoreNewEvent(h, e)
           /\ req[h].device \in devices
           /\ seen' = [seen EXCEPT ![e] = view[h].rows]
           /\ by' = [by EXCEPT ![e] = h]
  BY Zenon DEF Inserts, StoreNewEvent

(* How a step changes the table: a new row, a row's status, or nothing.    *)
LEMMA EventsStep ==
    ASSUME [Next]_vars
    PROVE  \/ UNCHANGED <<events, seen, by>>
           \/ \E h \in Handlers, e \in EventIds : Inserts(h, e)
           \/ \E w \in Workers : UpdateEventStatus(w)
<1>1. ASSUME NEW h \in Handlers, InsertEvent(h) \/ StatementReplyLost(h)
      PROVE  UNCHANGED <<events, seen, by>> \/ \E e \in EventIds : Inserts(h, e)
  BY <1>1 DEF Inserts, InsertEvent, StatementReplyLost, dbVars, history
<1>. QED
  BY <1>1, EventsFrame

(* A stored row stays stored and keeps its user, device and time.          *)
LEMMA RowsPersist ==
    ASSUME PipelineInv, [Next]_vars, NEW e \in Stored(events)
    PROVE  /\ e \in Stored(events')
           /\ events'[e].user = events[e].user
           /\ events'[e].device = events[e].device
           /\ events'[e].when = events[e].when
<1>. /\ e \in EventIds /\ events[e] # None
     /\ events \in [EventIds -> Row \cup {None}]
  BY DEF PipelineInv, TypeOK, Stored
<1>1. CASE events' = events
  BY <1>1 DEF Stored
<1>2. ASSUME NEW h \in Handlers, NEW f \in EventIds, Inserts(h, f)
      PROVE  e \in Stored(events') /\ events'[e] = events[e]
  <2>1. PICK row \in Row : events[f] = None /\ events' = [events EXCEPT ![f] = row]
    BY <1>2, InsertedRow DEF Inserts
  <2>. QED
    BY <2>1 DEF Stored
<1>3. ASSUME NEW w \in Workers, UpdateEventStatus(w)
      PROVE  /\ e \in Stored(events')
             /\ events'[e].user = events[e].user
             /\ events'[e].device = events[e].device
             /\ events'[e].when = events[e].when
  <2>1. PICK row \in Row :
          /\ events' = [events EXCEPT ![cur[w]] = row]
          /\ row.user = events[cur[w]].user
          /\ row.device = events[cur[w]].device
          /\ row.when = events[cur[w]].when
    BY <1>3, UpdatedRowOfWorker
  <2>2. row # None
    BY NoneIsNoRow
  <2>. QED
    BY <2>1, <2>2 DEF Stored
<1>. QED
  BY <1>1, <1>2, <1>3, EventsStep

---------------------------------------------------------------------------
(* A step that leaves the request of h where it is.                        *)
Keeps(h) ==
    /\ hpc'[h] = hpc[h]
    /\ req'[h] = req[h]
    /\ evt'[h] = evt[h]
    /\ view'[h] = view[h]

(* A step that begins a registration or an authorised check-in.            *)
Starts(h) ==
    \/ /\ hpc'[h] = "upsert"
       /\ req'[h] \in Request
    \/ /\ hpc'[h] = "recent"
       /\ req'[h] \in Request
       /\ req'[h].user \in Users
       /\ req'[h].device \in tokens

(* What a step may do to one request: nothing, end it, begin it, or take   *)
(* it one call further.                                                    *)
LEMMA HandlerCases ==
    ASSUME TypeOK, [Next]_vars, NEW h \in Handlers
    PROVE  /\ devices \subseteq devices'
           /\ now' >= now
           /\ \/ Keeps(h)
              \/ hpc'[h] = "idle" /\ evt'[h] = None
              \/ Starts(h) /\ evt'[h] = evt[h]
              \/ UpsertDevice(h)
              \/ RecentEventFound(h)
              \/ RecentEventNone(h)
              \/ InsertEvent(h)
<1>. DEFINE Goal == /\ devices \subseteq devices'
                    /\ now' >= now
                    /\ \/ Keeps(h)
                       \/ hpc'[h] = "idle" /\ evt'[h] = None
                       \/ Starts(h) /\ evt'[h] = evt[h]
                       \/ UpsertDevice(h)
                       \/ RecentEventFound(h)
                       \/ RecentEventNone(h)
                       \/ InsertEvent(h)
<1>0. now >= now
  BY DEF TypeOK
<1>1. CASE Elsewhere
  BY <1>1, ElsewhereFrame DEF Keeps
<1>2. CASE ApiCrash
  BY <1>2, <1>0 DEF ApiCrash, dbVars, history
<1>3. ASSUME NEW g \in Handlers, NEW d \in Devices, RegisterRequest(g, d)
      PROVE  Goal
  <2>1. [user |-> None, device |-> d] \in Request
    BY DEF Request
  <2>2. CASE g = h
    BY <1>0, <1>3, <2>1, <2>2 DEF RegisterRequest, Accept, Starts, TypeOK, dbVars, history
  <2>3. CASE g # h
    BY <1>0, <1>3, <2>3 DEF RegisterRequest, Accept, Keeps, TypeOK, dbVars, history
  <2>. QED
    BY <2>2, <2>3
<1>4. ASSUME NEW g \in Handlers, NEW t \in Devices, NEW u \in Users, NEW d \in Devices,
             CheckinRequest(g, t, u, d)
      PROVE  Goal
  <2>1. [user |-> u, device |-> d] \in Request
    BY DEF Request
  <2>2. CASE g = h
    BY <1>0, <1>4, <2>1, <2>2
       DEF CheckinRequest, Authorized, Accept, Starts, TypeOK, dbVars, history
  <2>3. CASE g # h
    BY <1>0, <1>4, <2>3 DEF CheckinRequest, Accept, Keeps, TypeOK, dbVars, history
  <2>. QED
    BY <2>2, <2>3
<1>5. ASSUME NEW g \in Handlers, HandlerStep(g), g # h
      PROVE  Goal
  BY <1>0, <1>5, ZenonT(60) DEF HandlerStep, UpsertDevice, IssueToken, RecentEventFound,
        RecentEventNone, InsertEvent, StoreNewEvent, Publish, Respond, Keeps,
        TypeOK, dbVars, history
<1>6. ASSUME HandlerStep(h)
      PROVE  Goal
  BY <1>0, <1>6, Zenon DEF HandlerStep, UpsertDevice, IssueToken, RecentEventFound,
        RecentEventNone, InsertEvent, StoreNewEvent, Publish, Respond, TypeOK, dbVars, history
<1>7. ASSUME NEW g \in Handlers, HandlerFault(g)
      PROVE  Goal
  <2>1. /\ Respond(g)
        /\ devices \subseteq devices'
        /\ now' = now
    BY <1>7, ZenonT(60) DEF HandlerFault, StatementFails, StatementReplyLost,
                StoreNewEvent, PublishFails, dbVars, history
  <2>. QED
    BY <1>0, <2>1 DEF Respond, Keeps, TypeOK
<1>. QED
  BY <1>1, <1>2, <1>3, <1>4, <1>5, <1>6, <1>7, Zenon DEF Next, Elsewhere

(* HandlerShape is preserved.                                              *)
LEMMA HandlerShapeStep == PipelineInv /\ [Next]_vars => HandlerShape'
<1>. SUFFICES ASSUME PipelineInv, [Next]_vars, NEW h \in Handlers
              PROVE  /\ hpc'[h] # "idle" => req'[h] \in Request
                     /\ hpc'[h] \in {"recent", "insert", "publish"} => req'[h].user \in Users
                     /\ hpc'[h] = "insert" => view'[h] \in View /\ view'[h].at <= now'
  BY DEF HandlerShape
<1>. /\ TypeOK
     /\ hpc[h] # "idle" => req[h] \in Request
     /\ hpc[h] \in {"recent", "insert", "publish"} => req[h].user \in Users
     /\ hpc[h] = "insert" => view[h] \in View /\ view[h].at <= now
  BY DEF PipelineInv, HandlerShape
<1>. now \in Nat /\ now' \in Nat /\ now' >= now
  BY TypeStep, HandlerCases DEF TypeOK
<1>1. CASE Keeps(h)
  BY <1>1 DEF Keeps, View
<1>2. CASE hpc'[h] = "idle"
  BY <1>2
<1>3. CASE Starts(h)
  BY <1>3 DEF Starts
<1>4. CASE UpsertDevice(h)
  BY <1>4 DEF UpsertDevice, TypeOK
<1>5. CASE RecentEventFound(h)
  BY <1>5 DEF RecentEventFound, TypeOK
<1>6. CASE RecentEventNone(h)
  BY <1>6 DEF RecentEventNone, TypeOK, View, Stored
<1>7. CASE InsertEvent(h)
  BY <1>7 DEF InsertEvent, TypeOK
<1>. QED
  BY <1>1, <1>2, <1>3, <1>4, <1>5, <1>6, <1>7, HandlerCases, Zenon

---------------------------------------------------------------------------
(* The elements of a sequence that is appended to, popped or concatenated. *)
LEMMA SeqElements ==
    ASSUME NEW q \in Seq(EventIds), NEW a \in EventIds
    PROVE  /\ \A i \in 1 .. Len(Append(q, a)) :
                 Append(q, a)[i] = a \/ \E j \in 1 .. Len(q) : Append(q, a)[i] = q[j]
           /\ \A i \in 1 .. Len(q \o <<a, a>>) :
                 (q \o <<a, a>>)[i] = a
                 \/ \E j \in 1 .. Len(q) : (q \o <<a, a>>)[i] = q[j]
           /\ q # <<>> =>
                 /\ \A i \in 1 .. Len(Tail(q)) :
                       \E j \in 1 .. Len(q) : Tail(q)[i] = q[j]
                 /\ \E j \in 1 .. Len(q) : Head(q) = q[j]
<1>1. \A i \in 1 .. Len(Append(q, a)) :
         Append(q, a)[i] = a \/ \E j \in 1 .. Len(q) : Append(q, a)[i] = q[j]
  OBVIOUS
<1>2. \A i \in 1 .. Len(q \o <<a, a>>) :
         (q \o <<a, a>>)[i] = a \/ \E j \in 1 .. Len(q) : (q \o <<a, a>>)[i] = q[j]
  <2>. SUFFICES ASSUME NEW i \in 1 .. Len(q \o <<a, a>>)
                PROVE  (q \o <<a, a>>)[i] = a
                       \/ \E j \in 1 .. Len(q) : (q \o <<a, a>>)[i] = q[j]
    OBVIOUS
  <2>1. Len(q \o <<a, a>>) = Len(q) + 2 /\ Len(q) \in Nat
    OBVIOUS
  <2>2. CASE i <= Len(q)
    BY <2>1, <2>2
  <2>3. CASE i = Len(q) + 1 \/ i = Len(q) + 2
    BY <2>1, <2>3
  <2>. QED
    BY <2>1, <2>2, <2>3
<1>3. ASSUME q # <<>>
      PROVE  /\ \A i \in 1 .. Len(Tail(q)) : \E j \in 1 .. Len(q) : Tail(q)[i] = q[j]
             /\ \E j \in 1 .. Len(q) : Head(q) = q[j]
  <2>1. Len(q) \in Nat /\ Len(q) >= 1
    BY <1>3
  <2>2. Head(q) = q[1]
    BY <1>3
  <2>3. ASSUME NEW i \in 1 .. Len(Tail(q)) PROVE \E j \in 1 .. Len(q) : Tail(q)[i] = q[j]
    <3>1. Len(Tail(q)) = Len(q) - 1 /\ Tail(q)[i] = q[i + 1]
      BY <1>3, <2>1
    <3>. QED
      BY <2>1, <3>1
  <2>. QED
    BY <2>1, <2>2, <2>3
<1>. QED
  BY <1>1, <1>2, <1>3, Zenon

(* A message enters the list only from a handler that publishes it.        *)
LEMMA QueueStep ==
    ASSUME PipelineInv, [Next]_vars, NEW m \in InQueue'
    PROVE  m \in InQueue \/ \E h \in Handlers : hpc[h] = "publish" /\ m = evt[h]
<1>. queue \in Seq(EventIds)
  BY DEF PipelineInv, TypeOK
<1>1. CASE queue' = queue
  BY <1>1 DEF InQueue
<1>2. ASSUME NEW h \in Handlers, Publish(h) \/ PublishFails(h)
      PROVE  m \in InQueue \/ (hpc[h] = "publish" /\ m = evt[h])
  <2>1. evt[h] \in EventIds /\ hpc[h] = "publish"
    BY <1>2 DEF Publish, PublishFails, PipelineInv, AnswerMatchesRequest, Stored
  <2>2. queue' \in {queue, Append(queue, evt[h]), queue \o <<evt[h], evt[h]>>}
    BY <1>2 DEF Publish, PublishFails
  <2>3. PICK i \in 1 .. Len(queue') : m = queue'[i]
    BY DEF InQueue
  <2>4. CASE queue' = Append(queue, evt[h])
    BY <2>1, <2>3, <2>4, SeqElements DEF InQueue
  <2>5. CASE queue' = queue \o <<evt[h], evt[h]>>
    <3>1. queue'[i] = evt[h] \/ \E j \in 1 .. Len(queue) : queue'[i] = queue[j]
      BY <2>1, <2>3, <2>5, SeqElements
    <3>. QED
      BY <2>1, <2>3, <3>1 DEF InQueue
  <2>6. CASE queue' = queue
    BY <2>6 DEF InQueue
  <2>. QED
    BY <2>2, <2>4, <2>5, <2>6
<1>3. CASE queue # <<>> /\ queue' = Tail(queue)
  <2>1. PICK i \in 1 .. Len(queue') : m = queue'[i]
    BY DEF InQueue
  <2>2. PICK e \in EventIds : TRUE
    BY <1>3
  <2>. QED
    BY <1>3, <2>1, <2>2, SeqElements DEF InQueue
<1>4. CASE queue' = <<>>
  BY <1>4 DEF InQueue
<1>5. \/ queue' = queue
      \/ \E h \in Handlers : Publish(h) \/ PublishFails(h)
      \/ queue # <<>> /\ queue' = Tail(queue)
      \/ queue' = <<>>
  BY ZenonT(60) DEF Next, HandlerStep, HandlerFault, LoopStep, WorkerFault, RegisterRequest,
         UpsertDevice, IssueToken, CheckinRequest,
         RecentEventFound, RecentEventNone, StatementFails, InsertEvent,
         StatementReplyLost, ApiSignal, ApiExit, ApiCrash, ApiStart, Pop, PopFails,
         Receive, GetEvent, EmbedWithScore, UpdateEventStatus,
         WorkerCallFails, WorkerSignal, Abandon, WorkerExit, WorkerCrash,
         WorkerStart, Evict, Tick, vars, BRPop
<1>. QED
  BY <1>1, <1>2, <1>3, <1>4, <1>5

(* What a step may put into the hands of a worker.                         *)
LEMMA WorkerCases ==
    ASSUME PipelineInv, [Next]_vars, NEW w \in Workers
    PROVE  /\ held'[w] \in InQueue \cup {held[w], None}
           /\ cur'[w] \in {held[w], cur[w], None}
           /\ wpc'[w] = "idle" <=> cur'[w] = None
<1>0. wpc[w] = "idle" <=> cur[w] = None
  BY DEF PipelineInv, WorkerShape
<1>1. CASE UNCHANGED <<held, cur, wpc>>
  BY <1>0, <1>1
<1>2. ASSUME NEW v \in Workers, Pop(v)
      PROVE  /\ held'[w] \in InQueue \cup {held[w], None}
             /\ UNCHANGED <<cur, wpc>>
  <2>1. PICK e \in EventIds : TRUE
    BY <1>2 DEF Pop, TypeOK, PipelineInv
  <2>2. \E j \in 1 .. Len(queue) : Head(queue) = queue[j]
    BY <1>2, <2>1, SeqElements DEF Pop, TypeOK
  <2>. QED
    BY <1>2, <2>2 DEF Pop, InQueue, TypeOK
<1>3. ASSUME NEW v \in Workers, LoopStep(v) \/ WorkerFault(v)
      PROVE  /\ held'[w] \in {held[w], None}
             /\ cur'[w] \in {held[w], cur[w], None}
             /\ wpc'[w] = "idle" <=> cur'[w] = None
  <2>0. /\ held \in [Workers -> EventIds \cup {None}]
        /\ cur \in [Workers -> EventIds \cup {None}]
        /\ wpc \in [Workers -> WorkerPC]
    BY DEF PipelineInv, TypeOK
  <2>1. CASE Receive(v)
    BY <1>0, <2>0, <2>1 DEF Receive
  <2>2. CASE GetEvent(v) \/ EmbedWithScore(v)
    BY <1>0, <2>0, <2>2 DEF GetEvent, EmbedWithScore
  <2>3. CASE Continue(v)
    BY <1>0, <2>0, <2>3 DEF Continue
  <2>4. CASE UNCHANGED <<held, cur, wpc>>
    BY <1>0, <2>4
  <2>5. CASE WorkerCrash(v)
    BY <1>0, <2>0, <2>5 DEF WorkerCrash
  <2>. QED
    BY <1>3, <2>1, <2>2, <2>3, <2>4, <2>5, Zenon DEF LoopStep, WorkerFault,
           UpdateEventStatus, Abandon, PopFails, WorkerCallFails, WorkerSignal, workerVars
<1>4. \/ UNCHANGED <<held, cur, wpc>>
      \/ \E v \in Workers : Pop(v) \/ LoopStep(v) \/ WorkerFault(v)
  BY ZenonT(60) DEF Next, HandlerStep, HandlerFault, RegisterRequest, UpsertDevice,
         IssueToken, CheckinRequest, RecentEventFound,
         RecentEventNone, StatementFails, InsertEvent, StatementReplyLost, Publish,
         PublishFails, ApiSignal, ApiExit, ApiCrash, ApiStart, WorkerExit,
         WorkerStart, Evict, Tick, vars, workerVars
<1>. QED
  BY <1>0, <1>1, <1>2, <1>3, <1>4

(* WorkerShape and MessagesNameEvents are preserved.                       *)
LEMMA MessagesStep == PipelineInv /\ [Next]_vars => WorkerShape' /\ MessagesNameEvents'
<1>. SUFFICES ASSUME PipelineInv, [Next]_vars
              PROVE  WorkerShape' /\ MessagesNameEvents'
  OBVIOUS
<1>1. Stored(events) \subseteq Stored(events')
  BY RowsPersist
<1>2. WorkerShape'
  BY WorkerCases DEF PipelineInv, WorkerShape
<1>3. InQueue' \subseteq Stored(events')
  BY <1>1, QueueStep DEF PipelineInv, MessagesNameEvents, AnswerMatchesRequest
<1>4. ASSUME NEW w \in Workers
      PROVE  {held'[w], cur'[w]} \subseteq Stored(events') \cup {None}
  BY <1>1, WorkerCases DEF PipelineInv, MessagesNameEvents
<1>5. ASSUME NEW h \in Handlers
      PROVE  evt'[h] \in Stored(events') \cup {None}
  <2>1. evt[h] \in Stored(events') \cup {None}
    BY <1>1 DEF PipelineInv, MessagesNameEvents
  <2>2. CASE RecentEventFound(h)
    BY <1>1, <2>2 DEF RecentEventFound, Latest, Recent, InWindow, PipelineInv, TypeOK
  <2>3. CASE InsertEvent(h)
    <3>1. PICK e \in EventIds : StoreNewEvent(h, e) /\ evt' = [evt EXCEPT ![h] = e]
      BY <2>3, Zenon DEF InsertEvent
    <3>2. events'[e] # None
      <4>1. PICK row \in Row : events' = [events EXCEPT ![e] = row]
        BY <2>3, <3>1, InsertedRow DEF InsertEvent
      <4>. QED
        BY <4>1, NoneIsNoRow DEF PipelineInv, TypeOK
    <3>. QED
      BY <3>1, <3>2 DEF PipelineInv, TypeOK, Stored
  <2>4. CASE evt'[h] = evt[h] \/ evt'[h] = None
    BY <2>1, <2>4, Zenon
  <2>. QED
    BY <2>2, <2>3, <2>4, HandlerCases
       DEF PipelineInv, Keeps, UpsertDevice, RecentEventNone
<1>. QED
  BY <1>2, <1>3, <1>4, <1>5, Zenon DEF MessagesNameEvents

---------------------------------------------------------------------------
(* DevicesRegistered is preserved.                                         *)
LEMMA DevicesStep == PipelineInv /\ [Next]_vars => DevicesRegistered'
<1>. SUFFICES ASSUME PipelineInv, [Next]_vars
              PROVE  DevicesRegistered'
  OBVIOUS
<1>1. devices \subseteq devices'
  <2>1. CASE Elsewhere
    BY <2>1, ElsewhereFrame DEF PipelineInv
  <2>2. CASE ~Elsewhere
    <3>1. CASE ApiCrash
      BY <3>1 DEF ApiCrash, dbVars, history
    <3>2. CASE ~ApiCrash
      <4>1. Handlers # {}
        BY <2>2, <3>2 DEF Next, Elsewhere
      <4>. QED
        BY <4>1, HandlerCases DEF PipelineInv
    <3>. QED
      BY <3>1, <3>2
  <2>. QED
    BY <2>1, <2>2
<1>2. tokens' \subseteq devices'
  <2>1. CASE tokens' = tokens
    BY <1>1, <2>1 DEF DevicesRegistered, PipelineInv
  <2>2. ASSUME NEW h \in Handlers, IssueToken(h)
        PROVE  tokens' \subseteq devices'
    BY <1>1, <2>2 DEF IssueToken, DevicesRegistered, PipelineInv
  <2>3. tokens' = tokens \/ \E h \in Handlers : IssueToken(h)
    <3>1. CASE Elsewhere
      BY <3>1, ElsewhereFrame DEF PipelineInv
    <3>. QED
      BY <3>1, Zenon DEF Next, Elsewhere, HandlerStep, HandlerFault, RegisterRequest,
         UpsertDevice, CheckinRequest, RecentEventFound,
         RecentEventNone, StatementFails, InsertEvent, StatementReplyLost, Publish,
         PublishFails, ApiCrash
  <2>. QED
    BY <2>1, <2>2, <2>3
<1>3. ASSUME NEW h \in Handlers, hpc'[h] \in {"issue", "recent", "insert", "publish"}
      PROVE  req'[h].device \in devices'
  <2>1. CASE Keeps(h)
    BY <1>1, <1>3, <2>1, Zenon DEF Keeps, DevicesRegistered, PipelineInv
  <2>2. CASE Starts(h)
    BY <1>1, <1>3, <2>2 DEF Starts, DevicesRegistered, PipelineInv
  <2>3. CASE UpsertDevice(h)
    BY <2>3 DEF UpsertDevice
  <2>4. CASE RecentEventFound(h) \/ RecentEventNone(h) \/ InsertEvent(h)
    BY <1>1, <2>4 DEF RecentEventFound, RecentEventNone, InsertEvent, DevicesRegistered, PipelineInv
  <2>. QED
    BY <1>3, <2>1, <2>2, <2>3, <2>4, HandlerCases, ZenonT(60) DEF PipelineInv
<1>4. ASSUME NEW e \in Stored(events')
      PROVE  events'[e].device \in devices'
  <2>1. CASE e \in Stored(events)
    BY <1>1, <2>1, RowsPersist DEF DevicesRegistered, PipelineInv
  <2>2. CASE e \notin Stored(events)
    <3>. e \in EventIds /\ events[e] = None /\ events'[e] # None
      BY <2>2 DEF Stored
    <3>1. ASSUME NEW h \in Handlers, NEW f \in EventIds, Inserts(h, f)
          PROVE  events'[e].device \in devices
      <4>1. PICK row \in Row : /\ events' = [events EXCEPT ![f] = row]
                               /\ row.device = req[h].device
        BY <3>1, InsertedRow DEF Inserts
      <4>2. req[h].device \in devices
        BY <3>1, InsertsRecords, Zenon
      <4>. QED
        BY <4>1, <4>2 DEF TypeOK
    <3>2. ~ \E w \in Workers : UpdateEventStatus(w)
      BY UpdatedRowOfWorker DEF Stored, TypeOK, PipelineInv
    <3>. QED
      BY <1>1, <3>1, <3>2, EventsStep
  <2>. QED
    BY <2>1, <2>2
<1>. QED
  BY <1>2, <1>3, <1>4 DEF DevicesRegistered

(* AnswerMatchesRequest is preserved.                                      *)
LEMMA AnswerStep == PipelineInv /\ [Next]_vars => AnswerMatchesRequest'
<1>. SUFFICES ASSUME PipelineInv, [Next]_vars, NEW h \in Handlers, hpc'[h] = "publish"
              PROVE  /\ evt'[h] \in Stored(events')
                     /\ events'[evt'[h]].user = req'[h].user
                     /\ events'[evt'[h]].device = req'[h].device
  BY DEF AnswerMatchesRequest
<1>1. CASE Keeps(h)
  <2>1. /\ evt'[h] = evt[h] /\ req'[h] = req[h]
        /\ evt[h] \in Stored(events)
        /\ events[evt[h]].user = req[h].user
        /\ events[evt[h]].device = req[h].device
    BY <1>1 DEF Keeps, AnswerMatchesRequest, PipelineInv
  <2>. QED
    BY <2>1, RowsPersist
<1>2. CASE RecentEventFound(h)
  <2>1. PICK e \in Recent(h) : evt' = [evt EXCEPT ![h] = e]
    BY <1>2, Zenon DEF RecentEventFound, Latest
  <2>2. /\ e \in Stored(events)
        /\ events[e].user = req[h].user
        /\ events[e].device = req[h].device
    BY DEF Recent, InWindow
  <2>3. evt'[h] = e /\ req' = req
    BY <1>2, <2>1 DEF RecentEventFound, TypeOK, PipelineInv
  <2>. QED
    BY <2>2, <2>3, RowsPersist
<1>3. CASE InsertEvent(h)
  <2>1. PICK e \in EventIds : StoreNewEvent(h, e) /\ evt' = [evt EXCEPT ![h] = e]
    BY <1>3, Zenon DEF InsertEvent
  <2>2. PICK row \in Row : /\ events' = [events EXCEPT ![e] = row]
                           /\ row.user = req[h].user
                           /\ row.device = req[h].device
    BY <1>3, <2>1, InsertedRow DEF InsertEvent
  <2>3. evt'[h] = e /\ req' = req /\ events'[e] = row /\ row # None
    BY <1>3, <2>1, <2>2, NoneIsNoRow DEF InsertEvent, TypeOK, PipelineInv
  <2>. QED
    BY <2>2, <2>3 DEF Stored
<1>. QED
  BY <1>1, <1>2, <1>3, HandlerCases, ZenonT(60) DEF Starts, UpsertDevice, RecentEventNone, TypeOK, PipelineInv

---------------------------------------------------------------------------
(* An event that is not in the window at n is more than w older than n.   *)
LEMMA StaleIsBefore == \A a, n, w \in Int : ~(a >= n - w) => a + w < n
  OBVIOUS

(* A row stamped s or more after the look at b is later than one the look  *)
(* found to be out of the window.                                          *)
LEMMA LaterRow ==
    \A a, b, r, w, s \in Int : (r >= b + s /\ a + w < b) => r > a + w + s
  OBVIOUS

(* LookedBeforeInserting is preserved: the rows a handler saw stay what    *)
(* they were, and RecentEvent's empty answer says how old they are.        *)
LEMMA LookedStep == PipelineInv /\ [Next]_vars => LookedBeforeInserting'
<1>. SUFFICES ASSUME PipelineInv, [Next]_vars, NEW h \in Handlers, hpc'[h] = "insert"
              PROVE  /\ view'[h].rows \subseteq Stored(events')
                     /\ \A e \in view'[h].rows :
                           (/\ events'[e].user = req'[h].user
                            /\ events'[e].device = req'[h].device)
                           => events'[e].when + Window < view'[h].at
  BY ZenonT(60) DEF LookedBeforeInserting
<1>1. CASE Keeps(h)
  BY <1>1, RowsPersist, Zenon DEF Keeps, LookedBeforeInserting, PipelineInv
<1>2. CASE RecentEventNone(h)
  <2>1. /\ view'[h] = [at |-> now, rows |-> Stored(events)]
        /\ req' = req
        /\ events' = events
        /\ Recent(h) = {}
    BY <1>2 DEF RecentEventNone, TypeOK, dbVars, history, PipelineInv
  <2>2. ASSUME NEW e \in Stored(events), events[e].user = req[h].user,
               events[e].device = req[h].device
        PROVE  events[e].when + Window < now
    <3>1. ~(events[e].when >= now - Window)
      BY <2>1, <2>2 DEF Recent, InWindow, Fresh
    <3>2. events[e].when \in Int /\ now \in Int /\ Window \in Int
      BY AttendanceConstants DEF TypeOK, Stored, Row, PipelineInv
    <3>. QED
      BY <3>1, <3>2, StaleIsBefore, Zenon
  <2>. QED
    BY <2>1, <2>2
<1>. QED
  BY <1>1, <1>2, HandlerCases, ZenonT(60)
     DEF Starts, UpsertDevice, RecentEventFound, InsertEvent, TypeOK, PipelineInv

(* SeenStored and DedupSequential are preserved.  Only an INSERT can       *)
(* disturb them: the new event saw the rows its handler saw, and nobody    *)
(* has seen the new event.                                                 *)
LEMMA DedupStep == PipelineInv /\ [Next]_vars => SeenStored' /\ DedupSequential'
<1>. SUFFICES ASSUME PipelineInv, [Next]_vars
              PROVE  SeenStored' /\ DedupSequential'
  OBVIOUS
<1>1. Stored(events) \subseteq Stored(events')
  BY RowsPersist
<1>2. ASSUME seen' = seen, Stored(events') = Stored(events)
      PROVE  SeenStored' /\ DedupSequential'
  <2>1. SeenStored'
    BY <1>2 DEF SeenStored, PipelineInv
  <2>2. ASSUME NEW f \in Stored(events'), NEW e \in seen'[f], SameSubject(e, f)'
        PROVE  events'[f].when > events'[e].when + Window + Skew
    <3>1. e \in Stored(events) /\ f \in Stored(events) /\ e \in seen[f]
      BY <1>2, <2>2 DEF SeenStored, Stored, PipelineInv
    <3>2. SameSubject(e, f)
      BY <2>2, <3>1, RowsPersist DEF SameSubject
    <3>3. events[f].when > events[e].when + Window + Skew
      BY <3>1, <3>2 DEF DedupSequential, PipelineInv
    <3>. QED
      BY <3>1, <3>3, RowsPersist
  <2>. QED
    BY <2>1, <2>2 DEF DedupSequential
<1>3. ASSUME NEW w \in Workers, UpdateEventStatus(w)
      PROVE  seen' = seen /\ Stored(events') = Stored(events)
  BY <1>3, UpdateKeepsStored, Zenon
<1>4. ASSUME NEW h \in Handlers, NEW g \in EventIds, Inserts(h, g)
      PROVE  SeenStored' /\ DedupSequential'
  <2>1. PICK row \in Row : /\ events[g] = None
                           /\ events' = [events EXCEPT ![g] = row]
                           /\ row.user = req[h].user
                           /\ row.device = req[h].device
                           /\ row.when >= view[h].at + Skew
    BY <1>4, InsertedRow DEF Inserts
  <2>2. seen' = [seen EXCEPT ![g] = view[h].rows]
    BY <1>4, InsertsRecords, Zenon
  <2>3. view[h].rows \subseteq Stored(events) /\ view[h].at \in Int
    BY <1>4 DEF Inserts, LookedBeforeInserting, HandlerShape, View, PipelineInv
  <2>4. ASSUME NEW f \in EventIds
        PROVE  seen'[f] \subseteq Stored(events)
    BY <2>2, <2>3 DEF SeenStored, TypeOK, PipelineInv
  <2>5. SeenStored'
    BY <1>1, <2>4 DEF SeenStored
  <2>6. ASSUME NEW f \in Stored(events'), NEW e \in seen'[f], SameSubject(e, f)'
        PROVE  events'[f].when > events'[e].when + Window + Skew
    <3>1. e \in Stored(events) /\ f \in EventIds
      BY <2>4 DEF Stored
    <3>2. e # g /\ e \in EventIds /\ events'[e] = events[e]
      BY <2>1, <3>1 DEF Stored, TypeOK
    <3>3. CASE f = g
      <4>1. e \in view[h].rows /\ events'[f] = row
        BY <2>1, <2>2, <2>6, <3>3, Zenon DEF TypeOK, PipelineInv
      <4>2. events[e].user = req[h].user /\ events[e].device = req[h].device
        BY <2>1, <2>6, <3>2, <4>1 DEF SameSubject
      <4>3. events[e].when + Window < view[h].at
        BY <1>4, <4>1, <4>2 DEF Inserts, LookedBeforeInserting, PipelineInv
      <4>4. events[e].when \in Int /\ row.when \in Int /\ Window \in Int /\ Skew \in Int
        BY <3>1, AttendanceConstants DEF TypeOK, Stored, Row, PipelineInv
      <4>. QED
        BY <2>1, <2>3, <3>2, <4>1, <4>3, <4>4, LaterRow, Zenon
    <3>4. CASE f # g
      <4>1. events'[f] = events[f] /\ seen'[f] = seen[f] /\ f \in Stored(events)
        BY <2>1, <2>2, <2>6, <3>1, <3>4 DEF Stored, TypeOK
      <4>2. SameSubject(e, f)
        BY <2>6, <3>2, <4>1, Zenon DEF SameSubject
      <4>. QED
        BY <2>6, <3>2, <4>1, <4>2 DEF DedupSequential, PipelineInv
    <3>. QED
      BY <3>3, <3>4
  <2>. QED
    BY <2>5, <2>6 DEF DedupSequential
<1>. QED
  BY <1>2, <1>3, <1>4, EventsStep

(* OwnEventsSeen is preserved.  A handler that looks sees all it has        *)
(* inserted so far, and it inserts nothing else before it looks again.     *)
LEMMA OwnEventsStep == PipelineInv /\ [Next]_vars => OwnEventsSeen'
<1>. SUFFICES ASSUME PipelineInv, [Next]_vars
              PROVE  OwnEventsSeen'
  OBVIOUS
<1>0. Stored(events) \subseteq Stored(events')
  BY RowsPersist
<1>1. ASSUME UNCHANGED <<seen, by>>, Stored(events') = Stored(events)
      PROVE  OwnEventsSeen'
  <2>1. ASSUME NEW h \in Handlers, hpc'[h] = "insert", NEW e \in Stored(events), by[e] = h
        PROVE  e \in view'[h].rows
    <3>1. CASE Keeps(h)
      BY <2>1, <3>1, Zenon DEF Keeps, OwnEventsSeen, PipelineInv
    <3>2. CASE RecentEventNone(h)
      <4>1. view \in [Handlers -> View \cup {None}]
        BY DEF PipelineInv, TypeOK
      <4>. QED
        BY <2>1, <3>2, <4>1 DEF RecentEventNone
    <3>. QED
      BY <2>1, <3>1, <3>2, HandlerCases, ZenonT(60)
         DEF Starts, UpsertDevice, RecentEventFound, InsertEvent, TypeOK, PipelineInv
  <2>. QED
    BY <1>1, <2>1 DEF OwnEventsSeen, PipelineInv
<1>2. ASSUME NEW w \in Workers, UpdateEventStatus(w)
      PROVE  UNCHANGED <<seen, by>> /\ Stored(events') = Stored(events)
  BY <1>2, UpdateKeepsStored
<1>3. ASSUME NEW h \in Handlers, NEW g \in EventIds, Inserts(h, g)
      PROVE  OwnEventsSeen'
  <2>1. PICK row \in Row : /\ events[g] = None
                           /\ events' = [events EXCEPT ![g] = row]
    BY <1>3, InsertedRow, Zenon DEF Inserts
  <2>2. /\ seen' = [seen EXCEPT ![g] = view[h].rows]
        /\ by' = [by EXCEPT ![g] = h]
        /\ hpc[h] = "insert"
    BY <1>3, InsertsRecords, Zenon
  <2>3. ASSUME NEW e \in Stored(events'), e # g
        PROVE  e \in Stored(events) /\ by'[e] = by[e] /\ seen'[e] = seen[e]
    BY <2>1, <2>2, <2>3 DEF Stored, TypeOK
  <2>4. by'[g] = h /\ seen'[g] = view[h].rows
    BY <2>2 DEF TypeOK, PipelineInv
  <2>5. ASSUME NEW e \in Stored(events') PROVE by'[e] \in Handlers
    BY <2>3, <2>4, ZenonT(60) DEF OwnEventsSeen, PipelineInv
  <2>6. ASSUME NEW e \in Stored(events'), NEW f \in Stored(events'), e # f, by'[e] = by'[f]
        PROVE  e \in seen'[f] \/ f \in seen'[e]
    <3>0. /\ \A a, b \in Stored(events) : (a # b /\ by[a] = by[b]) => (a \in seen[b] \/ b \in seen[a])
          /\ \A a \in Stored(events) : by[a] = h => a \in view[h].rows
      BY <2>2, Zenon DEF OwnEventsSeen, PipelineInv
    <3>1. CASE e = g
      <4>1. f \in Stored(events) /\ by[f] = h
        BY <2>3, <2>4, <2>6, <3>1, Zenon
      <4>. QED
        BY <2>4, <3>0, <3>1, <4>1, Zenon
    <3>2. CASE f = g
      <4>1. e \in Stored(events) /\ by[e] = h
        BY <2>3, <2>4, <2>6, <3>2, Zenon
      <4>. QED
        BY <2>4, <3>0, <3>2, <4>1, Zenon
    <3>3. CASE e # g /\ f # g
      <4>1. /\ e \in Stored(events) /\ by'[e] = by[e] /\ seen'[e] = seen[e]
            /\ f \in Stored(events) /\ by'[f] = by[f] /\ seen'[f] = seen[f]
        BY <2>3, <3>3, Zenon
      <4>2. by[e] = by[f]
        BY <2>6, <4>1, Zenon
      <4>. QED
        BY <2>6, <3>0, <4>1, <4>2, Zenon
    <3>. QED
      BY <3>1, <3>2, <3>3, Zenon
  <2>7. hpc'[h] # "insert"
    BY <1>3 DEF Inserts, InsertEvent, StatementReplyLost, Respond, TypeOK, PipelineInv
  <2>8. ASSUME NEW k \in Handlers, hpc'[k] = "insert", NEW e \in Stored(events'), by'[e] = k
        PROVE  e \in view'[k].rows
    <3>1. e # g /\ k # h
      BY <2>4, <2>7, <2>8, Zenon
    <3>2. hpc[k] = "insert" /\ view'[k] = view[k]
      BY <1>3, <2>8, <3>1, ZenonT(60) DEF Inserts, InsertEvent, StatementReplyLost, Respond, TypeOK, PipelineInv
    <3>. QED
      BY <2>3, <2>8, <3>1, <3>2, Zenon DEF OwnEventsSeen, PipelineInv
  <2>. QED
    BY <2>5, <2>6, <2>8, Zenon DEF OwnEventsSeen
<1>. QED
  BY <1>1, <1>2, <1>3, EventsStep

(* ProcessedHasScore is preserved.                                         *)
LEMMA ScoreStep == PipelineInv /\ [Next]_vars => ProcessedHasScore'
<1>. SUFFICES ASSUME PipelineInv, [Next]_vars, NEW e \in Stored(events'),
                     events'[e].status = "processed"
              PROVE  events'[e].score # None
  BY DEF ProcessedHasScore
<1>1. CASE events' = events
  BY <1>1 DEF ProcessedHasScore, PipelineInv
<1>2. ASSUME NEW h \in Handlers, NEW g \in EventIds, Inserts(h, g)
      PROVE  events'[e].score # None
  <2>1. PICK row \in Row : events' = [events EXCEPT ![g] = row] /\ row.status = "pending"
    BY <1>2, InsertedRow DEF Inserts
  <2>. QED
    BY <2>1 DEF ProcessedHasScore, Stored, TypeOK, PipelineInv
<1>3. ASSUME NEW w \in Workers, UpdateEventStatus(w)
      PROVE  events'[e].score # None
  <2>1. PICK row \in Row :
          /\ events' = [events EXCEPT ![cur[w]] = row]
          /\ \/ row.status = "processed" /\ row.score \in Scores
             \/ row.status = "failed"
    BY <1>3, UpdatedRowOfWorker
  <2>. QED
    BY <2>1, AttendanceConstants, Zenon DEF ProcessedHasScore, Stored, TypeOK, PipelineInv
<1>. QED
  BY <1>1, <1>2, <1>3, EventsStep, Zenon

---------------------------------------------------------------------------
(* Where a message is, as long as nothing fails.                           *)

(* A fault shows in the count of faults.                                   *)
LEMMA NoFault ==
    ASSUME TypeOK, faults' = faults
    PROVE  ~ Fault
  BY DEF TypeOK, Fault

(* A handler that is about to publish does so or is left alone.            *)
LEMMA PublisherStays ==
    ASSUME TypeOK, [Next]_vars, faults' = faults, NEW h \in Handlers, hpc[h] = "publish"
    PROVE  Publish(h) \/ (hpc'[h] = "publish" /\ evt'[h] = evt[h])
<1>0. hpc \in [Handlers -> HandlerPC] /\ evt \in [Handlers -> EventIds \cup {None}]
  BY DEF TypeOK
<1>1. CASE Elsewhere
  BY <1>1, ElsewhereFrame, Zenon
<1>2. ASSUME NEW g \in Handlers,
             \/ \E d \in Devices : RegisterRequest(g, d)
             \/ \E t \in Devices, u \in Users, d \in Devices : CheckinRequest(g, t, u, d)
      PROVE  hpc'[h] = "publish" /\ evt'[h] = evt[h]
  <2>1. hpc[g] = "idle" /\ evt' = evt /\ \E pc \in HandlerPC : hpc' = [hpc EXCEPT ![g] = pc]
    BY <1>2 DEF RegisterRequest, CheckinRequest, Accept, HandlerPC
  <2>. QED
    BY <1>0, <2>1
<1>3. ASSUME NEW g \in Handlers, HandlerStep(g)
      PROVE  Publish(h) \/ (hpc'[h] = "publish" /\ evt'[h] = evt[h])
  <2>1. CASE g = h
    BY <1>3, <2>1, Zenon DEF HandlerStep, UpsertDevice, IssueToken, RecentEventFound,
           RecentEventNone, InsertEvent
  <2>2. CASE g # h
    <3>1. \E pc : hpc' = [hpc EXCEPT ![g] = pc]
      BY <1>3, Zenon DEF HandlerStep, UpsertDevice, IssueToken, RecentEventFound,
             RecentEventNone, InsertEvent, Publish, Respond
    <3>2. evt' = evt \/ \E x : evt' = [evt EXCEPT ![g] = x]
      BY <1>3, Zenon DEF HandlerStep, UpsertDevice, IssueToken, RecentEventFound,
             RecentEventNone, InsertEvent, Publish, Respond
    <3>. QED
      BY <1>0, <2>2, <3>1, <3>2
  <2>. QED
    BY <2>1, <2>2
<1>. QED
  BY <1>1, <1>2, <1>3, NoFault, Zenon DEF Next, Elsewhere, HandlerFault, StatementFails,
         StatementReplyLost, PublishFails, ApiCrash

(* A worker that is up keeps the message its goroutine holds or passes it  *)
(* to the loop, and the loop keeps its message until it writes the status. *)
LEMMA WorkerCarries ==
    ASSUME PipelineInv, [Next]_vars, faults' = faults, NEW w \in Workers, proc[w] = "up"
    PROVE  /\ proc'[w] = "up"
           /\ held[w] # None => held[w] \in {held'[w], cur'[w]}
           /\ cur[w] # None => cur'[w] = cur[w] \/ UpdateEventStatus(w)
<1>0. /\ proc \in [Workers -> {"up", "stopping", "down"}]
      /\ held \in [Workers -> EventIds \cup {None}]
      /\ cur \in [Workers -> EventIds \cup {None}]
      /\ wpc[w] = "idle" <=> cur[w] = None
  BY DEF PipelineInv, TypeOK, WorkerShape
<1>1. CASE UNCHANGED <<proc, held, cur>>
  BY <1>1
<1>2. ASSUME NEW v \in Workers, Pop(v)
      PROVE  proc'[w] = "up" /\ cur'[w] = cur[w] /\ (held[w] # None => held'[w] = held[w])
  BY <1>0, <1>2 DEF Pop
<1>3. ASSUME NEW v \in Workers, Receive(v)
      PROVE  /\ proc'[w] = "up"
             /\ held[w] # None => held[w] \in {held'[w], cur'[w]}
             /\ cur[w] # None => cur'[w] = cur[w]
  BY <1>0, <1>3 DEF Receive
<1>4. ASSUME NEW v \in Workers, UpdateEventStatus(v) \/ Abandon(v)
      PROVE  /\ proc'[w] = "up" /\ held'[w] = held[w]
             /\ cur'[w] = cur[w] \/ UpdateEventStatus(w)
  <2>1. Continue(v) /\ (v = w => UpdateEventStatus(w))
    BY <1>4 DEF UpdateEventStatus, Abandon
  <2>. QED
    BY <1>0, <2>1 DEF Continue
<1>5. ASSUME NEW v \in Workers, WorkerExit(v) \/ WorkerStart(v)
      PROVE  proc'[w] = "up" /\ held' = held /\ cur' = cur
  BY <1>0, <1>5 DEF WorkerExit, WorkerStart
<1>6. \/ UNCHANGED <<proc, held, cur>>
      \/ \E v \in Workers : \/ Pop(v) \/ Receive(v) \/ UpdateEventStatus(v) \/ Abandon(v)
                              \/ WorkerExit(v) \/ WorkerStart(v)
  <2>1. ~ Fault
    BY NoFault DEF PipelineInv
  <2>. QED
    BY <2>1, ZenonT(60) DEF Next, HandlerStep, HandlerFault, LoopStep, WorkerFault,
         RegisterRequest, UpsertDevice, IssueToken, CheckinRequest, RecentEventFound,
         RecentEventNone, StatementFails, InsertEvent, StatementReplyLost, Publish,
         PublishFails, ApiSignal, ApiExit, ApiCrash, ApiStart, GetEvent, EmbedWithScore,
         PopFails, WorkerCallFails, WorkerSignal, WorkerCrash, Evict, Tick, vars, workerVars
<1>. QED
  BY <1>1, <1>2, <1>3, <1>4, <1>5, <1>6

(* A message leaves the list into the hands of a worker that is up.        *)
LEMMA ListHandsOver ==
    ASSUME PipelineInv, [Next]_vars, faults' = faults, NEW e \in InQueue
    PROVE  e \in InQueue' \/ \E w \in Workers : proc'[w] = "up" /\ held'[w] = e
<1>0. queue \in Seq(EventIds) /\ held \in [Workers -> EventIds \cup {None}]
  BY DEF PipelineInv, TypeOK
<1>1. PICK i \in 1 .. Len(queue) : queue[i] = e
  BY DEF InQueue
<1>2. CASE queue' = queue
  BY <1>2 DEF InQueue
<1>3. ASSUME NEW h \in Handlers, Publish(h)
      PROVE  e \in InQueue'
  <2>1. queue' = Append(queue, evt[h]) /\ evt[h] \in EventIds
    BY <1>3 DEF Publish, PipelineInv, AnswerMatchesRequest, Stored
  <2>2. i \in 1 .. Len(queue') /\ queue'[i] = e
    BY <1>0, <1>1, <2>1
  <2>. QED
    BY <2>2, Zenon DEF InQueue
<1>4. ASSUME NEW w \in Workers, Pop(w)
      PROVE  e \in InQueue' \/ (proc'[w] = "up" /\ held'[w] = e)
  <2>1. /\ queue' = Tail(queue) /\ queue # <<>>
        /\ proc'[w] = "up" /\ held'[w] = Head(queue)
    BY <1>0, <1>4 DEF Pop, BRPop
  <2>2. CASE i = 1
    BY <1>0, <1>1, <2>1, <2>2
  <2>3. CASE i # 1
    <3>1. i - 1 \in 1 .. Len(queue') /\ queue'[i - 1] = e
      BY <1>0, <1>1, <2>1, <2>3
    <3>. QED
      BY <3>1, Zenon DEF InQueue
  <2>. QED
    BY <2>2, <2>3
<1>5. \/ queue' = queue
      \/ \E h \in Handlers : Publish(h)
      \/ \E w \in Workers : Pop(w)
  <2>1. ~ Fault
    BY NoFault DEF PipelineInv
  <2>. QED
    BY <2>1, ZenonT(60) DEF Next, HandlerStep, HandlerFault, LoopStep, WorkerFault,
         RegisterRequest, UpsertDevice, IssueToken, CheckinRequest, RecentEventFound,
         RecentEventNone, StatementFails, InsertEvent, StatementReplyLost,
         PublishFails, ApiSignal, ApiExit, ApiCrash, ApiStart, PopFails, Receive, GetEvent,
         EmbedWithScore, UpdateEventStatus, Abandon, WorkerCallFails, WorkerSignal,
         WorkerCrash, WorkerExit, WorkerStart, Evict, Tick, vars
<1>. QED
  BY <1>2, <1>3, <1>4, <1>5

(* UpdateEventStatus settles the event it is called for.                   *)
LEMMA UpdateSettles ==
    ASSUME PipelineInv, NEW w \in Workers, UpdateEventStatus(w), NEW e, cur[w] = e
    PROVE  Settled(e)'
<1>1. PICK row \in Row : /\ e \in Stored(events)
                         /\ events' = [events EXCEPT ![e] = row]
                         /\ row.status # "pending"
  BY UpdatedRowOfWorker
<1>2. events'[e] = row /\ e \in EventIds
  BY <1>1 DEF PipelineInv, TypeOK, Stored
<1>. QED
  BY <1>1, <1>2, NoneIsNoRow DEF Settled, Stored

(* A message on its way stays so until its event is settled.               *)
LEMMA MessageKept ==
    ASSUME PipelineInv, [Next]_vars, faults' = faults, NEW e \in EventIds, OnItsWay(e)
    PROVE  OnItsWay(e)' \/ Settled(e)'
<1>1. CASE e \in InQueue
  BY <1>1, ListHandsOver, Zenon DEF OnItsWay
<1>2. ASSUME NEW h \in Handlers, hpc[h] = "publish", evt[h] = e
      PROVE  OnItsWay(e)'
  <2>1. CASE Publish(h)
    <3>1. queue' = Append(queue, e) /\ queue \in Seq(EventIds)
      BY <1>2, <2>1 DEF Publish, PipelineInv, TypeOK
    <3>2. Len(queue') \in 1 .. Len(queue') /\ queue'[Len(queue')] = e
      BY <3>1
    <3>. QED
      BY <3>2, Zenon DEF OnItsWay, InQueue
  <2>2. CASE hpc'[h] = "publish" /\ evt'[h] = evt[h]
    BY <1>2, <2>2, Zenon DEF OnItsWay
  <2>. QED
    BY <1>2, <2>1, <2>2, PublisherStays, Zenon DEF PipelineInv
<1>3. ASSUME NEW w \in Workers, proc[w] = "up", e \in {held[w], cur[w]}
      PROVE  OnItsWay(e)' \/ Settled(e)'
  <2>1. e # None
    BY AttendanceConstants
  <2>2. CASE held[w] = e
    BY <1>3, <2>1, <2>2, WorkerCarries, Zenon DEF OnItsWay
  <2>3. CASE cur[w] = e
    BY <1>3, <2>1, <2>3, WorkerCarries, UpdateSettles, Zenon DEF OnItsWay
  <2>. QED
    BY <1>3, <2>2, <2>3
<1>. QED
  BY <1>1, <1>2, <1>3, Zenon DEF OnItsWay

(* A settled event stays settled.                                          *)
LEMMA SettledStays ==
    ASSUME PipelineInv, [Next]_vars, NEW e \in EventIds, Settled(e)
    PROVE  Settled(e)'
<1>0. events \in [EventIds -> Row \cup {None}] /\ events[e] # None
  BY DEF PipelineInv, TypeOK, Settled, Stored
<1>1. ASSUME events'[e] = events[e] PROVE Settled(e)'
  BY <1>1, Zenon DEF Settled, Stored
<1>2. ASSUME NEW h \in Handlers, NEW f \in EventIds, Inserts(h, f)
      PROVE  events'[e] = events[e]
  <2>1. PICK row \in Row : events[f] = None /\ events' = [events EXCEPT ![f] = row]
    BY <1>2, InsertedRow DEF Inserts
  <2>. QED
    BY <1>0, <2>1
<1>3. ASSUME NEW w \in Workers, UpdateEventStatus(w), cur[w] # e
      PROVE  events'[e] = events[e]
  <2>1. PICK row \in Row : events' = [events EXCEPT ![cur[w]] = row]
    BY <1>3, UpdatedRowOfWorker, Zenon
  <2>. QED
    BY <1>0, <1>3, <2>1
<1>. QED
  BY <1>1, <1>2, <1>3, EventsStep, UpdateSettles, Zenon

(* PendingOnItsWay is preserved: a new row is about to be published, and   *)
(* no message is lost.                                                     *)
LEMMA PendingStep == PipelineInv /\ [Next]_vars => PendingOnItsWay'
<1>. SUFFICES ASSUME PipelineInv, [Next]_vars, faults' = 0, NEW e \in Stored(events')
              PROVE  Settled(e)' \/ OnItsWay(e)'
  BY DEF PendingOnItsWay
<1>1. faults' = faults \/ Fault
  BY ZenonT(60) DEF Next, HandlerStep, HandlerFault, LoopStep, WorkerFault,
         RegisterRequest, UpsertDevice, IssueToken, CheckinRequest, RecentEventFound,
         RecentEventNone, StatementFails, InsertEvent, StatementReplyLost, Publish,
         PublishFails, ApiSignal, ApiExit, ApiCrash, ApiStart, Pop, PopFails, Receive,
         GetEvent, EmbedWithScore, UpdateEventStatus, Abandon, WorkerCallFails,
         WorkerSignal, WorkerCrash, WorkerExit, WorkerStart, Evict, Tick, vars
<1>2. faults' = faults /\ faults = 0 /\ ~ Fault
  BY <1>1 DEF Fault, PipelineInv, TypeOK
<1>3. CASE e \in Stored(events)
  <2>1. e \in EventIds /\ (Settled(e) \/ OnItsWay(e))
    BY <1>2, <1>3, Zenon DEF PipelineInv, PendingOnItsWay, Stored
  <2>. QED
    BY <1>2, <2>1, SettledStays, MessageKept, Zenon
<1>4. CASE e \notin Stored(events)
  <2>1. PICK h \in Handlers : InsertEvent(h)
    <3>1. events' # events
      BY <1>4
    <3>2. ~ \E w \in Workers : UpdateEventStatus(w)
      BY <1>4, UpdateKeepsStored, Zenon
    <3>. QED
      BY <1>2, <3>1, <3>2, EventsFrame, Zenon DEF StatementReplyLost
  <2>2. PICK f \in EventIds : StoreNewEvent(h, f) /\ evt' = [evt EXCEPT ![h] = f]
    BY <2>1, Zenon DEF InsertEvent
  <2>3. PICK row \in Row : events' = [events EXCEPT ![f] = row]
    BY <2>1, <2>2, InsertedRow DEF InsertEvent
  <2>4. e = f
    BY <1>4, <2>3 DEF Stored, PipelineInv, TypeOK
  <2>5. hpc'[h] = "publish" /\ evt'[h] = e
    BY <2>1, <2>2, <2>4 DEF InsertEvent, PipelineInv, TypeOK
  <2>. QED
    BY <2>5, Zenon DEF OnItsWay
<1>. QED
  BY <1>3, <1>4

---------------------------------------------------------------------------
(* The inductive invariant holds in every state of every behaviour.        *)
THEOREM Invariance == Spec => []PipelineInv
<1>1. Init => PipelineInv
  <2>. SUFFICES ASSUME Init PROVE PipelineInv
    OBVIOUS
  <2>1. Stored(events) = {}
    BY DEF Init, Stored
  <2>2. TypeOK
    BY DEF Init, TypeOK, HandlerPC, WorkerPC
  <2>3. HandlerShape /\ WorkerShape
    BY DEF Init, HandlerShape, WorkerShape
  <2>4. MessagesNameEvents
    BY DEF Init, MessagesNameEvents, InQueue
  <2>5. DevicesRegistered
    BY <2>1 DEF Init, DevicesRegistered
  <2>6. AnswerMatchesRequest /\ LookedBeforeInserting
    BY DEF Init, AnswerMatchesRequest, LookedBeforeInserting
  <2>7. SeenStored /\ OwnEventsSeen /\ DedupSequential /\ ProcessedHasScore
    BY <2>1 DEF Init, SeenStored, OwnEventsSeen, DedupSequential, ProcessedHasScore
  <2>8. PendingOnItsWay
    BY <2>1 DEF PendingOnItsWay
  <2>. QED
    BY <2>2, <2>3, <2>4, <2>5, <2>6, <2>7, <2>8 DEF PipelineInv
<1>2. PipelineInv /\ [Next]_vars => PipelineInv'
  BY TypeStep, HandlerShapeStep, MessagesStep, DevicesStep, AnswerStep, LookedStep,
     DedupStep, OwnEventsStep, ScoreStep, PendingStep DEF PipelineInv
<1>. QED
  BY <1>1, <1>2, PTL DEF Spec

(* Every variable keeps its type.                                          *)
THEOREM TypeCorrect == Spec => []TypeOK
<1>1. PipelineInv => TypeOK
  BY DEF PipelineInv
<1>. QED
  BY <1>1, Invariance, PTL

(* Messages always name stored events, so GetEvent finds its row.          *)
THEOREM MessagesAlwaysNameEvents == Spec => []MessagesNameEvents
<1>1. PipelineInv => MessagesNameEvents
  BY DEF PipelineInv
<1>. QED
  BY <1>1, Invariance, PTL

(* InsertEvent's foreign key never fails: devices of tokens, of check-ins  *)
(* in progress and of events are registered.                               *)
THEOREM DevicesAlwaysRegistered == Spec => []DevicesRegistered
<1>1. PipelineInv => DevicesRegistered
  BY DEF PipelineInv
<1>. QED
  BY <1>1, Invariance, PTL

(* The event a check-in is answered with is one of its user and device.    *)
THEOREM AnswersMatch == Spec => []AnswerMatchesRequest
<1>1. PipelineInv => AnswerMatchesRequest
  BY DEF PipelineInv
<1>. QED
  BY <1>1, Invariance, PTL

(* Requests that do not overlap are deduplicated, for every window and     *)
(* every skew between the clocks of the API and the database.              *)
THEOREM SequentialDeduplication == Spec => []DedupSequential
<1>1. PipelineInv => DedupSequential
  BY DEF PipelineInv
<1>. QED
  BY <1>1, Invariance, PTL

(* A processed row always has a score.                                     *)
THEOREM ProcessedRowsHaveScores == Spec => []ProcessedHasScore
<1>1. PipelineInv => ProcessedHasScore
  BY DEF PipelineInv
<1>. QED
  BY <1>1, Invariance, PTL

(* As long as nothing has failed, a pending row has a message on its way.  *)
THEOREM NothingPendingForgotten == Spec => []PendingOnItsWay
<1>1. PipelineInv => PendingOnItsWay
  BY DEF PipelineInv
<1>. QED
  BY <1>1, Invariance, PTL

(* Whatever message for it is still delivered, and whatever fails: an      *)
(* event that has left "pending" never comes back to it.                   *)
THEOREM SettledForever == Spec => [][\A e \in EventIds : Settled(e) => Settled(e)']_vars
<1>1. PipelineInv /\ [Next]_vars => \A e \in EventIds : Settled(e) => Settled(e)'
  BY SettledStays
<1>. QED
  BY <1>1, Invariance, PTL DEF Spec

---------------------------------------------------------------------------
(* A NULL score changes the status of a row and nothing else.              *)
LEMMA CoalesceNull ==
    ASSUME NEW row \in Row, NEW st \in Status
    PROVE  UpdatedRow(row, st, None) = [row EXCEPT !.status = st]
<1>. DEFINE new == [row EXCEPT !.status = st]
<1>1. new \in Row /\ new.score = row.score
  BY DEF Row
<1>2. [new EXCEPT !.score = new.score] = new
  BY <1>1, Zenon DEF Row
<1>. QED
  BY <1>1, <1>2 DEF UpdatedRow

(* A step of the pipeline is a step of the life cycle or leaves the table  *)
(* unchanged.                                                              *)
LEMMA LifecycleStep == PipelineInv /\ [Next]_vars => [Lifecycle!Next]_events
<1>. SUFFICES ASSUME PipelineInv, [Next]_vars
              PROVE  [Lifecycle!Next]_events
  OBVIOUS
<1>1. ASSUME NEW h \in Handlers, NEW e \in EventIds, Inserts(h, e)
      PROVE  Lifecycle!Record(e)
  <2>1. PICK row \in Row : /\ events[e] = None
                           /\ events' = [events EXCEPT ![e] = row]
                           /\ row.status = "pending"
                           /\ row.score = None
    BY <1>1, InsertedRow DEF Inserts
  <2>2. events'[e] = row
    BY <2>1 DEF TypeOK, PipelineInv
  <2>. QED
    BY <2>1, <2>2, Zenon DEF Lifecycle!Record, Lifecycle!Row, Lifecycle!Status, Row, Status
<1>2. ASSUME NEW w \in Workers, UpdateEventStatus(w)
      PROVE  Lifecycle!Next
  <2>1. cur[w] \in EventIds /\ events[cur[w]] \in Row /\ events[cur[w]] # None
    <3>1. cur[w] \in Stored(events) /\ events[cur[w]] \in Row
      BY <1>2, UpdatedRowOfWorker
    <3>. QED
      BY <3>1, NoneIsNoRow DEF Stored
  <2>2. score[w] \in Scores \cup {None}
    BY DEF TypeOK, PipelineInv
  <2>3. CASE score[w] = None
    <3>1. UpdatedRow(events[cur[w]], "failed", score[w])
             = [events[cur[w]] EXCEPT !.status = "failed"]
      BY <2>1, <2>3, CoalesceNull DEF Status
    <3>2. events' = [events EXCEPT ![cur[w]] = UpdatedRow(@, "failed", score[w])]
      BY <1>2, <2>3, Zenon DEF UpdateEventStatus, Outcome
    <3>3. Lifecycle!Fail(cur[w])
      BY <2>1, <3>1, <3>2, Zenon DEF Lifecycle!Fail
    <3>. QED
      BY <2>1, <3>3, Zenon DEF Lifecycle!Next
  <2>4. CASE score[w] # None
    <3>1. UpdatedRow(events[cur[w]], "processed", score[w])
             = [events[cur[w]] EXCEPT !.status = "processed", !.score = score[w]]
      BY <2>4 DEF UpdatedRow
    <3>2. events' = [events EXCEPT ![cur[w]] = UpdatedRow(@, "processed", score[w])]
      BY <1>2, <2>4, Zenon DEF UpdateEventStatus, Outcome
    <3>3. Lifecycle!Process(cur[w], score[w])
      BY <2>1, <3>1, <3>2, Zenon DEF Lifecycle!Process
    <3>. QED
      BY <2>1, <2>2, <2>4, <3>3, Zenon DEF Lifecycle!Next
  <2>. QED
    BY <2>3, <2>4
<1>. QED
  BY <1>1, <1>2, EventsStep DEF Lifecycle!Next

(* The pipeline implements the abstract life cycle of an event.            *)
THEOREM LifecycleRefinement == Spec => ImplementsLifecycle
<1>1. Init => Lifecycle!Init
  BY DEF Init, Lifecycle!Init
<1>. QED
  BY <1>1, LifecycleStep, Invariance, PTL DEF Spec, ImplementsLifecycle, Lifecycle!Spec

---------------------------------------------------------------------------
(* Facts about finite sets, for what counts events and messages.           *)
INSTANCE FiniteSetTheorems

(* At most as many events of a user and device fall into one window as     *)
(* requests can be in progress: events of one goroutine have seen one      *)
(* another, so close events come from different goroutines.                *)
THEOREM BoundedDuplicates == Spec => []DedupBound
<1>1. ASSUME PipelineInv PROVE DedupBound
  <2>. SUFFICES ASSUME NEW S \in SUBSET Stored(events),
                       \A e, f \in S : /\ SameSubject(e, f)
                                       /\ events[f].when <= events[e].when + Window + Skew
                PROVE  Cardinality(S) <= Cardinality(Handlers)
    BY DEF DedupBound
  <2>. DEFINE owner == [e \in S |-> by[e]]
  <2>1. owner \in [S -> Handlers]
    BY <1>1 DEF PipelineInv, OwnEventsSeen
  <2>2. ASSUME NEW e \in S, NEW f \in S, e \in seen[f]
        PROVE  FALSE
    <3>1. events[f].when > events[e].when + Window + Skew
      BY <1>1, <2>2 DEF PipelineInv, DedupSequential
    <3>2. events[f].when <= events[e].when + Window + Skew
      OBVIOUS
    <3>3. events[e].when \in Int /\ events[f].when \in Int /\ Window \in Int /\ Skew \in Int
      BY <1>1, AttendanceConstants DEF PipelineInv, TypeOK, Stored, Row
    <3>. QED
      BY <3>1, <3>2, <3>3
  <2>3. ASSUME NEW e \in S, NEW f \in S, owner[e] = owner[f]
        PROVE  e = f
    BY <1>1, <2>2, <2>3 DEF PipelineInv, OwnEventsSeen
  <2>4. owner \in Injection(S, Handlers)
    BY <2>1, <2>3 DEF Injection, IsInjective
  <2>. QED
    BY <2>4, FS_Injection, PipelineConstants
<1>. QED
  BY <1>1, Invariance, PTL

---------------------------------------------------------------------------
(* How many places of a list, and how many workers, have the message of e. *)
InList(q, e) == Cardinality({i \in 1 .. Len(q) : q[i] = e})

AtWorkers(f, e) == Cardinality({w \in Workers : f[w] = e})

(* A list has finitely many places, and a set of workers is finite.        *)
LEMMA PlacesFinite ==
    ASSUME NEW q \in Seq(EventIds), NEW e
    PROVE  /\ IsFiniteSet({i \in 1 .. Len(q) : q[i] = e})
           /\ InList(q, e) \in Nat
<1>1. Len(q) \in Nat
  OBVIOUS
<1>2. IsFiniteSet(1 .. Len(q))
  BY <1>1, FS_Interval
<1>3. {i \in 1 .. Len(q) : q[i] = e} \in SUBSET (1 .. Len(q))
  OBVIOUS
<1>4. IsFiniteSet({i \in 1 .. Len(q) : q[i] = e})
  BY <1>2, <1>3, FS_Subset
<1>. QED
  BY <1>4, FS_CardinalityType DEF InList

(* The slot of w is overwritten with x.                                    *)
Put(f, g, w, x) == g = [f EXCEPT ![w] = x]

(* What that does to the number of workers that have e.                    *)
PutCounts(f, g, w, x, e) ==
    /\ AtWorkers(f, e) \in Nat /\ AtWorkers(g, e) \in Nat
    /\ AtWorkers(g, e) <= AtWorkers(f, e) + 1
    /\ x # e => AtWorkers(g, e) <= AtWorkers(f, e)
    /\ x # e /\ f[w] = e => AtWorkers(g, e) = AtWorkers(f, e) - 1

LEMMA SlotStep ==
    ASSUME NEW f \in [Workers -> EventIds \cup {None}],
           NEW w \in Workers, NEW x \in EventIds \cup {None}, NEW e \in EventIds,
           NEW g, Put(f, g, w, x)
    PROVE  PutCounts(f, g, w, x, e)
<1>. DEFINE F == {v \in Workers : f[v] = e}
            G == {v \in Workers : g[v] = e}
<1>1. IsFiniteSet(F) /\ IsFiniteSet(G)
  <2>1. F \in SUBSET Workers /\ G \in SUBSET Workers
    OBVIOUS
  <2>. QED
    BY <2>1, PipelineConstants, FS_Subset, Zenon
<1>2. /\ x = e => G = F \cup {w}
      /\ x # e => G = F \ {w}
  BY DEF Put
<1>3. w \in F <=> f[w] = e
  OBVIOUS
<1>4. Cardinality(F) = AtWorkers(f, e) /\ Cardinality(G) = AtWorkers(g, e)
  BY Zenon DEF AtWorkers
<1>. HIDE DEF F, G
<1>5. Cardinality(F) \in Nat /\ Cardinality(G) \in Nat
  BY <1>1, FS_CardinalityType, Zenon
<1>6. Cardinality(F \cup {w}) = IF w \in F THEN Cardinality(F) ELSE Cardinality(F) + 1
  BY <1>1, FS_AddElement, Zenon
<1>7. Cardinality(F \ {w}) = IF w \in F THEN Cardinality(F) - 1 ELSE Cardinality(F)
  BY <1>1, FS_RemoveElement, Zenon
<1>8. CASE x = e
  <2>1. Cardinality(G) = IF w \in F THEN Cardinality(F) ELSE Cardinality(F) + 1
    BY <1>2, <1>6, <1>8, Zenon
  <2>. QED
    BY <1>4, <1>5, <1>8, <2>1 DEF PutCounts
<1>9. CASE x # e
  <2>1. Cardinality(G) = IF f[w] = e THEN Cardinality(F) - 1 ELSE Cardinality(F)
    BY <1>2, <1>3, <1>7, <1>9
  <2>. QED
    BY <1>4, <1>5, <1>9, <2>1 DEF PutCounts
<1>. QED
  BY <1>8, <1>9, Zenon

(* A worker's slot is emptied.                                             *)
LEMMA SlotEmptied ==
    ASSUME NEW f \in [Workers -> EventIds \cup {None}], NEW w \in Workers,
           NEW e \in EventIds, NEW g, Put(f, g, w, None)
    PROVE  /\ AtWorkers(g, e) \in Nat
           /\ AtWorkers(g, e) <= AtWorkers(f, e)
           /\ f[w] = e => AtWorkers(g, e) = AtWorkers(f, e) - 1
<1>1. None # e
  BY AttendanceConstants
<1>2. PutCounts(f, g, w, None, e)
  BY SlotStep, Zenon
<1>. QED
  BY <1>1, <1>2, Zenon DEF PutCounts

(* LPUSH adds a place for its own message only.                            *)
LEMMA PushedPlaces ==
    ASSUME NEW q \in Seq(EventIds), NEW m \in EventIds, NEW e \in EventIds, m # e
    PROVE  /\ InList(Append(q, m), e) = InList(q, e)
           /\ InList(q \o <<m, m>>, e) = InList(q, e)
<1>. DEFINE p == q \o <<m, m>>
<1>1. Len(q) \in Nat /\ Len(Append(q, m)) = Len(q) + 1 /\ Len(p) = Len(q) + 2
  OBVIOUS
<1>2. \A i \in 1 .. Len(q) : Append(q, m)[i] = q[i] /\ p[i] = q[i]
  OBVIOUS
<1>3. Append(q, m)[Len(q) + 1] = m /\ p[Len(q) + 1] = m /\ p[Len(q) + 2] = m
  OBVIOUS
<1>. HIDE DEF p
<1>4. {i \in 1 .. Len(Append(q, m)) : Append(q, m)[i] = e} = {i \in 1 .. Len(q) : q[i] = e}
  BY <1>1, <1>2, <1>3
<1>5. {i \in 1 .. Len(p) : p[i] = e} = {i \in 1 .. Len(q) : q[i] = e}
  BY <1>1, <1>2, <1>3
<1>. QED
  BY <1>4, <1>5, Zenon DEF InList, p

(* BRPOP removes one place, the one of the message it returns.             *)
LEMMA PoppedPlaces ==
    ASSUME NEW q \in Seq(EventIds), q # <<>>, NEW e \in EventIds
    PROVE  InList(Tail(q), e) = IF Head(q) = e THEN InList(q, e) - 1 ELSE InList(q, e)
<1>. DEFINE P == {i \in 1 .. Len(q) : q[i] = e}
            T == {i \in 1 .. Len(Tail(q)) : Tail(q)[i] = e}
            shift == [i \in T |-> i + 1]
<1>1. Len(q) \in Nat /\ Len(q) >= 1 /\ Len(Tail(q)) = Len(q) - 1 /\ Head(q) = q[1]
  OBVIOUS
<1>2. \A i \in 1 .. Len(Tail(q)) : Tail(q)[i] = q[i + 1]
  BY <1>1
<1>3. Tail(q) \in Seq(EventIds)
  OBVIOUS
<1>4. shift \in Bijection(T, P \ {1})
  <2>1. shift \in Injection(T, P \ {1})
    <3>1. ASSUME NEW i \in T PROVE i + 1 \in P \ {1}
      BY <1>1, <1>2
    <3>2. \A i, j \in T : i + 1 = j + 1 => i = j
      BY <1>1
    <3>. QED
      BY <3>1, <3>2 DEF Injection, IsInjective
  <2>2. ASSUME NEW k \in P \ {1} PROVE \E i \in T : shift[i] = k
    <3>1. k - 1 \in T /\ shift[k - 1] = k
      BY <1>1, <1>2
    <3>. QED
      BY <3>1, Zenon
  <2>. HIDE DEF P, T, shift
  <2>. QED
    BY <2>1, <2>2, Zenon DEF Bijection, Surjection, Injection
<1>5. IsFiniteSet(P) /\ IsFiniteSet(T)
  BY <1>3, PlacesFinite, Zenon
<1>6. Cardinality(P \ {1}) = Cardinality(T)
  <2>. HIDE DEF P, T, shift
  <2>. QED
    BY <1>4, <1>5, FS_Bijection, Zenon DEF ExistsBijection
<1>7. Cardinality(P \ {1}) = IF 1 \in P THEN Cardinality(P) - 1 ELSE Cardinality(P)
  BY <1>5, FS_RemoveElement, Zenon
<1>8. 1 \in P <=> Head(q) = e
  BY <1>1
<1>9. InList(q, e) = Cardinality(P) /\ InList(Tail(q), e) = Cardinality(T)
  BY DEF InList
<1>. HIDE DEF P, T
<1>. QED
  BY <1>6, <1>7, <1>8, <1>9
(* Copies, counted by place.                                               *)
LEMMA CopiesByPlace ==
    ASSUME PipelineInv, [Next]_vars, NEW e \in EventIds
    PROVE  /\ Copies(e) = InList(queue, e) + AtWorkers(held, e) + AtWorkers(cur, e)
           /\ Copies(e)' = InList(queue', e) + AtWorkers(held', e) + AtWorkers(cur', e)
           /\ InList(queue, e) \in Nat /\ InList(queue', e) \in Nat
           /\ AtWorkers(held, e) \in Nat /\ AtWorkers(cur, e) \in Nat
<1>1. queue \in Seq(EventIds) /\ queue' \in Seq(EventIds)
  BY TypeStep DEF PipelineInv, TypeOK
<1>2. IsFiniteSet({w \in Workers : held[w] = e}) /\ IsFiniteSet({w \in Workers : cur[w] = e})
  <2>1. /\ {w \in Workers : held[w] = e} \in SUBSET Workers
        /\ {w \in Workers : cur[w] = e} \in SUBSET Workers
    OBVIOUS
  <2>. QED
    BY <2>1, PipelineConstants, FS_Subset, Zenon
<1>. QED
  BY <1>1, <1>2, PlacesFinite, FS_CardinalityType, Zenon DEF Copies, InList, AtWorkers

(* What a step may do to the copies of e.                                  *)
Counted(e) ==
    /\ Copies(e)' > Copies(e) =>
          \E h \in Handlers : hpc[h] = "publish" /\ evt[h] = e /\ hpc'[h] = "idle"
    /\ (e \in Stored(events) /\ events'[e] # events[e]) => Copies(e)' = Copies(e) - 1

(* The steps that move messages, and the rest.                             *)
LEMMA DeliveryCases ==
    ASSUME [Next]_vars
    PROVE  \/ UNCHANGED <<queue, held, cur>> /\ ~ \E w \in Workers : UpdateEventStatus(w)
           \/ \E h \in Handlers : Publish(h) \/ PublishFails(h)
           \/ \E w \in Workers : \/ Pop(w) \/ PopFails(w) \/ Receive(w)
                                 \/ UpdateEventStatus(w) \/ WorkerCallFails(w)
                                 \/ Abandon(w) \/ WorkerCrash(w)
           \/ Evict
  BY ZenonT(60) DEF Next, HandlerStep, HandlerFault, LoopStep, WorkerFault,
         RegisterRequest, UpsertDevice, IssueToken, CheckinRequest, RecentEventFound,
         RecentEventNone, StatementFails, InsertEvent, StatementReplyLost, ApiSignal,
         ApiExit, ApiCrash, ApiStart, GetEvent, EmbedWithScore, WorkerSignal, WorkerExit,
         WorkerStart, Tick, vars, workerVars

(* Every step treats the copies of every message so.                       *)
LEMMA DeliveryStep ==
    ASSUME PipelineInv, [Next]_vars, NEW e \in EventIds
    PROVE  Counted(e)
<1>. DEFINE Q == InList(queue, e)
            H == AtWorkers(held, e)
            C == AtWorkers(cur, e)
<1>0. /\ queue \in Seq(EventIds)
      /\ held \in [Workers -> EventIds \cup {None}]
      /\ cur \in [Workers -> EventIds \cup {None}]
  BY DEF PipelineInv, TypeOK
<1>1. /\ Copies(e) = Q + H + C
      /\ Copies(e)' = InList(queue', e) + AtWorkers(held', e) + AtWorkers(cur', e)
      /\ Q \in Nat /\ H \in Nat /\ C \in Nat /\ InList(queue', e) \in Nat
  BY CopiesByPlace
<1>2. ASSUME Copies(e)' <= Copies(e), Copies(e) \in Nat, Copies(e)' \in Nat,
             e \in Stored(events) => events'[e] = events[e]
      PROVE  Counted(e)
  <2>1. ~ (Copies(e)' > Copies(e))
    BY <1>2, NotMore, Zenon
  <2>. QED
    BY <1>2, <2>1, Zenon DEF Counted
<1>3. CASE UNCHANGED <<queue, held, cur>> /\ ~ \E w \in Workers : UpdateEventStatus(w)
  <2>1. Copies(e)' <= Copies(e) /\ Copies(e) \in Nat /\ Copies(e)' \in Nat
    BY <1>1, <1>3, SumOfThree, Zenon
  <2>2. ASSUME e \in Stored(events) PROVE events'[e] = events[e]
    <3>1. ASSUME NEW h \in Handlers, NEW f \in EventIds, Inserts(h, f)
          PROVE  events'[e] = events[e]
      <4>1. PICK row \in Row : events[f] = None /\ events' = [events EXCEPT ![f] = row]
        BY <3>1, InsertedRow DEF Inserts
      <4>. QED
        BY <2>2, <4>1 DEF Stored
    <3>. QED
      BY <1>3, <3>1, EventsStep
  <2>. QED
    BY <1>2, <2>1, <2>2, Zenon
<1>4. ASSUME NEW h \in Handlers, Publish(h) \/ PublishFails(h)
      PROVE  Counted(e)
  <2>1. /\ hpc[h] = "publish" /\ hpc'[h] = "idle" /\ events' = events
        /\ held' = held /\ cur' = cur
        /\ queue' \in {queue, Append(queue, evt[h]), queue \o <<evt[h], evt[h]>>}
    BY <1>0, <1>4 DEF Publish, PublishFails, Respond, dbVars, workerVars, PipelineInv, TypeOK
  <2>2. CASE evt[h] = e
    BY <2>1, <2>2, Zenon DEF Counted
  <2>3. CASE evt[h] # e
    <3>1. evt[h] \in EventIds
      BY <2>1, Zenon DEF PipelineInv, AnswerMatchesRequest, Stored
    <3>2. InList(queue', e) = Q
      BY <1>0, <2>1, <2>3, <3>1, PushedPlaces, Zenon
    <3>3. Copies(e)' <= Copies(e) /\ Copies(e) \in Nat /\ Copies(e)' \in Nat
      BY <1>1, <2>1, <3>2, SumOfThree, Zenon
    <3>. QED
      BY <1>2, <2>1, <3>3, Zenon
  <2>. QED
    BY <2>2, <2>3
<1>5. ASSUME NEW w \in Workers, Pop(w)
      PROVE  Counted(e)
  <2>1. /\ queue # <<>> /\ queue' = Tail(queue) /\ Head(queue) \in EventIds
        /\ Put(held, held', w, Head(queue))
        /\ cur' = cur /\ events' = events
    BY <1>0, <1>5 DEF Pop, BRPop, dbVars, Put
  <2>2. InList(queue', e) = IF Head(queue) = e THEN Q - 1 ELSE Q
    BY <1>0, <2>1, PoppedPlaces
  <2>3. /\ AtWorkers(held', e) \in Nat
        /\ AtWorkers(held', e) <= H + 1
        /\ Head(queue) # e => AtWorkers(held', e) <= H
    <3>1. PutCounts(held, held', w, Head(queue), e)
      BY <1>0, <2>1, SlotStep, Zenon
    <3>. QED
      BY <3>1, Zenon DEF PutCounts
  <2>4. Copies(e)' <= Copies(e) /\ Copies(e) \in Nat /\ Copies(e)' \in Nat
    <3>1. InList(queue', e) + AtWorkers(held', e) <= Q + H
      BY <1>1, <2>2, <2>3
    <3>. QED
      BY <1>1, <2>1, <2>3, <3>1
  <2>. QED
    BY <1>2, <2>1, <2>4, Zenon
<1>6. ASSUME NEW w \in Workers, PopFails(w)
      PROVE  Counted(e)
  <2>1. queue # <<>> /\ queue' = Tail(queue) /\ held' = held /\ cur' = cur /\ events' = events
    BY <1>6 DEF PopFails, BRPop, dbVars, workerVars
  <2>2. InList(queue', e) = IF Head(queue) = e THEN Q - 1 ELSE Q
    BY <1>0, <2>1, PoppedPlaces
  <2>3. Copies(e)' <= Copies(e) /\ Copies(e) \in Nat /\ Copies(e)' \in Nat
    BY <1>1, <2>1, <2>2
  <2>. QED
    BY <1>2, <2>1, <2>3, Zenon
<1>7. ASSUME NEW w \in Workers, Receive(w)
      PROVE  Counted(e)
  <2>1. /\ Put(held, held', w, None) /\ Put(cur, cur', w, held[w])
        /\ queue' = queue /\ events' = events /\ held[w] \in EventIds
    BY <1>0, <1>7 DEF Receive, dbVars, Put
  <2>2. /\ AtWorkers(held', e) \in Nat
        /\ AtWorkers(held', e) <= H
        /\ held[w] = e => AtWorkers(held', e) = H - 1
    BY <1>0, <2>1, SlotEmptied, Zenon
  <2>3. /\ AtWorkers(cur', e) \in Nat
        /\ AtWorkers(cur', e) <= C + 1
        /\ held[w] # e => AtWorkers(cur', e) <= C
    <3>1. PutCounts(cur, cur', w, held[w], e)
      BY <1>0, <2>1, SlotStep, Zenon
    <3>. QED
      BY <3>1, Zenon DEF PutCounts
  <2>4. Copies(e)' <= Copies(e) /\ Copies(e) \in Nat /\ Copies(e)' \in Nat
    BY <1>1, <2>1, <2>2, <2>3
  <2>. QED
    BY <1>2, <2>1, <2>4, Zenon
<1>8. ASSUME NEW w \in Workers, WorkerCallFails(w) \/ Abandon(w) \/ WorkerCrash(w)
      PROVE  Counted(e)
  <2>1. /\ held' = held \/ Put(held, held', w, None)
        /\ Put(cur, cur', w, None)
        /\ queue' = queue /\ events' = events
    BY <1>0, <1>8 DEF WorkerCallFails, Abandon, WorkerCrash, Continue, dbVars, Put
  <2>2. AtWorkers(held', e) \in Nat /\ AtWorkers(held', e) <= H
    <3>1. CASE held' = held
      BY <1>1, <3>1
    <3>2. CASE Put(held, held', w, None)
      BY <1>0, <3>2, SlotEmptied, Zenon
    <3>. QED
      BY <2>1, <3>1, <3>2
  <2>3. AtWorkers(cur', e) \in Nat /\ AtWorkers(cur', e) <= C
    BY <1>0, <2>1, SlotEmptied, Zenon
  <2>4. Copies(e)' <= Copies(e) /\ Copies(e) \in Nat /\ Copies(e)' \in Nat
    BY <1>1, <2>1, <2>2, <2>3
  <2>. QED
    BY <1>2, <2>1, <2>4, Zenon
<1>9. ASSUME NEW w \in Workers, UpdateEventStatus(w)
      PROVE  Counted(e)
  <2>1. Put(cur, cur', w, None) /\ held' = held /\ queue' = queue
    BY <1>9 DEF UpdateEventStatus, Continue, Put
  <2>2. /\ AtWorkers(cur', e) \in Nat
        /\ AtWorkers(cur', e) <= C
        /\ cur[w] = e => AtWorkers(cur', e) = C - 1
    BY <1>0, <2>1, SlotEmptied, Zenon
  <2>3. events'[e] # events[e] => cur[w] = e
    BY <1>0, <1>9, UpdatedRowOfWorker, Zenon DEF PipelineInv, TypeOK
  <2>4. /\ ~ (Copies(e)' > Copies(e))
        /\ cur[w] = e => Copies(e)' = Copies(e) - 1
    BY <1>1, <2>1, <2>2
  <2>. QED
    BY <2>3, <2>4 DEF Counted
<1>10. CASE Evict
  <2>1. queue' = <<>> /\ held' = held /\ cur' = cur /\ events' = events
    BY <1>10 DEF Evict, dbVars, workerVars
  <2>2. InList(queue', e) = 0
    <3>1. {i \in 1 .. Len(queue') : queue'[i] = e} = {}
      BY <2>1
    <3>. QED
      BY <3>1, FS_EmptySet, Zenon DEF InList
  <2>3. Copies(e)' <= Copies(e) /\ Copies(e) \in Nat /\ Copies(e)' \in Nat
    BY <1>1, <2>1, <2>2
  <2>. QED
    BY <1>2, <2>1, <2>3, Zenon
<1>. QED
  BY <1>3, <1>4, <1>5, <1>6, <1>7, <1>8, <1>9, <1>10, DeliveryCases, Zenon

(* What DeliveryAccounted says of a step and an event.                     *)
Delivers(e) ==
    /\ Copies(e)' > Copies(e) =>
          \E h \in Handlers : hpc[h] = "publish" /\ evt[h] = e /\ hpc'[h] = "idle"
    /\ (e \in Stored(events) /\ events'[e] # events[e]) => Copies(e)' = Copies(e) - 1
    /\ (OnItsWay(e) /\ faults' = faults) => (OnItsWay(e)' \/ Settled(e)')

(* A message is handed to one worker and never put back, and only a fault  *)
(* loses it: DeliveryAccounted.                                            *)
THEOREM MessagesAccountedFor == Spec => DeliveryAccounted
<1>1. ASSUME PipelineInv, [Next]_vars, NEW e \in EventIds
      PROVE  Delivers(e)
  <2>1. Counted(e)
    BY <1>1, DeliveryStep, Zenon
  <2>2. (OnItsWay(e) /\ faults' = faults) => (OnItsWay(e)' \/ Settled(e)')
    BY <1>1, MessageKept, Zenon
  <2>. QED
    BY <2>1, <2>2, Zenon DEF Counted, Delivers
<1>2. PipelineInv /\ [Next]_vars => \A e \in EventIds : Delivers(e)
  BY <1>1, Zenon
<1>. QED
  BY <1>2, Invariance, PTL DEF Spec, DeliveryAccounted, Delivers
===========================================================================
