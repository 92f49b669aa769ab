-------------------------- MODULE EventLifecycle ---------------------------
(***************************************************************************)
(* What the attendance table promises its readers (GET /v1/events, the     *)
(* dashboard): an event appears once, as "pending", for good; its user,    *)
(* device and time never change; every evaluation of its image either      *)
(* marks it "processed" with a score or marks it "failed" and keeps the    *)
(* score of an earlier success; it is never "pending" again.               *)
(***************************************************************************)
EXTENDS Attendance

VARIABLE table

Init == table = [e \in EventIds |-> None]

Record(e) ==
    /\ table[e] = None
    /\ table'[e] \in Row
    /\ table'[e].status = "pending"
    /\ table'[e].score = None
    /\ table' = [table EXCEPT ![e] = table'[e]]

Process(e, s) ==
    /\ table[e] # None
    /\ table' = [table EXCEPT ![e] = [@ EXCEPT !.status = "processed", !.score = s]]

Fail(e) ==
    /\ table[e] # None
    /\ table' = [table EXCEPT ![e] = [@ EXCEPT !.status = "failed"]]

Next ==
    \E e \in EventIds :
        \/ Record(e)
        \/ \E s \in Scores : Process(e, s)
        \/ Fail(e)

Spec == Init /\ [][Next]_table
===========================================================================
