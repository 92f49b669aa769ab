---------------------------- MODULE Attendance ----------------------------
(***************************************************************************)
(* The table attendance_events and the statements that                     *)
(* src/internal/attendance/repo.go runs on it, as operators on a function  *)
(* from event ids to rows.  A statement is atomic (Postgres runs each in   *)
(* its own transaction); what interleaves with what is decided by the      *)
(* modules that use these operators.                                       *)
(*                                                                         *)
(* location, image_url and created_at are written once and read back       *)
(* unchanged, so no row carries them.                                      *)
(***************************************************************************)
EXTENDS Integers, FiniteSets

CONSTANTS
    Users,      \* values of user_id
    Devices,    \* values of device_id
    EventIds,   \* the UUIDs that uuid.NewString may return
    Scores,     \* the match scores the face service may return
    None,       \* SQL NULL, Go nil: no row, no score, no message, no request
    Window,     \* dedupWindow, in ticks of the clock
    Skew        \* clock of the API host minus clock of the database host

ASSUME AttendanceConstants ==
    /\ Window \in Nat
    /\ Skew \in Int
    /\ None \notin Scores
    /\ None \notin EventIds
    /\ None \notin Users

Status == {"pending", "processed", "failed"}

(* A row of attendance_events, and the type Event that mirrors it.         *)
Row == [user : Users, device : Devices, when : Int,
        status : Status, score : Scores \cup {None}]

ASSUME NoneIsNoRow == None \notin Row

Stored(events) == {e \in EventIds : events[e] # None}

(* A mutated form of Fresh: occurred_at > NOW() - window.                  *)
FreshStrict(when, now) == when > now - Window

(* occurred_at >= NOW() - window                                           *)
Fresh(when, now) == when >= now - Window

(* The rows RecentEvent's WHERE clause keeps at database time now.         *)
InWindow(events, u, d, now) ==
    {e \in Stored(events) :
        /\ events[e].user = u
        /\ events[e].device = d
        /\ Fresh(events[e].when, now)}

(* ORDER BY occurred_at DESC LIMIT 1: any of the latest rows.              *)
Latest(events, ids) ==
    {e \in ids : \A f \in ids : events[e].when >= events[f].when}

(* A mutated form of NewRow: nobody sets the status.                       *)
NewRowNoStatus(u, d, t) ==
    [user |-> u, device |-> d, when |-> t, status |-> "", score |-> None]

(* The row CheckIn builds and InsertEvent writes.                          *)
NewRow(u, d, t) ==
    [user |-> u, device |-> d, when |-> t, status |-> "pending", score |-> None]

(* A mutated form of UpdatedRow: SET match_score = $3, without COALESCE.   *)
UpdatedRowNoCoalesce(row, st, sc) ==
    [row EXCEPT !.status = st, !.score = sc]

(* UpdateEventStatus: a NULL score leaves match_score as it is.            *)
UpdatedRow(row, st, sc) ==
    [row EXCEPT !.status = st, !.score = IF sc = None THEN row.score ELSE sc]
===========================================================================
