---------------------------- MODULE CheckinForm ----------------------------
(***************************************************************************)
(* The check-in form of the page: its submissions (Dashboard) and its      *)
(* camera (Camera).  All that a submission takes from the camera is the    *)
(* photo, which Fill of Dashboard chooses freely, so a behaviour is about  *)
(* one of the two and the other rests.                                     *)
(***************************************************************************)
EXTENDS Dashboard

CONSTANT Calls

VARIABLES
    part,       \* the part that is looked at
    mode, stream, live, call, button, capturing, captured, overlapped

Cam == INSTANCE Camera

ASSUME CallsAssumption == Cam!NoneIsNoCall

cameraVars == <<mode, stream, live, call, button, capturing, captured, overlapped>>

FormInit ==
    /\ part \in {"submission", "camera"}
    /\ Init
    /\ Cam!Init

FormNext ==
    \/ part = "submission" /\ Next /\ UNCHANGED <<part, cameraVars>>
    \/ part = "camera" /\ Cam!Next /\ UNCHANGED <<part, vars>>

FormSpec == FormInit /\ [][FormNext]_<<part, vars, cameraVars>>

---------------------------------------------------------------------------
(* As long as the user waits for a started camera, no stream runs that     *)
(* cameraStream does not name.                                             *)
NoLostStream == Cam!NoLostStream
===========================================================================
