------------------------------ MODULE Camera -------------------------------
(***************************************************************************)
(* The camera of the check-in form in src/web/static/app.js.  startCamera  *)
(* awaits the browser twice, for permission and for the video to play;     *)
(* between its parts the user may press any button that is not disabled.   *)
(***************************************************************************)
EXTENDS Integers, FiniteSets

CONSTANTS
    Calls,      \* calls of startCamera; a call names the stream it is given
    None

NoneIsNoCall == None \notin Calls

VARIABLES
    mode,       \* currentInputMode
    stream,     \* cameraStream, which is also what the video plays
    live,       \* the streams with running tracks
    call,       \* per call: "no", "permission", "play", "over"
    button,     \* what startBtn does: "start" or "stop"
    capturing,  \* captureBtn is enabled
    captured,   \* capturedImageData # null
    overlapped  \* startCamera was called when a call was pending or a
                \* camera was running

vars == <<mode, stream, live, call, button, capturing, captured, overlapped>>

Init ==
    /\ mode = "camera"
    /\ stream = None
    /\ live = {}
    /\ call = [c \in Calls |-> "no"]
    /\ button = "start"
    /\ capturing = FALSE
    /\ captured = FALSE
    /\ overlapped = FALSE

Pending == {c \in Calls : call[c] \in {"permission", "play"}}

(* startCamera up to getUserMedia.                                         *)
startCamera(c) ==
    /\ call[c] = "no"
    /\ call' = [call EXCEPT ![c] = "permission"]
    /\ overlapped' = (overlapped \/ Pending # {} \/ stream # None)

(* A mutated form of stopCamera: the tracks run on.                        *)
stopCameraTracksRun ==
    /\ stream' = None
    /\ button' = "start"
    /\ capturing' = FALSE
    /\ UNCHANGED live

stopCamera ==
    /\ live' = live \ {stream}
    /\ stream' = None
    /\ button' = "start"
    /\ capturing' = FALSE

StartButton(c) ==
    /\ mode = "camera" /\ button = "start"
    /\ startCamera(c)
    /\ UNCHANGED <<mode, stream, live, button, capturing, captured>>

(* getUserMedia resolves: the variable and the video get the stream.       *)
Granted(c) ==
    /\ call[c] = "permission"
    /\ stream' = c
    /\ live' = live \cup {c}
    /\ call' = [call EXCEPT ![c] = "play"]
    /\ UNCHANGED <<mode, button, capturing, captured, overlapped>>

(* getUserMedia is refused, or play fails: the stream is kept.             *)
Rejected(c) ==
    /\ c \in Pending
    /\ call' = [call EXCEPT ![c] = "over"]
    /\ UNCHANGED <<mode, stream, live, button, capturing, captured, overlapped>>

(* play resolves, perhaps just before the stream was taken away.           *)
Played(c) ==
    /\ call[c] = "play"
    /\ call' = [call EXCEPT ![c] = "over"]
    /\ button' = "stop"
    /\ capturing' = TRUE
    /\ UNCHANGED <<mode, stream, live, captured, overlapped>>

StopButton ==
    /\ mode = "camera" /\ button = "stop"
    /\ stopCamera
    /\ UNCHANGED <<mode, call, captured, overlapped>>

setInputMode(m) ==
    /\ mode' = m
    /\ IF m # "camera" /\ stream # None THEN stopCamera
       ELSE UNCHANGED <<stream, live, button, capturing>>
    /\ UNCHANGED <<call, captured, overlapped>>

capturePhoto ==
    /\ mode = "camera" /\ capturing
    /\ IF stream # None THEN captured' = TRUE /\ stopCamera
       ELSE UNCHANGED <<stream, live, button, capturing, captured>>
    /\ UNCHANGED <<mode, call, overlapped>>

retakePhoto(c) ==
    /\ mode = "camera" /\ captured
    /\ captured' = FALSE
    /\ startCamera(c)
    /\ UNCHANGED <<mode, stream, live, button, capturing>>

(* submitCheckin was accepted and clears the form.                         *)
Submitted ==
    /\ captured
    /\ captured' = FALSE
    /\ UNCHANGED <<mode, stream, live, call, button, capturing, overlapped>>

Next ==
    \/ \E c \in Calls :
        StartButton(c) \/ Granted(c) \/ Rejected(c) \/ Played(c) \/ retakePhoto(c)
    \/ StopButton \/ capturePhoto \/ Submitted
    \/ \E m \in {"camera", "upload", "url"} : setInputMode(m)

Spec == Init /\ [][Next]_vars

---------------------------------------------------------------------------
(* A stream is lost, running with no button to stop it, only if            *)
(* startCamera was called again too early: as long as the user waits for   *)
(* the camera, what runs is what cameraStream names.                       *)
NoLostStream == ~overlapped => live = {stream} \ {None}

(* The invariant of the proof: a call that waits for permission is the     *)
(* only one, and nothing runs yet.                                         *)
CameraInv ==
    /\ stream \in Calls \cup {None}
    /\ call \in [Calls -> {"no", "permission", "play", "over"}]
    /\ NoLostStream
    /\ ~overlapped => \A c \in Calls :
         call[c] = "permission" => stream = None /\ Pending = {c}
===========================================================================
