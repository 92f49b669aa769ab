----------------------------- MODULE Dashboard -----------------------------
(***************************************************************************)
(* A check-in with a photo from end to end: the page (submitCheckin and    *)
(* pollEventStatus in src/web/static/app.js), the two endpoints it calls,  *)
(* Cloudinary, the event table and the worker.                             *)
(*                                                                         *)
(* JavaScript runs to the next await, so an action of the page is the code *)
(* between two awaits; what the user does and what other submissions do    *)
(* comes in between.  A submission is one call of submitCheckin.  The file *)
(* mode awaits the file before it disables the button, so two submissions  *)
(* can be under way.  The interleavings inside the API and the worker are  *)
(* those of CheckinPipeline; here a worker's evaluation is one step.       *)
(***************************************************************************)
EXTENDS Attendance, Sequences

CONSTANTS
    Submissions, \* calls of submitCheckin
    Photos,      \* image contents
    Face,        \* per photo: the detection score, None if there is no face
    MaxAttempts, \* maxAttempts of pollEventStatus
    MaxTime,     \* bound on the clock
    MaxFaults    \* bound on errors, losses and ended sessions

ASSUME DashboardConstants ==
    /\ Face \in [Photos -> Scores \cup {None}]
    /\ None \notin Photos
    /\ None \notin Devices
    /\ None \notin Submissions
    /\ MaxAttempts \in Nat /\ MaxTime \in Nat /\ MaxFaults \in Nat

VARIABLES
    configured, \* the API has a Cloudinary client
    images,     \* images at Cloudinary; a URL is an index
    events,     \* attendance_events
    image,      \* its column image_url
    queue,      \* event ids on the Redis list
    now,
    session,    \* the page's deviceId, the device accessToken was issued to,
                \* and whether the token has expired
    form,       \* the input fields and capturedImageData
    disabled,   \* submitBtn.disabled
    sub,        \* per submission: where it is, and its local variables
    panel,      \* the face status panel: text, score, who wrote it last
    faults

server == <<images, events, image, queue>>
page == <<session, form, disabled, sub, panel>>
vars == <<configured, server, now, page, faults>>

LoggedOut == [device |-> None, token |-> None, expired |-> FALSE]
Empty == [mode |-> "camera", user |-> None, photo |-> None]
NotYet == [pc |-> "idle", user |-> None, photo |-> None, token |-> None,
           device |-> None, final |-> None, evt |-> None, attempts |-> 0, row |-> None]

Init ==
    /\ configured \in BOOLEAN
    /\ images = <<>>
    /\ events = [e \in EventIds |-> None]
    /\ image = [e \in EventIds |-> None]
    /\ queue = <<>>
    /\ now = 0
    /\ session = LoggedOut
    /\ form = Empty
    /\ disabled = FALSE
    /\ sub = [s \in Submissions |-> NotYet]
    /\ panel = [text |-> "hidden", score |-> None, by |-> None]
    /\ faults = 0

---------------------------------------------------------------------------
(* The session and the form.                                               *)

(* registerDevice: both variables are assigned after the answer.           *)
RegisterDevice(d) ==
    /\ session.device = None
    /\ session' = [device |-> d, token |-> d, expired |-> FALSE]
    /\ UNCHANGED <<configured, server, now, form, disabled, sub, panel, faults>>

(* logout, by the user.                                                    *)
Logout ==
    /\ session.device # None
    /\ faults < MaxFaults
    /\ faults' = faults + 1
    /\ session' = LoggedOut
    /\ UNCHANGED <<configured, server, now, form, disabled, sub, panel>>

(* ACCESS_TTL passes.                                                      *)
Expire ==
    /\ session.token # None /\ ~session.expired
    /\ faults < MaxFaults
    /\ faults' = faults + 1
    /\ session' = [session EXCEPT !.expired = TRUE]
    /\ UNCHANGED <<configured, server, now, form, disabled, sub, panel>>

(* refreshEvents, every 10 seconds: a 401 ends the session.                *)
RefreshEvents ==
    /\ session.token # None /\ session.expired
    /\ session' = LoggedOut
    /\ UNCHANGED <<configured, server, now, form, disabled, sub, panel, faults>>

(* The user chooses a mode, types an id and takes or chooses a photo,      *)
(* which no await of a submission prevents.                                *)
Fill(m, u, p) ==
    /\ form' = [mode |-> m, user |-> u, photo |-> p]
    /\ UNCHANGED <<configured, server, now, session, disabled, sub, panel, faults>>

---------------------------------------------------------------------------
(* submitCheckin.                                                          *)

Go(s, pc) == sub' = [sub EXCEPT ![s].pc = pc]

(* What is left of a submission that has ended.                            *)
Ended(r) == [r EXCEPT !.pc = "done", !.token = None, !.final = None,
                      !.attempts = 0, !.row = None]

(* The upload request, with the token the page has now.                    *)
SendUpload(s, r) ==
    /\ disabled' = TRUE
    /\ sub' = [sub EXCEPT ![s] = [r EXCEPT !.pc = "upload", !.token = session]]

(* A mutated form of SendCheckin: the device is read before the upload.    *)
SendCheckinEarly(r, url) ==
    [r EXCEPT !.pc = "look", !.final = url, !.token = session,
              !.device = IF r.token = None THEN session.device ELSE r.token.device]

(* The check-in request: token and device are read at this moment.         *)
SendCheckin(r, url) ==
    [r EXCEPT !.pc = "look", !.final = url, !.token = session, !.device = session.device]

(* The form is complete and the button is not disabled.                    *)
Submit(s) ==
    /\ sub[s].pc = "idle"
    /\ session.device # None /\ ~disabled
    /\ form.user # None /\ form.photo # None
    /\ LET r == [NotYet EXCEPT !.user = form.user, !.photo = form.photo]
       IN  CASE form.mode = "upload" ->
                    /\ sub' = [sub EXCEPT ![s] = [r EXCEPT !.pc = "read"]]
                    /\ UNCHANGED disabled
             [] form.mode = "camera" -> SendUpload(s, r)
             [] form.mode = "url" ->
                    /\ disabled' = TRUE
                    /\ sub' = [sub EXCEPT ![s] =
                                  SendCheckin(r, [kind |-> "web", ref |-> form.photo])]
    /\ UNCHANGED <<configured, server, now, session, form, panel, faults>>

(* await fileToDataUrl                                                     *)
FileRead(s) ==
    /\ sub[s].pc = "read"
    /\ SendUpload(s, sub[s])
    /\ UNCHANGED <<configured, server, now, session, form, panel, faults>>

(* Does DeviceAuth let a request with this token pass?                     *)
Authorized(t) == t.token # None /\ ~t.expired

(* The finally block, after an error or an early return.                   *)
GiveUp(s) ==
    /\ sub' = [sub EXCEPT ![s] = Ended(@)]
    /\ disabled' = FALSE

(* A mutated form of Uploaded: the URL of the image stored last.           *)
UploadedLast(s) ==
    /\ sub[s].pc = "upload" /\ Authorized(sub[s].token)
    /\ images' = IF configured THEN Append(images, sub[s].photo) ELSE images
    /\ sub' = [sub EXCEPT ![s] =
                 SendCheckin(@, IF configured
                                THEN [kind |-> "cdn", ref |-> IF images = <<>> THEN 1 ELSE Len(images)]
                                ELSE [kind |-> "data", ref |-> sub[s].photo])]
    /\ UNCHANGED <<configured, events, image, queue, now, session, form, disabled, panel, faults>>

(* POST /v1/upload is answered.  200 brings the URL of the image; 503, no  *)
(* Cloudinary client, leaves the data URL; then the check-in is sent.      *)
Uploaded(s) ==
    /\ sub[s].pc = "upload" /\ Authorized(sub[s].token)
    /\ images' = IF configured THEN Append(images, sub[s].photo) ELSE images
    /\ sub' = [sub EXCEPT ![s] =
                 SendCheckin(@, IF configured
                                THEN [kind |-> "cdn", ref |-> Len(images) + 1]
                                ELSE [kind |-> "data", ref |-> sub[s].photo])]
    /\ UNCHANGED <<configured, events, image, queue, now, session, form, disabled, panel, faults>>

(* 401 is an error like any other to this fetch.                           *)
UploadDenied(s) ==
    /\ sub[s].pc = "upload" /\ ~Authorized(sub[s].token)
    /\ GiveUp(s)
    /\ UNCHANGED <<configured, server, now, session, form, panel, faults>>

(* DeviceAuth refuses the check-in: the page logs out.                     *)
CheckinDenied(s) ==
    /\ sub[s].pc = "look" /\ ~Authorized(sub[s].token)
    /\ session' = LoggedOut
    /\ GiveUp(s)
    /\ UNCHANGED <<configured, server, now, form, panel, faults>>

(* The handler compares the token with device_id (403), then looks for a   *)
(* recent event.                                                           *)
RecentEvent(s) ==
    /\ sub[s].pc = "look" /\ Authorized(sub[s].token)
    /\ LET recent == InWindow(events, sub[s].user, sub[s].device, now)
       IN  IF sub[s].token.token # sub[s].device THEN GiveUp(s)
           ELSE /\ IF recent = {} THEN Go(s, "insert")
                   ELSE \E e \in Latest(events, recent) :
                          sub' = [sub EXCEPT ![s].pc = "publish", ![s].evt = e]
                /\ UNCHANGED disabled
    /\ UNCHANGED <<configured, server, now, session, form, panel, faults>>

InsertEvent(s) ==
    /\ sub[s].pc = "insert"
    /\ \E e \in EventIds \ Stored(events) :
        /\ events' = [events EXCEPT ![e] = NewRow(sub[s].user, sub[s].device, now)]
        /\ image' = [image EXCEPT ![e] = sub[s].final]
        /\ sub' = [sub EXCEPT ![s].pc = "publish", ![s].evt = e]
    /\ UNCHANGED <<configured, images, queue, now, session, form, disabled, panel, faults>>

(* Publish, new event or not, and the 202.                                 *)
Publish(s) ==
    /\ sub[s].pc = "publish"
    /\ queue' = Append(queue, sub[s].evt)
    /\ sub' = [sub EXCEPT ![s].pc = "accepted", ![s].token = None, ![s].final = None]
    /\ UNCHANGED <<configured, images, events, image, now, session, form, disabled, panel, faults>>

(* The page shows the panel, clears the form and starts to poll.           *)
Accepted(s) ==
    /\ sub[s].pc = "accepted"
    /\ form' = [form EXCEPT !.user = None, !.photo = None]
    /\ panel' = [text |-> "processing", score |-> None, by |-> s]
    /\ disabled' = FALSE
    /\ Go(s, "poll")
    /\ UNCHANGED <<configured, server, now, session, faults>>

(* A fetch of submitCheckin fails, or its answer is an error.  What the    *)
(* request did before stays done.                                          *)
FetchFails(s) ==
    /\ sub[s].pc \in {"upload", "look", "insert", "publish", "accepted"}
    /\ faults < MaxFaults
    /\ faults' = faults + 1
    /\ GiveUp(s)
    /\ UNCHANGED <<configured, server, now, session, form, panel>>

---------------------------------------------------------------------------
(* pollEventStatus.                                                        *)

Show(s, text, score) == panel' = [text |-> text, score |-> score, by |-> s]

(* A mutated form of PollSend: the last attempt ends without a word.       *)
PollSendSilent(s) ==
    /\ sub[s].pc = "poll"
    /\ IF sub[s].attempts >= MaxAttempts \/ ~Authorized(session)
       THEN sub' = [sub EXCEPT ![s] = Ended(@)]
       ELSE sub' = [sub EXCEPT ![s].pc = "fetch", ![s].attempts = @ + 1,
                               ![s].row = events[sub[s].evt]]
    /\ UNCHANGED <<configured, server, now, session, form, disabled, panel, faults>>

(* One round: the limit is tested, or the list is fetched.  Any answer but *)
(* 200 ends the polling without a word.                                    *)
PollSend(s) ==
    /\ sub[s].pc = "poll"
    /\ IF sub[s].attempts >= MaxAttempts
       THEN /\ Show(s, "timeout", None)
            /\ sub' = [sub EXCEPT ![s] = Ended(@)]
       ELSE /\ sub' = [sub EXCEPT ![s] =
                          IF Authorized(session)
                          THEN [sub[s] EXCEPT !.pc = "fetch", !.attempts = sub[s].attempts + 1,
                                              !.row = events[sub[s].evt]]
                          ELSE Ended(sub[s])]
            /\ UNCHANGED panel
    /\ UNCHANGED <<configured, server, now, session, form, disabled, faults>>

(* A mutated form of PollReply: the first event of the list is shown, not  *)
(* the one with the id that is polled for.                                 *)
PollReplyFirst(s) ==
    /\ sub[s].pc = "fetch"
    /\ \E e \in Latest(events, Stored(events)) :
        IF events[e].status = "pending"
        THEN Show(s, "processing", None) /\ Go(s, "poll")
        ELSE Show(s, events[e].status, events[e].score) /\ sub' = [sub EXCEPT ![s] = Ended(@)]
    /\ UNCHANGED <<configured, server, now, session, form, disabled, faults>>

(* The list arrives, as it was when the server read it.                    *)
PollReply(s) ==
    /\ sub[s].pc = "fetch"
    /\ LET row == sub[s].row
       IN  CASE row.status = "processed" -> Show(s, "processed", row.score) /\ sub' = [sub EXCEPT ![s] = Ended(@)]
             [] row.status = "failed"    -> Show(s, "failed", None) /\ sub' = [sub EXCEPT ![s] = Ended(@)]
             [] row.status = "pending"   ->
                    /\ Show(s, "processing", None)
                    /\ sub' = [sub EXCEPT ![s].pc = "poll", ![s].row = None]
    /\ UNCHANGED <<configured, server, now, session, form, disabled, faults>>

PollFails(s) ==
    /\ sub[s].pc = "fetch"
    /\ faults < MaxFaults
    /\ faults' = faults + 1
    /\ sub' = [sub EXCEPT ![s] = Ended(@)]
    /\ UNCHANGED <<configured, server, now, session, form, disabled, panel>>

---------------------------------------------------------------------------
(* The worker, Redis and time.                                             *)

(* What download_image gets from a URL; requests.get knows no data: URLs.  *)
Download(url) ==
    CASE url.kind = "cdn"  -> images[url.ref]
      [] url.kind = "web"  -> url.ref
      [] url.kind = "data" -> None

(* The status and score the worker writes for an image.                    *)
Evaluation(row, url) ==
    LET photo == Download(url)
    IN  IF photo = None \/ (photo # None /\ Face[photo] = None)
        THEN UpdatedRow(row, "failed", None)
        ELSE UpdatedRow(row, "processed", Face[photo])

(* A worker takes the oldest message and evaluates the image of its event, *)
(* or fails to, or the message is lost with its worker.                    *)
Evaluate ==
    /\ queue # <<>>
    /\ queue' = Tail(queue)
    /\ events' = [events EXCEPT ![Head(queue)] = Evaluation(@, image[Head(queue)])]
    /\ UNCHANGED <<configured, images, image, now, page, faults>>

EvaluateFails ==
    /\ queue # <<>>
    /\ faults < MaxFaults
    /\ faults' = faults + 1
    /\ queue' = Tail(queue)
    /\ \E lost \in BOOLEAN :
        events' = IF lost THEN events
                  ELSE [events EXCEPT ![Head(queue)] = UpdatedRow(@, "failed", None)]
    /\ UNCHANGED <<configured, images, image, now, page>>

Tick ==
    /\ now < MaxTime
    /\ now' = now + 1
    /\ UNCHANGED <<configured, server, page, faults>>

Run(s) ==
    \/ FileRead(s) \/ Uploaded(s) \/ UploadDenied(s) \/ CheckinDenied(s)
    \/ RecentEvent(s) \/ InsertEvent(s) \/ Publish(s) \/ Accepted(s)
    \/ PollSend(s) \/ PollReply(s)

Next ==
    \/ \E d \in Devices : RegisterDevice(d)
    \/ Logout \/ Expire \/ RefreshEvents
    \/ \E m \in {"camera", "upload", "url"}, u \in Users, p \in Photos : Fill(m, u, p)
    \/ \E s \in Submissions : Submit(s) \/ Run(s) \/ FetchFails(s) \/ PollFails(s)
    \/ Evaluate \/ EvaluateFails
    \/ Tick

Spec == Init /\ [][Next]_vars

---------------------------------------------------------------------------
Pcs == {"idle", "read", "upload", "look", "insert", "publish", "accepted", "poll", "fetch", "done"}
Url == [kind : {"cdn"}, ref : DOMAIN images] \cup [kind : {"web", "data"}, ref : Photos]
Session == [device : Devices \cup {None}, token : Devices \cup {None}, expired : BOOLEAN]
Submission ==
    [pc : Pcs, user : Users \cup {None}, photo : Photos \cup {None},
     token : Session \cup {None}, device : Devices \cup {None},
     final : Url \cup {None}, evt : EventIds \cup {None},
     attempts : 0..MaxAttempts, row : Row \cup {None}]

TypeOK ==
    /\ configured \in BOOLEAN
    /\ images \in Seq(Photos)
    /\ events \in [EventIds -> Row \cup {None}]
    /\ image \in [EventIds -> Url \cup {None}]
    /\ queue \in Seq(EventIds)
    /\ now \in Nat
    /\ session \in Session
    /\ form \in [mode : {"camera", "upload", "url"}, user : Users \cup {None},
                photo : Photos \cup {None}]
    /\ disabled \in BOOLEAN
    /\ sub \in [Submissions -> Submission]
    /\ panel \in [text : {"hidden", "processing", "processed", "failed", "timeout"},
                 score : Scores \cup {None}, by : Submissions \cup {None}]
    /\ faults \in 0..MaxFaults

(* A check-in the page sends never carries another device's token, however *)
(* the user logs out and registers again while the photo is uploaded: the  *)
(* API has no cause to answer 403.                                         *)
TokenFitsDevice ==
    \A s \in Submissions :
        sub[s].pc \in {"look", "insert"} => sub[s].token.token = sub[s].device

(* The photo a URL stands for.                                             *)
Picture(url) == IF url.kind = "cdn" THEN images[url.ref] ELSE url.ref

(* The image of an event is the photo of a submission for its user and     *)
(* device, even with several uploads under way.                            *)
ImageOfSubmission ==
    \A e \in Stored(events) : \E s \in Submissions :
        /\ sub[s].user = events[e].user
        /\ sub[s].device = events[e].device
        /\ sub[s].photo = Picture(image[e])

(* A score in the panel is that of the event its submission was given, an  *)
(* event of the same user and device: neither a second submission nor a    *)
(* repeated evaluation makes the panel show another's score.               *)
PanelTruthful ==
    panel.text = "processed" =>
        LET s == sub[panel.by]
            row == events[s.evt]
        IN  /\ panel.score = row.score /\ panel.score # None
            /\ row.user = s.user /\ row.device = s.device

(* The form recovers, whichever submissions fail or overlap: while its      *)
(* button is disabled some submission that will enable it is under way, and *)
(* as long as nothing fails and the session lasts, the panel is not left at *)
(* "Processing...", because the submission that wrote it still polls.       *)
FormRecovers ==
    /\ disabled => \E s \in Submissions :
        sub[s].pc \in {"upload", "look", "insert", "publish", "accepted"}
    /\ panel.text = "processing" /\ faults = 0 => sub[panel.by].pc \in {"poll", "fetch"}

---------------------------------------------------------------------------
(* The invariant of the proofs.                                            *)

(* What a submission knows at each point.  Once it has an event, it does   *)
(* not change it, and what it knows about the event stays true.            *)
SubmissionOK(r) ==
    /\ r.pc \notin {"idle", "done"} => r.user \in Users /\ r.photo \in Photos
    /\ r.pc \in {"upload", "look", "insert"} => r.token \in Session
    /\ r.pc \in {"look", "insert"} => /\ r.token.token = r.device
                                     /\ r.final \in Url /\ Picture(r.final) = r.photo
    /\ r.pc = "insert" => r.device \in Devices
    /\ r.pc \in {"idle", "read", "upload", "look", "insert"} => r.evt = None
    /\ r.pc \in {"publish", "accepted", "poll", "fetch"} => r.evt # None
    /\ r.evt # None => /\ events[r.evt] # None
                       /\ events[r.evt].user = r.user /\ events[r.evt].device = r.device
    /\ r.pc = "fetch" =>
        /\ r.row # None
        /\ r.row.status = "processed" =>
            r.row.score # None /\ r.row.score = events[r.evt].score

(* A stored event has an image, of the submission that was given the event *)
(* when it was inserted, and its score is the image's.                     *)
EventOK(e) ==
    /\ image[e] \in Url
    /\ \E s \in Submissions :
        /\ sub[s].evt = e /\ sub[s].device = events[e].device
        /\ sub[s].user = events[e].user /\ sub[s].photo = Picture(image[e])
    /\ events[e].status = "processed" => events[e].score # None
    /\ events[e].score # None => events[e].score = Face[Picture(image[e])]

(* While nothing has failed, no session ends.                              *)
SessionLasts ==
    faults = 0 =>
        /\ ~session.expired
        /\ \A s \in Submissions :
            /\ sub[s].pc # "idle" => session.token # None
            /\ sub[s].pc \in {"upload", "look"} => Authorized(sub[s].token)

DashboardInv ==
    /\ TypeOK
    /\ session.token = session.device
    /\ \A s \in Submissions : SubmissionOK(sub[s])
    /\ \A e \in Stored(events) : EventOK(e)
    /\ \A i \in DOMAIN queue : events[queue[i]] # None
    /\ panel.text # "hidden" => panel.by \in Submissions
    /\ panel.text = "processed" => sub[panel.by].evt # None
    /\ PanelTruthful
    /\ SessionLasts
    /\ FormRecovers
===========================================================================
