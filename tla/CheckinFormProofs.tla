------------------------- MODULE CheckinFormProofs -------------------------
(***************************************************************************)
(* Proofs about the check-in form, for any number of submissions, devices, *)
(* events and faults: first its submissions (Dashboard), then its camera.  *)
(***************************************************************************)
EXTENDS CheckinForm, TLAPS

(* Unless it names its prover, a leaf is tried with SMT, with Zenon, and   *)
(* with SMT again for longer.                                              *)
USE SMTT(30), ZenonT(30), SMTT(60)

---------------------------------------------------------------------------
(* What every step leaves as it is.                                        *)

(* Cloudinary only adds images; a stored event keeps its user and device,  *)
(* and its score once it has one.                                          *)
Grow ==
    /\ \A i \in DOMAIN images : i \in DOMAIN images' /\ images'[i] = images[i]
    /\ \A e \in Stored(events) :
        /\ events'[e] # None
        /\ events'[e].user = events[e].user /\ events'[e].device = events[e].device
        /\ events[e].score # None => events'[e].score = events[e].score

(* A submission that was given an event keeps it, and what it sent.        *)
SubsKeep ==
    \A t \in Submissions : sub[t].evt # None =>
        /\ sub'[t].evt = sub[t].evt /\ sub'[t].user = sub[t].user
        /\ sub'[t].device = sub[t].device /\ sub'[t].photo = sub[t].photo

(* The part of DashboardInv about the panel.                               *)
PanelOK ==
    /\ panel.text # "hidden" => panel.by \in Submissions
    /\ panel.text = "processed" => sub[panel.by].evt # None
    /\ PanelTruthful

(* URLs and what they stand for.                                           *)
LEMMA UrlsKept ==
    ASSUME Grow, NEW u \in Url
    PROVE  u \in Url' /\ Picture(u)' = Picture(u)
  BY DEF Grow, Url, Picture

(* A step that changes nothing of the server.                              *)
LEMMA ServerRests ==
    ASSUME DashboardInv, UNCHANGED <<images, events>>
    PROVE  Grow
  BY DEF DashboardInv, TypeOK, Grow, Stored

(* Submissions that a step does not touch know what they knew.             *)
LEMMA OtherSubmissions ==
    ASSUME DashboardInv, Grow, NEW t \in Submissions, sub'[t] = sub[t]
    PROVE  SubmissionOK(sub[t])'
<1>. DEFINE r == sub[t]
<1>1. SubmissionOK(r) /\ r \in Submission
  BY DEF DashboardInv, TypeOK
<1>2. r.final \in Url => r.final \in Url' /\ Picture(r.final)' = Picture(sub[t].final)
  BY DEF Grow, Url, Picture
<1>3. r.evt # None => r.evt \in Stored(events)
  BY <1>1 DEF SubmissionOK, Submission, Stored
<1>. QED
  BY <1>1, <1>2, <1>3 DEF SubmissionOK, Grow, Session

(* A step of one submission.                                               *)
LEMMA OneSubmission ==
    ASSUME DashboardInv, Grow, NEW s \in Submissions,
           \A t \in Submissions \ {s} : sub'[t] = sub[t],
           SubmissionOK(sub[s])'
    PROVE  \A t \in Submissions : SubmissionOK(sub[t])'
  BY OtherSubmissions

(* Events that a step does not touch.                                      *)
LEMMA OtherEvents ==
    ASSUME DashboardInv, Grow, SubsKeep, NEW e \in Stored(events),
           events'[e] = events[e], image'[e] = image[e]
    PROVE  EventOK(e)'
<1>1. EventOK(e) /\ e \in EventIds
  BY DEF DashboardInv, Stored
<1>2. image[e] \in Url /\ image[e] \in Url'
  BY <1>1, UrlsKept DEF EventOK
<1>3. Picture(image[e])' = Picture(image[e])
  BY <1>2 DEF Grow, Url, Picture
<1>4. PICK s \in Submissions :
        /\ sub[s].evt = e /\ sub[s].device = events[e].device
        /\ sub[s].user = events[e].user /\ sub[s].photo = Picture(image[e])
  BY <1>1 DEF EventOK
<1>5. /\ sub'[s].evt = e /\ sub'[s].device = sub[s].device
      /\ sub'[s].user = sub[s].user /\ sub'[s].photo = sub[s].photo
  BY <1>1, <1>4, AttendanceConstants DEF SubsKeep
<1>. QED
  BY <1>1, <1>2, <1>3, <1>4, <1>5 DEF EventOK

(* No step touches an event.                                               *)
LEMMA EventsRest ==
    ASSUME DashboardInv, Grow, SubsKeep, UNCHANGED <<events, image>>
    PROVE  \A e \in Stored(events)' : EventOK(e)'
<1>1. Stored(events)' = Stored(events)
  BY DEF Stored
<1>. QED
  BY <1>1, OtherEvents

(* A panel that is not written stays true.                                 *)
LEMMA PanelRests ==
    ASSUME DashboardInv, Grow, SubsKeep, UNCHANGED panel
    PROVE  PanelOK'
<1>1. PanelOK
  BY DEF DashboardInv, PanelOK
<1>2. ASSUME panel.text = "processed"
      PROVE  /\ sub'[panel.by].evt # None
             /\ PanelTruthful'
  <2>. DEFINE s == panel.by
  <2>1. /\ s \in Submissions /\ sub[s].evt # None /\ sub[s] \in Submission
        /\ panel.score = events[sub[s].evt].score /\ panel.score # None
        /\ events[sub[s].evt].user = sub[s].user /\ events[sub[s].evt].device = sub[s].device
    BY <1>1, <1>2 DEF PanelOK, PanelTruthful, DashboardInv, TypeOK
  <2>2. sub[s].evt \in Stored(events)
    BY <2>1 DEF DashboardInv, SubmissionOK, Submission, Stored
  <2>3. /\ sub'[s].evt = sub[s].evt /\ sub'[s].user = sub[s].user
        /\ sub'[s].device = sub[s].device
    BY <2>1 DEF SubsKeep
  <2>. QED
    BY <2>1, <2>2, <2>3 DEF Grow, PanelTruthful
<1>. QED
  BY <1>1, <1>2 DEF PanelOK, PanelTruthful

(* The worker's messages still name events.                                *)
LEMMA QueueRests ==
    ASSUME DashboardInv, Grow, UNCHANGED queue
    PROVE  \A i \in DOMAIN queue' : events'[queue'[i]] # None
<1>1. \A i \in DOMAIN queue : queue[i] \in Stored(events)
  BY DEF DashboardInv, TypeOK, Stored
<1>. QED
  BY <1>1 DEF Grow

---------------------------------------------------------------------------
(* The session and the form.                                               *)

(* What the user does to the session and the form, and time, touch no      *)
(* submission.                                                             *)
LEMMA UserSteps ==
    ASSUME DashboardInv, UNCHANGED <<configured, server, disabled, sub, panel>>,
           session' \in Session, session'.token = session'.device,
           form' \in [mode : {"camera", "upload", "url"}, user : Users \cup {None},
                      photo : Photos \cup {None}],
           now' \in Nat, faults' \in 0..MaxFaults,
           faults' = 0 =>
              /\ faults = 0 /\ ~session'.expired
              /\ session.token # None => session'.token # None
    PROVE  DashboardInv'
<1>1. UNCHANGED <<images, events, image, queue>>
  BY DEF server
<1>2. Grow /\ SubsKeep
  BY <1>1, ServerRests DEF SubsKeep
<1>3. TypeOK'
  BY <1>1 DEF DashboardInv, TypeOK, Submission, Url, Session
<1>4. \A t \in Submissions : SubmissionOK(sub[t])'
  BY <1>2, OtherSubmissions
<1>5. PanelOK'
  BY <1>2, PanelRests
<1>6. SessionLasts'
  BY DEF DashboardInv, SessionLasts, Authorized
<1>7. FormRecovers'
  BY DEF DashboardInv, FormRecovers
<1>. QED
  BY <1>1, <1>2, <1>3, <1>4, <1>5, <1>6, <1>7, EventsRest, QueueRests
     DEF DashboardInv, PanelOK

---------------------------------------------------------------------------
(* The steps of one submission.                                            *)

Busy == {"upload", "look", "insert", "publish", "accepted"}

(* s moves, and no other submission.                                       *)
Moves(s) ==
    /\ sub' \in [Submissions -> Submission']
    /\ \A t \in Submissions \ {s} : sub'[t] = sub[t]
    /\ SubmissionOK(sub[s])'
    /\ sub[s].evt # None =>
        /\ sub'[s].evt = sub[s].evt /\ sub'[s].user = sub[s].user
        /\ sub'[s].device = sub[s].device /\ sub'[s].photo = sub[s].photo

(* The page is left with a session that lasts, a button that some          *)
(* submission will enable, and a panel whose writer still polls.           *)
LEMMA FormStep ==
    ASSUME DashboardInv, NEW s \in Submissions, Moves(s),
           disabled' => disabled \/ sub'[s].pc \in Busy,
           sub[s].pc \in Busy => ~disabled' \/ sub'[s].pc \in Busy,
           faults' = 0 /\ panel'.text = "processing" /\ panel'.by = s
              => sub'[s].pc \in {"poll", "fetch"},
           panel' # panel => panel'.by = s,
           faults' = 0 => faults = 0
    PROVE  FormRecovers'
<1>1. ASSUME disabled'
      PROVE  \E t \in Submissions : sub'[t].pc \in Busy
  <2>1. CASE sub'[s].pc \in Busy
    BY <2>1
  <2>2. CASE sub'[s].pc \notin Busy
    <3>1. disabled /\ sub[s].pc \notin Busy
      BY <1>1, <2>2
    <3>2. PICK t \in Submissions : sub[t].pc \in Busy
      BY <3>1 DEF DashboardInv, FormRecovers, Busy
    <3>. QED
      BY <3>1, <3>2 DEF Moves
  <2>. QED
    BY <2>1, <2>2
<1>2. ASSUME panel'.text = "processing", faults' = 0
      PROVE  sub'[panel'.by].pc \in {"poll", "fetch"}
  <2>1. CASE panel'.by = s
    BY <1>2, <2>1
  <2>2. CASE panel'.by # s
    <3>1. panel' = panel /\ faults = 0
      BY <1>2, <2>2
    <3>2. panel.by \in Submissions /\ sub[panel.by].pc \in {"poll", "fetch"}
      BY <1>2, <3>1 DEF DashboardInv, FormRecovers
    <3>. QED
      BY <2>2, <3>1, <3>2 DEF Moves
  <2>. QED
    BY <2>1, <2>2
<1>. QED
  BY <1>1, <1>2 DEF FormRecovers, Busy

(* The session lasts while nothing has failed.                             *)
LEMMA SessionStep ==
    ASSUME DashboardInv, NEW s \in Submissions, Moves(s),
           faults' = 0 =>
             /\ faults = 0 /\ session' = session
             /\ session.token # None
             /\ sub'[s].pc \in {"upload", "look"} => Authorized(sub'[s].token)
    PROVE  SessionLasts'
  BY DEF DashboardInv, SessionLasts, Moves, Authorized

(* A step of the page that does not change the server.                     *)
LEMMA PageStep ==
    ASSUME DashboardInv, NEW s \in Submissions, Moves(s),
           UNCHANGED <<configured, server, now>>,
           session' \in Session, session'.token = session'.device,
           form' \in [mode : {"camera", "upload", "url"}, user : Users \cup {None},
                      photo : Photos \cup {None}],
           disabled' \in BOOLEAN,
           panel' \in [text : {"hidden", "processing", "processed", "failed", "timeout"},
                       score : Scores \cup {None}, by : Submissions \cup {None}],
           faults' \in 0..MaxFaults,
           panel' = panel \/ PanelOK', SessionLasts', FormRecovers'
    PROVE  DashboardInv'
<1>1. UNCHANGED <<images, events, image, queue>>
  BY DEF server
<1>2. Grow /\ SubsKeep
  BY <1>1, ServerRests DEF SubsKeep, Moves
<1>3. TypeOK'
  BY <1>1 DEF DashboardInv, TypeOK, Moves, Url
<1>4. \A t \in Submissions : SubmissionOK(sub[t])'
  BY <1>2, OneSubmission DEF Moves
<1>5. PanelOK'
  BY <1>2, PanelRests
<1>. QED
  BY <1>1, <1>2, <1>3, <1>4, <1>5, EventsRest, QueueRests DEF DashboardInv, PanelOK

(* The types of a step that changes submissions only.                      *)
LEMMA TypesKept ==
    ASSUME DashboardInv
    PROVE  /\ session \in Session /\ session.token = session.device
           /\ form \in [mode : {"camera", "upload", "url"}, user : Users \cup {None},
                        photo : Photos \cup {None}]
           /\ disabled \in BOOLEAN
           /\ panel \in [text : {"hidden", "processing", "processed", "failed", "timeout"},
                         score : Scores \cup {None}, by : Submissions \cup {None}]
           /\ faults \in Nat /\ faults \in 0..MaxFaults /\ MaxFaults \in Nat
           /\ sub \in [Submissions -> Submission]
           /\ \A s \in Submissions : sub[s] \in Submission /\ SubmissionOK(sub[s])
  BY DashboardConstants DEF DashboardInv, TypeOK

(* A submission ends.                                                      *)
LEMMA EndedFields ==
    ASSUME NEW r \in Submission
    PROVE  /\ Ended(r) \in Submission /\ Ended(r).pc = "done"
           /\ Ended(r).user = r.user /\ Ended(r).photo = r.photo
           /\ Ended(r).device = r.device /\ Ended(r).evt = r.evt
<1>1. 0 \in 0..MaxAttempts
  BY DashboardConstants
<1>. QED
  BY <1>1, Zenon DEF Ended, Submission, Pcs

LEMMA EndMoves ==
    ASSUME DashboardInv, NEW s \in Submissions, UNCHANGED <<images, events>>,
           sub' = [sub EXCEPT ![s] = Ended(@)]
    PROVE  Moves(s) /\ sub'[s].pc = "done"
<1>1. sub \in [Submissions -> Submission] /\ sub[s] \in Submission /\ SubmissionOK(sub[s])
  BY TypesKept
<1>2. sub'[s] = Ended(sub[s])
  BY <1>1
<1>3. Submission' = Submission
  BY DEF Submission, Url
<1>4. /\ sub'[s] \in Submission /\ sub'[s].pc = "done"
      /\ sub'[s].user = sub[s].user /\ sub'[s].photo = sub[s].photo
      /\ sub'[s].device = sub[s].device /\ sub'[s].evt = sub[s].evt
  BY <1>1, <1>2, EndedFields
<1>5. SubmissionOK(sub[s])'
  BY <1>1, <1>4 DEF SubmissionOK
<1>. QED
  BY <1>1, <1>3, <1>4, <1>5 DEF Moves

(* A submission that fails, or whose session is gone, gives up and enables *)
(* the button.                                                             *)
LEMMA GiveUpKeeps ==
    ASSUME DashboardInv, NEW s \in Submissions, GiveUp(s),
           UNCHANGED <<configured, server, now, form, panel>>,
           session' \in {session, LoggedOut}, faults' \in 0..MaxFaults,
           faults' # 0, sub[s].pc \notin {"poll", "fetch"}
    PROVE  DashboardInv'
<1>1. UNCHANGED <<images, events>>
  BY DEF server
<1>2. Moves(s) /\ sub'[s].pc = "done" /\ disabled' = FALSE
  BY <1>1, EndMoves, Zenon DEF GiveUp
<1>3. session' \in Session /\ session'.token = session'.device
  <2>1. LoggedOut \in Session /\ LoggedOut.token = LoggedOut.device
    BY DEF LoggedOut, Session
  <2>. QED
    BY <2>1, TypesKept
<1>4. SessionLasts'
  BY <1>2, SessionStep
<1>5. FormRecovers'
  BY <1>2, FormStep
<1>. QED
  BY <1>2, <1>3, <1>4, <1>5, TypesKept, PageStep, Zenon

---------------------------------------------------------------------------
(* submitCheckin.                                                          *)

(* A submission before it sends anything, and what the two requests make   *)
(* of it.                                                                  *)
Filled(u, p) == [NotYet EXCEPT !.user = u, !.photo = p]

LEMMA FreshFields ==
    ASSUME NEW u \in Users, NEW p \in Photos
    PROVE  /\ Filled(u, p) \in Submission /\ Filled(u, p).pc = "idle"
           /\ Filled(u, p).user = u /\ Filled(u, p).photo = p /\ Filled(u, p).evt = None
<1>1. 0 \in 0..MaxAttempts
  BY DashboardConstants
<1>2. NotYet \in Submission /\ NotYet.pc = "idle" /\ NotYet.evt = None
  BY <1>1 DEF NotYet, Submission, Pcs
<1>. QED
  BY <1>2, Zenon DEF Submission, Filled

LEMMA PublishFields ==
    ASSUME NEW r \in Submission, NEW e \in EventIds
    PROVE  LET q == [r EXCEPT !.pc = "publish", !.evt = e]
           IN  /\ q \in Submission /\ q.pc = "publish" /\ q.evt = e
               /\ q.user = r.user /\ q.device = r.device /\ q.photo = r.photo
  BY Zenon DEF Submission, Pcs

LEMMA UploadFields ==
    ASSUME NEW r \in Submission, session \in Session
    PROVE  LET q == [r EXCEPT !.pc = "upload", !.token = session]
           IN  /\ q \in Submission /\ q.pc = "upload" /\ q.token = session
               /\ q.user = r.user /\ q.photo = r.photo /\ q.evt = r.evt
  BY Zenon DEF Submission, Pcs

(* What a submission has when it sends the upload.                         *)
LEMMA UploadMoves ==
    ASSUME DashboardInv, NEW s \in Submissions, UNCHANGED <<images, events>>,
           NEW r \in Submission, r.user \in Users, r.photo \in Photos, r.evt = None,
           sub[s].evt = None, SendUpload(s, r)
    PROVE  Moves(s) /\ sub'[s].pc = "upload" /\ sub'[s].token = session
<1>1. sub \in [Submissions -> Submission] /\ session \in Session
  BY TypesKept
<1>2. Submission' = Submission
  BY DEF Submission, Url
<1>. DEFINE q == [r EXCEPT !.pc = "upload", !.token = session]
<1>3. sub' = [sub EXCEPT ![s] = q]
  BY DEF SendUpload
<1>4. sub'[s] = q /\ \A t \in Submissions \ {s} : sub'[t] = sub[t]
  BY <1>1, <1>3
<1>5. /\ q \in Submission /\ q.pc = "upload" /\ q.token = session
      /\ q.user = r.user /\ q.photo = r.photo /\ q.evt = r.evt
  BY <1>1, UploadFields, Zenon
<1>6. sub' \in [Submissions -> Submission']
  BY <1>1, <1>2, <1>3, <1>5
<1>7. SubmissionOK(sub[s])'
  BY <1>1, <1>4, <1>5 DEF SubmissionOK, Session
<1>. QED
  BY <1>4, <1>5, <1>6, <1>7 DEF Moves

(* What a submission has when it sends the check-in.                       *)
LEMMA CheckinMoves ==
    ASSUME DashboardInv, Grow, NEW s \in Submissions,
           NEW r \in Submission', r.user \in Users, r.photo \in Photos, r.evt = None,
           sub[s].evt = None, NEW url \in Url', Picture(url)' = r.photo,
           UNCHANGED session,
           sub' = [sub EXCEPT ![s] = SendCheckin(r, url)]
    PROVE  Moves(s) /\ sub'[s].pc = "look" /\ sub'[s].token = session
<1>1. sub \in [Submissions -> Submission] /\ session \in Session /\ session.token = session.device
  BY TypesKept
<1>2. Url \subseteq Url'
  BY UrlsKept
<1>3. Submission \subseteq Submission'
  BY <1>2 DEF Submission
<1>. DEFINE q == SendCheckin(r, url)
<1>4. sub'[s] = q /\ \A t \in Submissions \ {s} : sub'[t] = sub[t]
  BY <1>1
<1>5. /\ q \in Submission' /\ q.pc = "look" /\ q.token = session
      /\ q.device = session.device /\ q.final = url
      /\ q.user = r.user /\ q.photo = r.photo /\ q.evt = r.evt
  BY <1>1, Zenon DEF Submission, Pcs, SendCheckin, Session
<1>6. sub' \in [Submissions -> Submission']
  BY <1>1, <1>3, <1>5
<1>7. Picture(sub[s].final)' = Picture(url)'
  BY <1>4, <1>5 DEF Picture
<1>8. SubmissionOK(sub[s])'
  BY <1>1, <1>4, <1>5, <1>7 DEF SubmissionOK, Session
<1>. QED
  BY <1>4, <1>5, <1>6, <1>8 DEF Moves

(* While nothing has failed, the page has a token the API accepts.         *)
LEMMA TokenAccepted ==
    ASSUME DashboardInv, faults = 0, NEW s \in Submissions,
           sub[s].pc # "idle" \/ session.device # None
    PROVE  session.token # None /\ Authorized(session)
  BY DEF DashboardInv, SessionLasts, Authorized

LEMMA SubmitKeeps ==
    ASSUME DashboardInv, NEW s \in Submissions, Submit(s)
    PROVE  DashboardInv'
<1>. DEFINE r == [NotYet EXCEPT !.user = form.user, !.photo = form.photo]
<1>1. /\ UNCHANGED <<images, events, configured, server, now, session, form, panel, faults>>
      /\ sub[s].pc = "idle" /\ session.device # None
      /\ form.user \in Users /\ form.photo \in Photos
  BY TypesKept DEF Submit, server
<1>2. /\ r \in Submission /\ r.pc = "idle" /\ r.evt = None
      /\ r.user = form.user /\ r.photo = form.photo
  <2>1. r = Filled(form.user, form.photo)
    BY Zenon DEF Filled
  <2>. HIDE DEF r
  <2>. QED
    BY <1>1, <2>1, FreshFields, Zenon
<1>3. sub[s].evt = None /\ sub \in [Submissions -> Submission] /\ Grow
  BY <1>1, TypesKept, ServerRests DEF SubmissionOK
<1>4. /\ Moves(s) /\ sub'[s].pc \in {"read", "upload", "look"}
      /\ sub'[s].pc # "read" => sub'[s].token = session
      /\ disabled' => disabled \/ sub'[s].pc \in Busy
      /\ disabled' \in BOOLEAN
  <2>1. CASE form.mode = "upload"
    <3>1. sub' = [sub EXCEPT ![s] = [r EXCEPT !.pc = "read"]] /\ disabled' = disabled
      BY <2>1 DEF Submit
    <3>2. sub'[s] = [r EXCEPT !.pc = "read"]
      BY <1>3, <3>1
    <3>. HIDE DEF r
    <3>3. /\ sub'[s] \in Submission /\ sub'[s].pc = "read"
          /\ sub'[s].user \in Users /\ sub'[s].photo \in Photos /\ sub'[s].evt = None
      BY <1>1, <1>2, <3>2, Zenon DEF Submission, Pcs
    <3>4. Submission' = Submission
      BY <1>1 DEF Submission, Url
    <3>5. SubmissionOK(sub[s])'
      BY <3>3 DEF SubmissionOK
    <3>6. sub' \in [Submissions -> Submission'] /\ \A t \in Submissions \ {s} : sub'[t] = sub[t]
      BY <1>3, <3>1, <3>2, <3>3, <3>4
    <3>. QED
      BY <1>3, <3>1, <3>3, <3>5, <3>6, TypesKept DEF Moves
  <2>2. CASE form.mode = "camera"
    <3>1. SendUpload(s, r) /\ disabled' = TRUE
      BY <2>2 DEF Submit, SendUpload
    <3>2. Moves(s) /\ sub'[s].pc = "upload" /\ sub'[s].token = session
      BY <1>1, <1>2, <1>3, <3>1, UploadMoves, Zenon
    <3>. QED
      BY <3>1, <3>2 DEF Busy
  <2>3. CASE form.mode = "url"
    <3>. DEFINE url == [kind |-> "web", ref |-> form.photo]
    <3>1. sub' = [sub EXCEPT ![s] = SendCheckin(r, url)] /\ disabled' = TRUE
      BY <2>3 DEF Submit
    <3>2. url \in Url' /\ Picture(url)' = r.photo /\ r \in Submission'
      BY <1>1, <1>2 DEF Url, Picture, Submission
    <3>3. Moves(s) /\ sub'[s].pc = "look" /\ sub'[s].token = session
      BY <1>1, <1>2, <1>3, <3>1, <3>2, CheckinMoves, Zenon
    <3>. QED
      BY <3>1, <3>3 DEF Busy
  <2>. QED
    BY <2>1, <2>2, <2>3, TypesKept
<1>5. SessionLasts'
  BY <1>1, <1>4, TokenAccepted, SessionStep
<1>6. FormRecovers'
  <2>1. ASSUME faults' = 0, panel'.text = "processing", panel'.by = s PROVE FALSE
    BY <1>1, <2>1 DEF DashboardInv, FormRecovers
  <2>. QED
    BY <1>1, <1>4, <2>1, FormStep DEF Busy
<1>. QED
  BY <1>1, <1>4, <1>5, <1>6, TypesKept, PageStep

LEMMA FileReadKeeps ==
    ASSUME DashboardInv, NEW s \in Submissions, FileRead(s)
    PROVE  DashboardInv'
<1>1. /\ UNCHANGED <<images, events, configured, server, now, session, form, panel, faults>>
      /\ sub[s].pc = "read" /\ disabled' = TRUE /\ SendUpload(s, sub[s])
  BY DEF FileRead, SendUpload, server
<1>2. /\ sub[s] \in Submission /\ sub[s].evt = None
      /\ sub[s].user \in Users /\ sub[s].photo \in Photos
  BY <1>1, TypesKept DEF SubmissionOK
<1>3. Moves(s) /\ sub'[s].pc = "upload" /\ sub'[s].token = session
  BY <1>1, <1>2, UploadMoves
<1>4. SessionLasts'
  BY <1>1, <1>3, TokenAccepted, SessionStep
<1>5. FormRecovers'
  <2>1. ASSUME faults' = 0, panel'.text = "processing", panel'.by = s PROVE FALSE
    BY <1>1, <2>1 DEF DashboardInv, FormRecovers
  <2>. QED
    BY <1>1, <1>3, <2>1, FormStep DEF Busy
<1>. QED
  BY <1>1, <1>3, <1>4, <1>5, TypesKept, PageStep

(* An answer 401, and a failed fetch.                                      *)
LEMMA DeniedKeeps ==
    ASSUME DashboardInv, NEW s \in Submissions,
           UploadDenied(s) \/ CheckinDenied(s)
    PROVE  DashboardInv'
<1>1. /\ GiveUp(s) /\ UNCHANGED <<configured, server, now, form, panel, faults>>
      /\ session' \in {session, LoggedOut}
      /\ sub[s].pc \in {"upload", "look"} /\ ~Authorized(sub[s].token)
  BY DEF UploadDenied, CheckinDenied
<1>2. faults # 0
  BY <1>1 DEF DashboardInv, SessionLasts
<1>. QED
  BY <1>1, <1>2, TypesKept, GiveUpKeeps

LEMMA FetchFailsKeeps ==
    ASSUME DashboardInv, NEW s \in Submissions, FetchFails(s)
    PROVE  DashboardInv'
<1>1. /\ GiveUp(s) /\ UNCHANGED <<configured, server, now, session, form, panel>>
      /\ sub[s].pc \notin {"poll", "fetch"} /\ faults < MaxFaults /\ faults' = faults + 1
  BY DEF FetchFails
<1>2. faults' \in 0..MaxFaults /\ faults' # 0
  BY <1>1, TypesKept
<1>. QED
  BY <1>1, <1>2, GiveUpKeeps

(* A step that only moves on in the code.                                  *)
LEMMA Becomes ==
    ASSUME DashboardInv, NEW s \in Submissions, UNCHANGED <<images, events>>,
           NEW q \in Submission, sub' = [sub EXCEPT ![s] = q], SubmissionOK(q),
           sub[s].evt # None =>
              /\ q.evt = sub[s].evt /\ q.user = sub[s].user
              /\ q.device = sub[s].device /\ q.photo = sub[s].photo
    PROVE  Moves(s) /\ sub'[s] = q
<1>1. sub \in [Submissions -> Submission]
  BY TypesKept
<1>2. Submission' = Submission
  BY DEF Submission, Url
<1>3. sub'[s] = q /\ \A t \in Submissions \ {s} : sub'[t] = sub[t]
  BY <1>1
<1>4. SubmissionOK(sub[s])'
  BY <1>3 DEF SubmissionOK, Picture, Url, Session
<1>. QED
  BY <1>1, <1>2, <1>3, <1>4 DEF Moves

LEMMA RecentEventKeeps ==
    ASSUME DashboardInv, NEW s \in Submissions, RecentEvent(s)
    PROVE  DashboardInv'
<1>. DEFINE recent == InWindow(events, sub[s].user, sub[s].device, now)
<1>1. /\ UNCHANGED <<images, events, configured, server, now, session, form, panel, faults>>
      /\ sub[s].pc = "look" /\ Authorized(sub[s].token)
  BY DEF RecentEvent, server
<1>2. /\ sub \in [Submissions -> Submission] /\ sub[s] \in Submission /\ SubmissionOK(sub[s])
      /\ sub[s].token.token = sub[s].device /\ sub[s].device \in Devices
      /\ sub[s].evt = None
  <2>1. sub[s] \in Submission /\ SubmissionOK(sub[s]) /\ sub \in [Submissions -> Submission]
    BY TypesKept
  <2>2. sub[s].token.token = sub[s].device /\ sub[s].evt = None
    BY <1>1, <2>1 DEF SubmissionOK
  <2>. QED
    BY <1>1, <2>1, <2>2 DEF Submission, Authorized
<1>3. /\ disabled' = disabled
      /\ \/ recent = {} /\ Go(s, "insert")
         \/ \E e \in Latest(events, recent) :
               sub' = [sub EXCEPT ![s].pc = "publish", ![s].evt = e]
  BY <1>2 DEF RecentEvent
<1>4. Moves(s) /\ sub'[s].pc \in {"insert", "publish"}
  <2>1. CASE Go(s, "insert")
    <3>. DEFINE q == [sub[s] EXCEPT !.pc = "insert"]
    <3>1. sub' = [sub EXCEPT ![s] = q]
      BY <2>1 DEF Go
    <3>2. q \in Submission /\ q.pc = "insert"
      BY <1>2 DEF Submission, Pcs
    <3>3. SubmissionOK(q)
      BY <1>1, <1>2 DEF SubmissionOK, Submission
    <3>. QED
      BY <1>1, <1>2, <3>1, <3>2, <3>3, Becomes, Zenon
  <2>2. ASSUME NEW e \in Latest(events, recent),
               sub' = [sub EXCEPT ![s].pc = "publish", ![s].evt = e]
        PROVE  Moves(s) /\ sub'[s].pc \in {"insert", "publish"}
    <3>. DEFINE q == [sub[s] EXCEPT !.pc = "publish", !.evt = e]
    <3>1. /\ e \in EventIds /\ events[e] # None
          /\ events[e].user = sub[s].user /\ events[e].device = sub[s].device
      BY DEF Latest, InWindow, Stored
    <3>2. sub' = [sub EXCEPT ![s] = q]
      BY <1>2, <2>2, Zenon
    <3>3. q \in Submission /\ q.pc = "publish"
      BY <1>2, <3>1, PublishFields, Zenon
    <3>4. SubmissionOK(q)
      BY <1>1, <1>2, <3>1, AttendanceConstants DEF SubmissionOK, Submission
    <3>. QED
      BY <1>1, <1>2, <3>2, <3>3, <3>4, Becomes, Zenon
  <2>. QED
    BY <1>3, <2>1, <2>2
<1>5. SessionLasts'
  BY <1>1, <1>4, TokenAccepted, SessionStep
<1>6. FormRecovers'
  <2>1. ASSUME faults' = 0, panel'.text = "processing", panel'.by = s PROVE FALSE
    BY <1>1, <2>1 DEF DashboardInv, FormRecovers
  <2>. QED
    BY <1>1, <1>3, <1>4, <2>1, FormStep DEF Busy
<1>. QED
  BY <1>1, <1>3, <1>4, <1>5, <1>6, TypesKept, PageStep

LEMMA AcceptedKeeps ==
    ASSUME DashboardInv, NEW s \in Submissions, Accepted(s)
    PROVE  DashboardInv'
<1>. DEFINE q == [sub[s] EXCEPT !.pc = "poll"]
<1>1. /\ UNCHANGED <<images, events, configured, server, now, session, faults>>
      /\ sub[s].pc = "accepted" /\ disabled' = FALSE
      /\ sub' = [sub EXCEPT ![s] = q]
      /\ panel' = [text |-> "processing", score |-> None, by |-> s]
  BY DEF Accepted, Go, server
<1>2. sub[s] \in Submission /\ SubmissionOK(sub[s])
  BY TypesKept
<1>3. q \in Submission /\ q.pc = "poll"
  BY <1>2 DEF Submission, Pcs
<1>4. SubmissionOK(q)
  BY <1>1, <1>2 DEF SubmissionOK, Submission
<1>5. Moves(s) /\ sub'[s] = q
  BY <1>1, <1>2, <1>3, <1>4, Becomes, Zenon DEF Submission
<1>6. SessionLasts'
  BY <1>1, <1>3, <1>5, TokenAccepted, SessionStep
<1>7. FormRecovers'
  BY <1>1, <1>3, <1>5, FormStep, Zenon DEF Busy
<1>8. PanelOK'
  BY <1>1 DEF PanelOK, PanelTruthful
<1>9. form' \in [mode : {"camera", "upload", "url"}, user : Users \cup {None},
                  photo : Photos \cup {None}]
  BY TypesKept, Zenon DEF Accepted
<1>10. panel' \in [text : {"hidden", "processing", "processed", "failed", "timeout"},
                    score : Scores \cup {None}, by : Submissions \cup {None}]
  BY <1>1
<1>. QED
  BY <1>1, <1>5, <1>6, <1>7, <1>8, <1>9, <1>10, TypesKept, PageStep, Zenon

---------------------------------------------------------------------------
(* pollEventStatus.                                                        *)

(* What the panel's writer may do to the panel: the submission was not one *)
(* that the button waits for.                                              *)
LEMMA PollStep ==
    ASSUME DashboardInv, NEW s \in Submissions, Moves(s), sub[s].pc \in {"poll", "fetch"},
           UNCHANGED <<configured, server, now, session, form, disabled>>,
           faults' \in 0..MaxFaults, faults' = 0 => faults = 0,
           sub'[s].pc \notin {"idle", "upload", "look"},
           panel' = panel \/ /\ PanelOK' /\ panel'.by = s
                             /\ panel'.score \in Scores \cup {None}
                             /\ panel' \in [text : {"hidden", "processing", "processed", "failed", "timeout"},
                                            score : Scores \cup {None}, by : Submissions \cup {None}],
           faults' = 0 /\ panel'.text = "processing" => sub'[s].pc \in {"poll", "fetch"}
                                                      \/ panel'.by # s
    PROVE  DashboardInv'
<1>1. SessionLasts'
  BY TokenAccepted, SessionStep
<1>2. FormRecovers'
  BY FormStep DEF Busy
<1>. QED
  BY <1>1, <1>2, TypesKept, PageStep

LEMMA PollSendKeeps ==
    ASSUME DashboardInv, NEW s \in Submissions, PollSend(s)
    PROVE  DashboardInv'
<1>1. /\ UNCHANGED <<images, events, configured, server, now, session, form, disabled, faults>>
      /\ sub[s].pc = "poll"
  BY DEF PollSend, server
<1>2. /\ sub \in [Submissions -> Submission] /\ sub[s] \in Submission /\ SubmissionOK(sub[s])
      /\ faults \in 0..MaxFaults
  BY TypesKept
<1>3. CASE sub[s].attempts >= MaxAttempts
  <2>1. /\ sub' = [sub EXCEPT ![s] = Ended(@)]
        /\ panel' = [text |-> "timeout", score |-> None, by |-> s]
    BY <1>3 DEF PollSend, Show
  <2>2. Moves(s) /\ sub'[s].pc = "done"
    BY <1>1, <2>1, EndMoves, Zenon
  <2>3. PanelOK'
    BY <2>1 DEF PanelOK, PanelTruthful
  <2>. QED
    BY <1>1, <1>2, <2>1, <2>2, <2>3, PollStep
<1>4. CASE ~(sub[s].attempts >= MaxAttempts) /\ ~Authorized(session)
  <2>1. sub' = [sub EXCEPT ![s] = Ended(@)] /\ panel' = panel
    BY <1>2, <1>4 DEF PollSend
  <2>2. Moves(s) /\ sub'[s].pc = "done"
    BY <1>1, <2>1, EndMoves, Zenon
  <2>3. faults # 0
    BY <1>1, <1>4, TokenAccepted
  <2>. QED
    BY <1>1, <1>2, <2>1, <2>2, <2>3, PollStep
<1>5. CASE ~(sub[s].attempts >= MaxAttempts) /\ Authorized(session)
  <2>. DEFINE e == sub[s].evt
  <2>. DEFINE q == [sub[s] EXCEPT !.pc = "fetch", !.attempts = @ + 1, !.row = events[e]]
  <2>1. sub' = [sub EXCEPT ![s] = q] /\ panel' = panel
    BY <1>2, <1>5 DEF PollSend
  <2>2. e \in EventIds /\ events[e] # None /\ events[e] \in Row /\ e \in Stored(events)
    BY <1>1, <1>2, Zenon DEF SubmissionOK, Submission, DashboardInv, TypeOK, Stored
  <2>3. events[e].status = "processed" => events[e].score # None
    BY <2>2, Zenon DEF DashboardInv, EventOK
  <2>4. sub[s].attempts + 1 \in 0..MaxAttempts
    BY <1>2, <1>5, DashboardConstants DEF Submission
  <2>5. q \in Submission /\ q.pc = "fetch"
    BY <1>2, <2>2, <2>4, Zenon DEF Submission, Pcs
  <2>6. q.row = events[e] /\ q.evt = e /\ q.user = sub[s].user /\ q.device = sub[s].device
        /\ q.photo = sub[s].photo
    BY <1>2 DEF Submission
  <2>7. SubmissionOK(q)
    BY <1>1, <1>2, <2>2, <2>3, <2>5, <2>6 DEF SubmissionOK
  <2>8. Moves(s) /\ sub'[s].pc = "fetch"
    BY <1>1, <2>1, <2>5, <2>6, <2>7, Becomes, Zenon
  <2>. QED
    BY <1>1, <1>2, <2>1, <2>8, PollStep
<1>. QED
  BY <1>3, <1>4, <1>5

LEMMA PollReplyKeeps ==
    ASSUME DashboardInv, NEW s \in Submissions, PollReply(s)
    PROVE  DashboardInv'
<1>. DEFINE row == sub[s].row
<1>1. /\ UNCHANGED <<images, events, configured, server, now, session, form, disabled, faults>>
      /\ sub[s].pc = "fetch"
  BY DEF PollReply, server
<1>2. /\ sub \in [Submissions -> Submission] /\ sub[s] \in Submission /\ SubmissionOK(sub[s])
      /\ faults \in 0..MaxFaults
  BY TypesKept
<1>3. row \in Row
  BY <1>1, <1>2, Zenon DEF SubmissionOK, Submission
<1>4. CASE row.status = "processed"
  <2>1. /\ sub' = [sub EXCEPT ![s] = Ended(@)]
        /\ panel' = [text |-> "processed", score |-> row.score, by |-> s]
    BY <1>4 DEF PollReply, Show
  <2>2. Moves(s) /\ sub'[s].pc = "done"
    BY <1>1, <2>1, EndMoves, Zenon
  <2>3. /\ sub[s].evt # None /\ row.score # None /\ row.score = events[sub[s].evt].score
        /\ events[sub[s].evt].user = sub[s].user /\ events[sub[s].evt].device = sub[s].device
    BY <1>1, <1>2, <1>4, Zenon DEF SubmissionOK
  <2>4. PanelOK'
    BY <1>1, <2>1, <2>2, <2>3 DEF PanelOK, PanelTruthful, Moves
  <2>5. row.score \in Scores \cup {None}
    BY <1>3 DEF Row
  <2>. QED
    BY <1>1, <1>2, <2>1, <2>2, <2>4, <2>5, PollStep
<1>5. CASE row.status = "failed"
  <2>1. /\ sub' = [sub EXCEPT ![s] = Ended(@)]
        /\ panel' = [text |-> "failed", score |-> None, by |-> s]
    BY <1>5 DEF PollReply, Show
  <2>2. Moves(s) /\ sub'[s].pc = "done"
    BY <1>1, <2>1, EndMoves, Zenon
  <2>3. PanelOK'
    BY <2>1 DEF PanelOK, PanelTruthful
  <2>. QED
    BY <1>1, <1>2, <2>1, <2>2, <2>3, PollStep
<1>6. CASE row.status = "pending"
  <2>. DEFINE q == [sub[s] EXCEPT !.pc = "poll", !.row = None]
  <2>1. /\ sub' = [sub EXCEPT ![s] = q]
        /\ panel' = [text |-> "processing", score |-> None, by |-> s]
    BY <1>2, <1>6, Zenon DEF PollReply, Show
  <2>2. q \in Submission /\ q.pc = "poll"
    BY <1>2, Zenon DEF Submission, Pcs
  <2>3. SubmissionOK(q)
    BY <1>1, <1>2 DEF SubmissionOK, Submission
  <2>4. Moves(s) /\ sub'[s].pc = "poll"
    BY <1>1, <1>2, <2>1, <2>2, <2>3, Becomes, Zenon DEF Submission
  <2>5. PanelOK'
    BY <2>1 DEF PanelOK, PanelTruthful
  <2>. QED
    BY <1>1, <1>2, <2>1, <2>4, <2>5, PollStep
<1>. QED
  BY <1>3, <1>4, <1>5, <1>6 DEF Row, Status

LEMMA PollFailsKeeps ==
    ASSUME DashboardInv, NEW s \in Submissions, PollFails(s)
    PROVE  DashboardInv'
<1>1. /\ UNCHANGED <<images, events, configured, server, now, session, form, disabled, panel>>
      /\ sub[s].pc = "fetch" /\ sub' = [sub EXCEPT ![s] = Ended(@)]
      /\ faults < MaxFaults /\ faults' = faults + 1
  BY DEF PollFails, server
<1>2. Moves(s) /\ sub'[s].pc = "done"
  BY <1>1, EndMoves, Zenon
<1>3. faults' \in 0..MaxFaults /\ faults' # 0
  BY <1>1, TypesKept
<1>. QED
  BY <1>1, <1>2, <1>3, PollStep

---------------------------------------------------------------------------
(* The server.                                                             *)

(* A step of a submission between two awaits that the button waits for.    *)
LEMMA ServerStep ==
    ASSUME DashboardInv, Grow, NEW s \in Submissions, Moves(s),
           sub[s].pc \in Busy, sub'[s].pc \in Busy,
           UNCHANGED <<configured, now, session, form, disabled, panel, faults>>,
           sub'[s].pc \in {"upload", "look"} => sub'[s].token = session,
           images' \in Seq(Photos), events' \in [EventIds -> Row \cup {None}],
           image' \in [EventIds -> Url' \cup {None}], queue' \in Seq(EventIds),
           \A e \in Stored(events)' : EventOK(e)',
           \A i \in DOMAIN queue' : events'[queue'[i]] # None
    PROVE  DashboardInv'
<1>1. SubsKeep
  BY DEF SubsKeep, Moves
<1>2. TypeOK'
  BY DEF DashboardInv, TypeOK, Moves, Session
<1>3. \A t \in Submissions : SubmissionOK(sub[t])'
  BY OneSubmission, Zenon DEF Moves
<1>4. PanelOK'
  BY <1>1, PanelRests
<1>5. sub[s].pc # "idle"
  BY DEF Busy
<1>6. SessionLasts'
  BY <1>5, TokenAccepted, SessionStep, Zenon
<1>7. FormRecovers'
  <2>1. ASSUME faults' = 0, panel'.text = "processing", panel'.by = s PROVE FALSE
    BY <2>1 DEF DashboardInv, FormRecovers, Busy
  <2>. QED
    BY <2>1, FormStep
<1>. QED
  BY <1>2, <1>3, <1>4, <1>6, <1>7, Zenon DEF DashboardInv, PanelOK

LEMMA UploadedKeeps ==
    ASSUME DashboardInv, NEW s \in Submissions, Uploaded(s)
    PROVE  DashboardInv'
<1>. DEFINE url == IF configured THEN [kind |-> "cdn", ref |-> Len(images) + 1]
                   ELSE [kind |-> "data", ref |-> sub[s].photo]
<1>1. /\ UNCHANGED <<configured, events, image, queue, now, session, form, disabled, panel, faults>>
      /\ sub[s].pc = "upload" /\ sub' = [sub EXCEPT ![s] = SendCheckin(sub[s], url)]
      /\ images' = IF configured THEN Append(images, sub[s].photo) ELSE images
  BY DEF Uploaded
<1>2. /\ sub[s] \in Submission /\ sub[s].user \in Users /\ sub[s].photo \in Photos
      /\ sub[s].evt = None
  BY <1>1, TypesKept DEF SubmissionOK
<1>3. /\ images \in Seq(Photos) /\ events \in [EventIds -> Row \cup {None}]
      /\ image \in [EventIds -> Url \cup {None}] /\ queue \in Seq(EventIds)
      /\ configured \in BOOLEAN
  BY DEF DashboardInv, TypeOK
<1>4. /\ images' \in Seq(Photos)
      /\ \A i \in DOMAIN images : i \in DOMAIN images' /\ images'[i] = images[i]
      /\ configured => /\ Len(images) + 1 \in DOMAIN images'
                       /\ images'[Len(images) + 1] = sub[s].photo
  BY <1>1, <1>2, <1>3
<1>5. Grow
  BY <1>1, <1>4 DEF Grow, Stored
<1>6. Url \subseteq Url'
  BY <1>5, UrlsKept
<1>7. sub[s] \in Submission'
  BY <1>2, <1>6 DEF Submission
<1>8. url \in Url'
  BY <1>2, <1>4 DEF Url
<1>9. \A u : u = url => Picture(u)' = sub[s].photo
  BY <1>1, <1>2, <1>4 DEF Picture
<1>10. PICK u \in Url', r \in Submission' : u = url /\ r = sub[s]
  BY <1>7, <1>8
<1>11. Moves(s) /\ sub'[s].pc = "look" /\ sub'[s].token = session
  <2>1. /\ r.user \in Users /\ r.photo \in Photos /\ r.evt = None /\ Picture(u)' = r.photo
        /\ sub' = [sub EXCEPT ![s] = SendCheckin(r, u)] /\ sub[s].evt = None
    BY <1>1, <1>2, <1>9, <1>10
  <2>. QED
    BY <1>1, <1>5, <2>1, CheckinMoves, Zenon
<1>12. SubsKeep
  BY <1>11 DEF SubsKeep, Moves
<1>13. image' \in [EventIds -> Url' \cup {None}]
  BY <1>1, <1>3, <1>6
<1>. QED
  BY <1>1, <1>3, <1>4, <1>5, <1>11, <1>12, <1>13, EventsRest, QueueRests, ServerStep, Zenon
     DEF Busy

LEMMA PublishKeeps ==
    ASSUME DashboardInv, NEW s \in Submissions, Publish(s)
    PROVE  DashboardInv'
<1>. DEFINE q == [sub[s] EXCEPT !.pc = "accepted", !.token = None, !.final = None]
<1>1. /\ UNCHANGED <<configured, images, events, image, now, session, form, disabled, panel, faults>>
      /\ sub[s].pc = "publish" /\ queue' = Append(queue, sub[s].evt)
  BY DEF Publish
<1>2. /\ sub \in [Submissions -> Submission] /\ sub[s] \in Submission /\ SubmissionOK(sub[s])
  BY TypesKept
<1>3. sub' = [sub EXCEPT ![s] = q]
  BY <1>2, Zenon DEF Publish
<1>4. q \in Submission /\ q.pc = "accepted"
  BY <1>2, Zenon DEF Submission, Pcs
<1>5. SubmissionOK(q)
  BY <1>1, <1>2 DEF SubmissionOK, Submission
<1>6. Moves(s) /\ sub'[s].pc = "accepted"
  BY <1>1, <1>2, <1>3, <1>4, <1>5, Becomes, Zenon DEF Submission
<1>7. Grow /\ SubsKeep
  BY <1>1, <1>6, ServerRests DEF SubsKeep, Moves
<1>8. /\ images \in Seq(Photos) /\ events \in [EventIds -> Row \cup {None}]
      /\ image' \in [EventIds -> Url' \cup {None}] /\ queue \in Seq(EventIds)
      /\ \A i \in DOMAIN queue : events[queue[i]] # None
  BY <1>1 DEF DashboardInv, TypeOK, Url
<1>9. sub[s].evt \in EventIds /\ events[sub[s].evt] # None
  BY <1>1, <1>2 DEF SubmissionOK, Submission
<1>10. queue' \in Seq(EventIds) /\ \A i \in DOMAIN queue' : events'[queue'[i]] # None
  BY <1>1, <1>8, <1>9
<1>. QED
  BY <1>1, <1>6, <1>7, <1>8, <1>10, EventsRest, ServerStep, Zenon DEF Busy

LEMMA InsertEventKeeps ==
    ASSUME DashboardInv, NEW s \in Submissions, InsertEvent(s)
    PROVE  DashboardInv'
<1>1. /\ UNCHANGED <<configured, images, queue, now, session, form, disabled, panel, faults>>
      /\ sub[s].pc = "insert"
  BY DEF InsertEvent
<1>. DEFINE row == NewRow(sub[s].user, sub[s].device, now)
<1>2. PICK e \in EventIds \ Stored(events) :
        /\ events' = [events EXCEPT ![e] = row]
        /\ image' = [image EXCEPT ![e] = sub[s].final]
        /\ sub' = [sub EXCEPT ![s].pc = "publish", ![s].evt = e]
  BY Zenon DEF InsertEvent
<1>3. /\ sub \in [Submissions -> Submission] /\ sub[s] \in Submission
      /\ sub[s].user \in Users /\ sub[s].device \in Devices /\ sub[s].photo \in Photos
      /\ sub[s].final \in Url /\ Picture(sub[s].final) = sub[s].photo /\ sub[s].evt = None
  BY <1>1, TypesKept DEF SubmissionOK
<1>4. /\ images \in Seq(Photos) /\ events \in [EventIds -> Row \cup {None}]
      /\ image \in [EventIds -> Url \cup {None}] /\ queue \in Seq(EventIds) /\ now \in Nat
  BY DEF DashboardInv, TypeOK
<1>5. /\ row \in Row /\ row.user = sub[s].user /\ row.device = sub[s].device
      /\ row.score = None /\ row.status = "pending" /\ row # None
  BY <1>3, <1>4, NoneIsNoRow DEF NewRow, Row, Status
<1>6. /\ events'[e] = row /\ image'[e] = sub[s].final
      /\ \A f \in EventIds \ {e} : events'[f] = events[f] /\ image'[f] = image[f]
  BY <1>2, <1>4
<1>7. Grow
  BY <1>1, <1>2, <1>6 DEF Grow, Stored
<1>. DEFINE q == [sub[s] EXCEPT !.pc = "publish", !.evt = e]
<1>8. sub'[s] = q /\ \A t \in Submissions \ {s} : sub'[t] = sub[t]
  BY <1>2, <1>3
<1>9. /\ q \in Submission /\ q.pc = "publish" /\ q.evt = e
      /\ q.user = sub[s].user /\ q.device = sub[s].device /\ q.photo = sub[s].photo
  BY <1>2, <1>3, PublishFields, Zenon
<1>10. sub' \in [Submissions -> Submission']
  <2>1. Submission' = Submission
    BY <1>1 DEF Submission, Url
  <2>. QED
    BY <1>2, <1>3, <1>8, <1>9, <2>1
<1>11. SubmissionOK(sub[s])'
  BY <1>3, <1>5, <1>6, <1>8, <1>9, AttendanceConstants DEF SubmissionOK
<1>12. Moves(s) /\ SubsKeep
  BY <1>3, <1>8, <1>10, <1>11 DEF Moves, SubsKeep
<1>13. ASSUME NEW f \in Stored(events)'
       PROVE  EventOK(f)'
  <2>1. CASE f = e
    <3>1. image'[e] \in Url'
      BY <1>1, <1>3, <1>6 DEF Url
    <3>2. Picture(image[e])' = sub'[s].photo
      BY <1>1, <1>3, <1>6, <1>8, <1>9 DEF Picture
    <3>3. /\ sub'[s].evt = e /\ sub'[s].device = events'[e].device
          /\ sub'[s].user = events'[e].user
          /\ events'[e].status = "pending" /\ events'[e].score = None
      BY <1>5, <1>6, <1>8, <1>9
    <3>. QED
      BY <2>1, <3>1, <3>2, <3>3 DEF EventOK
  <2>2. CASE f # e
    <3>1. f \in Stored(events) /\ events'[f] = events[f] /\ image'[f] = image[f]
      BY <1>6, <2>2 DEF Stored
    <3>. QED
      BY <1>7, <1>12, <3>1, OtherEvents
  <2>. QED
    BY <2>1, <2>2
<1>14. /\ events' \in [EventIds -> Row \cup {None}]
       /\ image' \in [EventIds -> Url' \cup {None}]
  <2>1. Url' = Url
    BY <1>1 DEF Url
  <2>. QED
    BY <1>2, <1>3, <1>4, <1>5, <2>1
<1>. QED
  BY <1>1, <1>4, <1>7, <1>8, <1>9, <1>12, <1>13, <1>14, QueueRests, ServerStep, Zenon DEF Busy

---------------------------------------------------------------------------
(* The worker.                                                             *)

(* The image of a stored event is a photo, and what the worker writes for  *)
(* it is the photo's score, or "failed".                                   *)
LEMMA EvaluationRight ==
    ASSUME DashboardInv, NEW e \in Stored(events), NEW row,
           \/ row = Evaluation(events[e], image[e])
           \/ row = UpdatedRow(events[e], "failed", None)
           \/ row = events[e]
    PROVE  /\ row \in Row
           /\ row.user = events[e].user /\ row.device = events[e].device
           /\ events[e].score # None => row.score = events[e].score
           /\ row.status = "processed" => row.score # None
           /\ row.score # None => row.score = Face[Picture(image[e])]
<1>. DEFINE p == Picture(image[e])
<1>1. e \in EventIds /\ events[e] \in Row /\ EventOK(e) /\ images \in Seq(Photos)
  BY DEF DashboardInv, TypeOK, Stored
<1>2. image[e] \in Url
  BY <1>1 DEF EventOK
<1>3. p \in Photos /\ Download(image[e]) \in {p, None}
  BY <1>1, <1>2 DEF Url, Picture, Download
<1>4. Face[p] \in Scores \cup {None} /\ p # None
  BY <1>3, DashboardConstants
<1>5. CASE row = events[e]
  BY <1>1, <1>5 DEF EventOK
<1>6. CASE row = UpdatedRow(events[e], "failed", None)
  BY <1>1, <1>6, Zenon DEF EventOK, UpdatedRow, Row, Status
<1>7. CASE row = UpdatedRow(events[e], "processed", Face[p]) /\ Face[p] # None
  BY <1>1, <1>4, <1>7, Zenon DEF EventOK, UpdatedRow, Row, Status
<1>8. row = Evaluation(events[e], image[e]) =>
        \/ row = UpdatedRow(events[e], "failed", None)
        \/ row = UpdatedRow(events[e], "processed", Face[p]) /\ Face[p] # None
  BY <1>3, <1>4 DEF Evaluation
<1>. QED
  BY <1>5, <1>6, <1>7, <1>8

LEMMA WorkerKeeps ==
    ASSUME DashboardInv, Evaluate \/ EvaluateFails
    PROVE  DashboardInv'
<1>0. PICK e : e = Head(queue)
  OBVIOUS
<1>1. /\ UNCHANGED <<configured, images, image, now, session, form, disabled, sub, panel>>
      /\ queue # <<>> /\ queue' = Tail(queue)
      /\ faults' = faults \/ (faults < MaxFaults /\ faults' = faults + 1)
  BY DEF Evaluate, EvaluateFails, page
<1>2. /\ queue \in Seq(EventIds) /\ events \in [EventIds -> Row \cup {None}]
      /\ \A i \in DOMAIN queue : events[queue[i]] # None
  BY DEF DashboardInv, TypeOK
<1>3. e \in Stored(events) /\ e \in EventIds
  BY <1>0, <1>1, <1>2 DEF Stored
<1>4. PICK row : /\ events' = [events EXCEPT ![e] = row]
                 /\ \/ row = Evaluation(events[e], image[e])
                    \/ row = UpdatedRow(events[e], "failed", None)
                    \/ row = events[e]
  <2>1. CASE Evaluate
    BY <1>0, <2>1, Zenon DEF Evaluate
  <2>2. CASE EvaluateFails
    <3>1. CASE events' = events
      <4>1. events = [events EXCEPT ![e] = events[e]]
        BY <1>2, <1>3
      <4>. QED
        BY <3>1, <4>1
    <3>2. CASE events' = [events EXCEPT ![e] = UpdatedRow(events[e], "failed", None)]
      BY <3>2, Zenon
    <3>. QED
      BY <1>0, <2>2, <3>1, <3>2, Zenon DEF EvaluateFails
  <2>. QED
    BY <2>1, <2>2
<1>5. /\ row \in Row
      /\ row.user = events[e].user /\ row.device = events[e].device
      /\ events[e].score # None => row.score = events[e].score
      /\ row.status = "processed" => row.score # None
      /\ row.score # None => row.score = Face[Picture(image[e])]
  BY <1>3, <1>4, EvaluationRight
<1>6. /\ events'[e] = row /\ events'[e] # None
      /\ \A f \in EventIds \ {e} : events'[f] = events[f]
      /\ events' \in [EventIds -> Row \cup {None}]
  BY <1>2, <1>3, <1>4, <1>5, NoneIsNoRow
<1>7. Grow /\ SubsKeep
  BY <1>1, <1>3, <1>5, <1>6 DEF Grow, SubsKeep, Stored
<1>8. \A t \in Submissions : SubmissionOK(sub[t])'
  BY <1>1, <1>7, OtherSubmissions
<1>9. ASSUME NEW f \in Stored(events)' PROVE EventOK(f)'
  <2>1. CASE f = e
    <3>1. EventOK(e) /\ image[e] \in Url
      BY <1>3 DEF DashboardInv, EventOK
    <3>2. image'[e] \in Url' /\ Picture(image[e])' = Picture(image[e])
      BY <1>1, <3>1 DEF Url, Picture
    <3>3. PICK s \in Submissions :
            /\ sub[s].evt = e /\ sub[s].device = events[e].device
            /\ sub[s].user = events[e].user /\ sub[s].photo = Picture(image[e])
      BY <3>1 DEF EventOK
    <3>. QED
      BY <1>1, <1>5, <1>6, <2>1, <3>2, <3>3, Zenon DEF EventOK
  <2>2. CASE f # e
    <3>1. f \in Stored(events) /\ events'[f] = events[f] /\ image'[f] = image[f]
      BY <1>1, <1>6, <2>2 DEF Stored
    <3>. QED
      BY <1>7, <3>1, OtherEvents
  <2>. QED
    BY <2>1, <2>2
<1>10. queue' \in Seq(EventIds) /\ \A i \in DOMAIN queue' : queue'[i] \in Stored(events)
  BY <1>1, <1>2 DEF Stored
<1>11. faults' \in 0..MaxFaults /\ (faults' = 0 => faults = 0)
  BY <1>1, TypesKept
<1>12. TypeOK'
  <2>1. Url' = Url /\ Session' = Session
    BY <1>1 DEF Url, Session
  <2>2. Submission' = Submission
    BY <2>1 DEF Submission
  <2>3. TypeOK
    BY DEF DashboardInv
  <2>. QED
    BY <1>1, <1>6, <1>10, <1>11, <2>1, <2>2, <2>3, Zenon DEF TypeOK
<1>13. SessionLasts' /\ FormRecovers'
  BY <1>1, <1>11, Zenon DEF DashboardInv, SessionLasts, FormRecovers, Authorized
<1>. QED
  BY <1>1, <1>7, <1>8, <1>9, <1>10, <1>12, <1>13, PanelRests DEF DashboardInv, PanelOK, Grow

---------------------------------------------------------------------------
(* The invariant of the submissions.                                       *)

LEMMA InitInv ==
    Init => DashboardInv
<1>. SUFFICES ASSUME Init PROVE DashboardInv
  OBVIOUS
<1>1. 0 \in 0..MaxAttempts /\ 0 \in 0..MaxFaults
  BY DashboardConstants
<1>2. NotYet \in Submission /\ NotYet.pc = "idle" /\ NotYet.evt = None
  BY <1>1 DEF NotYet, Submission, Pcs
<1>3. TypeOK
  <2>1. images \in Seq(Photos) /\ queue \in Seq(EventIds)
    BY DEF Init
  <2>3. /\ events \in [EventIds -> Row \cup {None}]
        /\ image \in [EventIds -> Url \cup {None}]
    BY DEF Init
  <2>4. /\ configured \in BOOLEAN /\ now \in Nat /\ disabled \in BOOLEAN
        /\ faults \in 0..MaxFaults
    BY <1>1, Zenon DEF Init
  <2>2. session \in Session /\ sub \in [Submissions -> Submission]
    BY <1>2 DEF Init, LoggedOut, Session
  <2>. QED
    BY <2>1, <2>2, <2>3, <2>4 DEF Init, TypeOK, Empty
<1>4. \A s \in Submissions : SubmissionOK(sub[s])
  BY <1>2 DEF Init, SubmissionOK
<1>5. Stored(events) = {} /\ DOMAIN queue = {}
  BY DEF Init, Stored
<1>6. SessionLasts /\ FormRecovers /\ PanelTruthful
  BY <1>2 DEF Init, SessionLasts, FormRecovers, PanelTruthful, LoggedOut
<1>. QED
  BY <1>3, <1>4, <1>5, <1>6 DEF Init, DashboardInv, LoggedOut

(* What the user does, and time.                                           *)
LEMMA UserKeeps ==
    ASSUME DashboardInv,
           \/ \E d \in Devices : RegisterDevice(d)
           \/ Logout \/ Expire \/ RefreshEvents \/ Tick
           \/ \E m \in {"camera", "upload", "url"}, u \in Users, p \in Photos : Fill(m, u, p)
    PROVE  DashboardInv'
<1>1. ASSUME NEW d \in Devices, RegisterDevice(d)
      PROVE  DashboardInv'
  <2>1. /\ UNCHANGED <<configured, server, now, form, disabled, sub, panel, faults>>
        /\ session' = [device |-> d, token |-> d, expired |-> FALSE]
    BY <1>1 DEF RegisterDevice
  <2>2. session' \in Session /\ session'.token = session'.device /\ ~session'.expired
        /\ session'.token # None
    BY <2>1, DashboardConstants DEF Session
  <2>3. now' \in Nat
    BY <2>1, Zenon DEF DashboardInv, TypeOK
  <2>. QED
    BY <2>1, <2>2, <2>3, TypesKept, UserSteps
<1>2. ASSUME Logout \/ Expire \/ RefreshEvents
      PROVE  DashboardInv'
  <2>1. /\ UNCHANGED <<configured, server, now, form, disabled, sub, panel>>
        /\ session' \in {LoggedOut, [session EXCEPT !.expired = TRUE]}
        /\ \/ faults < MaxFaults /\ faults' = faults + 1
           \/ faults' = faults /\ session.expired
    BY <1>2 DEF Logout, Expire, RefreshEvents
  <2>2. LoggedOut \in Session /\ LoggedOut.token = LoggedOut.device
    BY DEF LoggedOut, Session
  <2>3. /\ [session EXCEPT !.expired = TRUE] \in Session
        /\ [session EXCEPT !.expired = TRUE].token = session.token
        /\ [session EXCEPT !.expired = TRUE].device = session.device
    BY TypesKept, Zenon DEF Session
  <2>4. session' \in Session /\ session'.token = session'.device
    BY <2>1, <2>2, <2>3, TypesKept, Zenon
  <2>5. faults' \in 0..MaxFaults /\ faults' # 0
    BY <2>1, TypesKept DEF DashboardInv, SessionLasts
  <2>6. now' \in Nat
    BY <2>1 DEF DashboardInv, TypeOK
  <2>. QED
    BY <2>1, <2>4, <2>5, <2>6, TypesKept, UserSteps
<1>3. ASSUME NEW m \in {"camera", "upload", "url"}, NEW u \in Users, NEW p \in Photos,
             Fill(m, u, p)
      PROVE  DashboardInv'
  <2>1. /\ UNCHANGED <<configured, server, now, session, disabled, sub, panel, faults>>
        /\ form' = [mode |-> m, user |-> u, photo |-> p]
    BY <1>3 DEF Fill
  <2>2. form' \in [mode : {"camera", "upload", "url"}, user : Users \cup {None},
                   photo : Photos \cup {None}]
    BY <2>1
  <2>3. now' \in Nat /\ (faults = 0 => ~session.expired)
    BY <2>1 DEF DashboardInv, TypeOK, SessionLasts
  <2>. QED
    BY <2>1, <2>2, <2>3, TypesKept, UserSteps
<1>4. ASSUME Tick
      PROVE  DashboardInv'
  <2>1. UNCHANGED <<configured, server, session, form, disabled, sub, panel, faults>>
    BY <1>4 DEF Tick, page
  <2>2. now' \in Nat /\ (faults = 0 => ~session.expired)
    BY <1>4 DEF Tick, DashboardInv, TypeOK, SessionLasts
  <2>. QED
    BY <2>1, <2>2, TypesKept, UserSteps
<1>. QED
  BY <1>1, <1>2, <1>3, <1>4

LEMMA Stutters ==
    ASSUME DashboardInv, UNCHANGED vars
    PROVE  DashboardInv'
<1>1. UNCHANGED <<configured, server, now, session, form, disabled, sub, panel, faults>>
  BY DEF vars, page
<1>2. now \in Nat /\ (faults = 0 => ~session.expired)
  BY DEF DashboardInv, TypeOK, SessionLasts
<1>. QED
  BY <1>1, <1>2, TypesKept, UserSteps

LEMMA StepInv ==
    ASSUME DashboardInv, Next
    PROVE  DashboardInv'
<1>1. ASSUME NEW s \in Submissions, Submit(s) \/ Run(s) \/ FetchFails(s) \/ PollFails(s)
      PROVE  DashboardInv'
  BY <1>1, SubmitKeeps, FileReadKeeps, UploadedKeeps, DeniedKeeps, RecentEventKeeps,
     InsertEventKeeps, PublishKeeps, AcceptedKeeps, PollSendKeeps, PollReplyKeeps,
     FetchFailsKeeps, PollFailsKeeps DEF Run
<1>. QED
  BY <1>1, WorkerKeeps, UserKeeps DEF Next

(* What the page knows of its submissions, the server of its events and    *)
(* the panel of both agree, whatever the user does while the page awaits   *)
(* an answer, and whichever requests and evaluations fail.                 *)
THEOREM SubmissionsInvariance ==
    FormSpec => []DashboardInv
<1>1. FormInit => DashboardInv
  BY InitInv DEF FormInit
<1>2. DashboardInv /\ [FormNext]_<<part, vars, cameraVars>> => DashboardInv'
  <2>. SUFFICES ASSUME DashboardInv, [FormNext]_<<part, vars, cameraVars>>
                PROVE  DashboardInv'
    OBVIOUS
  <2>1. Next \/ UNCHANGED vars
    BY DEF FormNext
  <2>. QED
    BY <2>1, StepInv, Stutters
<1>. QED
  BY <1>1, <1>2, PTL DEF FormSpec

(* No check-in carries another device's token (submitCheckin reads the     *)
(* token and the device at one moment).                                    *)
THEOREM TokensAlwaysFit ==
    FormSpec => []TokenFitsDevice
<1>1. DashboardInv => TokenFitsDevice
  BY DEF DashboardInv, SubmissionOK, TokenFitsDevice
<1>. QED
  BY <1>1, SubmissionsInvariance, PTL

(* The image of every event is the photo of a submission for its user and  *)
(* device (the URL of an upload goes to the check-in that awaited it).     *)
THEOREM ImagesBelong ==
    FormSpec => []ImageOfSubmission
<1>1. DashboardInv => ImageOfSubmission
  BY Zenon DEF DashboardInv, EventOK, ImageOfSubmission
<1>. QED
  BY <1>1, SubmissionsInvariance, PTL

(* A score in the panel is that of the polled event, an event of the       *)
(* submission's user and device (pollEventStatus).                         *)
THEOREM PanelAlwaysTruthful ==
    FormSpec => []PanelTruthful
<1>1. DashboardInv => PanelTruthful
  BY Zenon DEF DashboardInv
<1>. QED
  BY <1>1, SubmissionsInvariance, PTL

(* The button is disabled only while a submission is under way that will   *)
(* enable it, and without faults a panel that says "Processing..." is      *)
(* still polled for.                                                       *)
THEOREM FormAlwaysRecovers ==
    FormSpec => []FormRecovers
<1>1. DashboardInv => FormRecovers
  BY DEF DashboardInv
<1>. QED
  BY <1>1, SubmissionsInvariance, PTL

---------------------------------------------------------------------------
(* The camera.                                                             *)

(* stopCamera leaves nothing running if what ran was cameraStream. *)
LEMMA StopStopsAll ==
    ASSUME Cam!CameraInv, Cam!stopCamera, call' = call, overlapped' = overlapped
    PROVE  Cam!CameraInv'
  BY DEF Cam!CameraInv, Cam!NoLostStream, Cam!Pending, Cam!stopCamera

(* Steps that leave streams and calls alone. *)
LEMMA Frame ==
    ASSUME Cam!CameraInv, UNCHANGED <<stream, live, call, overlapped>>
    PROVE  Cam!CameraInv'
  BY DEF Cam!CameraInv, Cam!NoLostStream, Cam!Pending

(* A call that no other overlaps is alone, and finds no camera running. *)
LEMMA StartAlone ==
    ASSUME Cam!CameraInv, NEW c \in Calls, Cam!startCamera(c), UNCHANGED <<stream, live>>
    PROVE  Cam!CameraInv'
<1>1. call' \in [Calls -> {"no", "permission", "play", "over"}]
  BY DEF Cam!CameraInv, Cam!startCamera
<1>2. ASSUME ~overlapped'
      PROVE  ~overlapped /\ stream = None /\ Cam!Pending' = {c}
  BY <1>2, Zenon DEF Cam!CameraInv, Cam!startCamera, Cam!Pending
<1>. QED
  BY <1>1, <1>2 DEF Cam!CameraInv, Cam!NoLostStream, Cam!Pending

(* The end of a call. *)
LEMMA CallOver ==
    ASSUME Cam!CameraInv, NEW c \in Calls, c \in Cam!Pending,
           call' = [call EXCEPT ![c] = "over"],
           UNCHANGED <<stream, live, overlapped>>
    PROVE  Cam!CameraInv'
<1>1. call' \in [Calls -> {"no", "permission", "play", "over"}]
  BY DEF Cam!CameraInv
<1>2. ASSUME ~overlapped, NEW d \in Calls, call'[d] = "permission"
      PROVE  stream = None /\ Cam!Pending' = {d}
  BY <1>2 DEF Cam!CameraInv, Cam!Pending
<1>. QED
  BY <1>1, <1>2 DEF Cam!CameraInv, Cam!NoLostStream

(* getUserMedia resolves for the only pending call. *)
LEMMA GrantedAlone ==
    ASSUME Cam!CameraInv, NEW c \in Calls, Cam!Granted(c)
    PROVE  Cam!CameraInv'
<1>1. call' \in [Calls -> {"no", "permission", "play", "over"}] /\ stream' \in Calls
  BY DEF Cam!CameraInv, Cam!Granted
<1>2. ASSUME ~overlapped
      PROVE  /\ live' = {stream'} \ {None}
             /\ \A d \in Calls : call'[d] # "permission"
  BY <1>2, CallsAssumption
     DEF Cam!CameraInv, Cam!NoLostStream, Cam!Pending, Cam!Granted, Cam!NoneIsNoCall
<1>. QED
  BY <1>1, <1>2 DEF Cam!CameraInv, Cam!NoLostStream, Cam!Granted

(* CameraInv holds whatever the user presses while the browser is awaited. *)
THEOREM CameraInvariance ==
    FormSpec => []Cam!CameraInv
<1>1. FormInit => Cam!CameraInv
  BY DEF FormInit, Cam!Init, Cam!CameraInv, Cam!NoLostStream
<1>2. Cam!CameraInv /\ [FormNext]_<<part, vars, cameraVars>> => Cam!CameraInv'
  <2>. SUFFICES ASSUME Cam!CameraInv, [FormNext]_<<part, vars, cameraVars>>
                PROVE  Cam!CameraInv'
    OBVIOUS
  <2>1. ASSUME NEW c \in Calls, Cam!StartButton(c) \/ Cam!retakePhoto(c)
        PROVE  Cam!CameraInv'
    BY <2>1, StartAlone DEF Cam!StartButton, Cam!retakePhoto
  <2>2. ASSUME NEW c \in Calls, Cam!Granted(c)
        PROVE  Cam!CameraInv'
    BY <2>2, GrantedAlone
  <2>3. ASSUME NEW c \in Calls, Cam!Rejected(c) \/ Cam!Played(c)
        PROVE  Cam!CameraInv'
    BY <2>3, CallOver DEF Cam!Rejected, Cam!Played, Cam!Pending
  <2>4. ASSUME Cam!StopButton \/ Cam!capturePhoto \/ Cam!Submitted
        PROVE  Cam!CameraInv'
    BY <2>4, StopStopsAll, Frame DEF Cam!StopButton, Cam!capturePhoto, Cam!Submitted
  <2>5. ASSUME NEW m, Cam!setInputMode(m)
        PROVE  Cam!CameraInv'
    BY <2>5, StopStopsAll, Frame DEF Cam!setInputMode
  <2>6. CASE UNCHANGED cameraVars
    BY <2>6, Frame DEF cameraVars
  <2>7. Cam!Next \/ UNCHANGED cameraVars
    BY DEF FormNext
  <2>. QED
    BY <2>1, <2>2, <2>3, <2>4, <2>5, <2>6, <2>7 DEF Cam!Next
<1>. QED
  BY <1>1, <1>2, PTL DEF FormSpec

(* As long as the user waits for a started camera, what runs is what       *)
(* cameraStream names.                                                     *)
THEOREM NoStreamLost ==
    FormSpec => []NoLostStream
<1>1. Cam!CameraInv => NoLostStream
  BY DEF Cam!CameraInv, NoLostStream
<1>. QED
  BY <1>1, CameraInvariance, PTL
===========================================================================
