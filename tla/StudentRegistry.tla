--------------------------- MODULE StudentRegistry ---------------------------
(***************************************************************************)
(* newGoAttend: registration of students and attendance by face login.     *)
(* A request goroutine of the Go backend calls Cloudinary, SQLite and the  *)
(* Python face service one after the other; each call is one step, so any  *)
(* two requests interleave between any two calls.  The face service serves *)
(* one request at a time (its handlers never await), possibly after the    *)
(* backend's 30 second timeout has passed.                                 *)
(*                                                                         *)
(* A photo is the face it shows, a number, or NoFace; the distance of two  *)
(* faces is the distance of the numbers.                                   *)
(***************************************************************************)
EXTENDS Integers, Sequences, FiniteSets

CONSTANTS
  Requests,    \* request goroutines, one per page that is open
  Emails,      \* values of students.email
  Numbers,     \* values of students.student_id
  Ids,         \* values of students.id (fresh UUIDs)
  Faces,       \* faces a photo may show
  NoFace,      \* a photo without a detectable face
  None,        \* no row, no file, no value
  Threshold,   \* THRESHOLD of the face service
  MaxUploads,  \* Cloudinary's quota of images
  MaxLogins,   \* bound: face logins started
  MaxFaults    \* bound: faults

ASSUME RegistryConstants ==
  /\ Faces \subseteq Int
  /\ NoFace \notin Faces
  /\ None \notin Ids \cup Faces \cup {NoFace}
  /\ None \notin [email : Emails, number : Numbers, url : Nat]
  /\ Threshold \in Nat
  /\ MaxUploads \in Nat /\ MaxLogins \in Nat /\ MaxFaults \in Nat

VARIABLES
  students,    \* table students
  attendance,  \* table attendance, with number and photo of the login
  images,      \* images Cloudinary stores; an image's URL is its index
  files,       \* FACES_DIR: the photo in <id>.jpg
  calls,       \* POST /register calls the face service has not served
  configured,  \* CLOUDINARY_URL is set in the running backend
  pc,          \* the next call of each request
  loc,         \* the local variables of each request
  logins,      \* face logins started so far
  faults       \* faults so far

store == <<students, attendance>>
vars == <<students, attendance, images, files, calls, configured, pc, loc,
          logins, faults>>

FacePhotos == Faces \cup {NoFace}
Student == [email : Emails, number : Numbers, url : Nat]
Local == [email : Emails \cup {None}, number : Numbers \cup {None},
          photo : FacePhotos, url : Nat, id : Ids \cup {None}, login : Nat]
Blank == [email |-> None, number |-> None, photo |-> NoFace, url |-> 0,
          id |-> None, login |-> 0]
PC == {"idle", "upload", "insert", "face", "wait", "recognize", "student",
       "mark"}

TypeOK ==
  /\ students \in [Ids -> Student \cup {None}]
  /\ attendance \subseteq [student : Ids, photo : FacePhotos, login : Nat]
  /\ images \in Seq(FacePhotos)
  /\ files \in [Ids -> Faces \cup {None}]
  /\ calls \subseteq [id : Ids, photo : FacePhotos]
  /\ configured \in BOOLEAN
  /\ pc \in [Requests -> PC]
  /\ loc \in [Requests -> Local]
  /\ logins \in Nat
  /\ faults \in Nat

(* A first start: no database file, no faces. *)
Init ==
  /\ students = [i \in Ids |-> None]
  /\ attendance = {}
  /\ images = <<>>
  /\ files = [i \in Ids |-> None]
  /\ calls = {}
  /\ configured \in BOOLEAN
  /\ pc = [r \in Requests |-> "idle"]
  /\ loc = [r \in Requests |-> Blank]
  /\ logins = 0
  /\ faults = 0

Goto(r, label) == pc' = [pc EXCEPT ![r] = label]

(* The request is answered, whatever the status, and its goroutine ends. *)
Answer(r) == Goto(r, "idle") /\ loc' = [loc EXCEPT ![r] = Blank]

Fault == faults < MaxFaults /\ faults' = faults + 1

-----------------------------------------------------------------------------
(* Registration *)

(* POST /api/students with a complete form; incomplete ones are refused and
   change nothing. *)
RegisterStudent(r) ==
  /\ pc[r] = "idle"
  /\ \E e \in Emails, n \in Numbers, p \in FacePhotos :
       loc' = [loc EXCEPT ![r] = [Blank EXCEPT !.email = e, !.number = n,
                                               !.photo = p]]
  /\ Goto(r, IF configured THEN "upload" ELSE "insert")
  /\ UNCHANGED <<store, images, files, calls, configured, logins, faults>>

(* Cloudinary stores the photo and answers with its URL. *)
Upload(r) ==
  /\ pc[r] = "upload"
  /\ Len(images) < MaxUploads
  /\ images' = Append(images, loc[r].photo)
  /\ loc' = [loc EXCEPT ![r].url = Len(images) + 1]
  /\ Goto(r, "insert")
  /\ UNCHANGED <<store, files, calls, configured, logins, faults>>

(* The quota is used up: 500. *)
UploadRefused(r) ==
  /\ pc[r] = "upload"
  /\ Len(images) = MaxUploads
  /\ Answer(r)
  /\ UNCHANGED <<store, images, files, calls, configured, logins, faults>>

(* The upload fails, or succeeds and its reply is lost: 500. *)
UploadFails(r) ==
  /\ pc[r] = "upload"
  /\ images' \in {images} \cup (IF Len(images) < MaxUploads
                               THEN {Append(images, loc[r].photo)} ELSE {})
  /\ Fault
  /\ Answer(r)
  /\ UNCHANGED <<store, files, calls, configured, logins>>

(* A student with this email or number is stored: UNIQUE is violated. *)
Taken(l) ==
  \E i \in Ids : /\ students[i] # None
                 /\ \/ students[i].email = l.email
                    \/ students[i].number = l.number

Stored(l) == [email |-> l.email, number |-> l.number, url |-> l.url]

(* A mutated form of CreateStudent: the call of the face service is made
   before the row is committed. *)
CreateStudentFaceFirst(r) ==
  /\ pc[r] = "insert"
  /\ \E i \in Ids :
       /\ students[i] = None
       /\ calls' = calls \cup {[id |-> i, photo |-> loc[r].photo]}
       /\ students' = IF Taken(loc[r]) THEN students
                      ELSE [students EXCEPT ![i] = Stored(loc[r])]
  /\ Answer(r)
  /\ UNCHANGED <<attendance, images, files, configured, logins, faults>>

(* A mutated form of CreateStudent: the URL of the image that was stored
   last, by whichever request. *)
CreateStudentLastImage(r) ==
  /\ pc[r] = "insert"
  /\ ~Taken(loc[r])
  /\ \E i \in Ids :
       /\ students[i] = None
       /\ students' = [students EXCEPT ![i] =
                         [Stored(loc[r]) EXCEPT !.url = Len(images)]]
       /\ loc' = [loc EXCEPT ![r].id = i]
  /\ Goto(r, "face")
  /\ UNCHANGED <<attendance, images, files, calls, configured, logins, faults>>

(* INSERT INTO students under a fresh id. *)
CreateStudent(r) ==
  /\ pc[r] = "insert"
  /\ ~Taken(loc[r])
  /\ \E i \in Ids :
       /\ students[i] = None
       /\ students' = [students EXCEPT ![i] = Stored(loc[r])]
       /\ loc' = [loc EXCEPT ![r].id = i]
  /\ Goto(r, "face")
  /\ UNCHANGED <<attendance, images, files, calls, configured, logins, faults>>

(* A mutated form of CreateConflict: ON CONFLICT DO UPDATE. *)
CreateConflictUpdates(r) ==
  /\ pc[r] = "insert"
  /\ Taken(loc[r])
  /\ \E i \in Ids :
       /\ students[i] # None /\ students[i].email = loc[r].email
       /\ students' = [students EXCEPT ![i] = Stored(loc[r])]
  /\ Answer(r)
  /\ UNCHANGED <<attendance, images, files, calls, configured, logins, faults>>

(* The INSERT violates UNIQUE: 409.  An uploaded image stays behind. *)
CreateConflict(r) ==
  /\ pc[r] = "insert"
  /\ Taken(loc[r])
  /\ Answer(r)
  /\ UNCHANGED <<store, images, files, calls, configured, logins, faults>>

(* faceClient.Register is sent. *)
SendFace(r) ==
  /\ pc[r] = "face"
  /\ calls' = calls \cup {[id |-> loc[r].id, photo |-> loc[r].photo]}
  /\ Goto(r, "wait")
  /\ UNCHANGED <<store, images, files, configured, loc, logins, faults>>

(* The face service serves a call: a photo without a face is refused, any
   other becomes <id>.jpg. *)
ServeRegister(c) ==
  /\ c \in calls
  /\ calls' = calls \ {c}
  /\ files' = IF c.photo = NoFace THEN files
              ELSE [files EXCEPT ![c.id] = c.photo]
  /\ UNCHANGED <<store, images, configured, pc, loc, logins, faults>>

(* A mutated form of FaceAnswered: the answer waits for the face. *)
FaceAnsweredRegistered(r) ==
  /\ pc[r] = "wait"
  /\ files[loc[r].id] # None
  /\ Answer(r)
  /\ UNCHANGED <<store, images, files, calls, configured, logins, faults>>

(* The face service has answered, or its connection broke: 201 in any case. *)
FaceAnswered(r) ==
  /\ pc[r] = "wait"
  /\ [id |-> loc[r].id, photo |-> loc[r].photo] \notin calls
  /\ Answer(r)
  /\ UNCHANGED <<store, images, files, calls, configured, logins, faults>>

(* The call cannot be sent, or times out while the face service still holds
   it: the error is logged and the answer is 201. *)
FaceFails(r) ==
  /\ pc[r] \in {"face", "wait"}
  /\ Fault
  /\ Answer(r)
  /\ UNCHANGED <<store, images, files, calls, configured, logins>>

-----------------------------------------------------------------------------
(* Face login *)

Registered == {i \in Ids : files[i] # None}

Distance(a, b) == IF a < b THEN b - a ELSE a - b

(* A mutated form of BestMatch: the nearest face, however far. *)
BestMatchNoThreshold(seen, p) ==
  {i \in seen : /\ p # NoFace
                /\ \A j \in seen : Distance(files[i], p) <= Distance(files[j], p)}

(* The ids /recognize may answer with: the nearest of the faces it could
   compare, if it is near enough; equals are resolved by the order in which
   the directory is listed. *)
BestMatch(seen, p) ==
  {i \in seen : /\ p # NoFace
                /\ Distance(files[i], p) <= Threshold
                /\ \A j \in seen : Distance(files[i], p) <= Distance(files[j], p)}

(* POST /api/face-login. *)
FaceLogin(r) ==
  /\ pc[r] = "idle"
  /\ logins < MaxLogins
  /\ logins' = logins + 1
  /\ \E p \in FacePhotos :
       loc' = [loc EXCEPT ![r] = [Blank EXCEPT !.photo = p,
                                               !.login = logins + 1]]
  /\ Goto(r, "recognize")
  /\ UNCHANGED <<store, images, files, calls, configured, faults>>

(* faceClient.Recognize names a student. *)
Recognize(r) ==
  /\ pc[r] = "recognize"
  /\ \E i \in BestMatch(Registered, loc[r].photo) :
       loc' = [loc EXCEPT ![r].id = i]
  /\ Goto(r, "student")
  /\ UNCHANGED <<store, images, files, calls, configured, logins, faults>>

(* Some files cannot be compared; DeepFace's exceptions are skipped. *)
RecognizePartly(r) ==
  /\ pc[r] = "recognize"
  /\ \E seen \in SUBSET Registered : \E i \in BestMatch(seen, loc[r].photo) :
       loc' = [loc EXCEPT ![r].id = i]
  /\ Fault
  /\ Goto(r, "student")
  /\ UNCHANGED <<store, images, files, calls, configured, logins>>

(* No face is registered, none is in the photo (both an error, 500), or none
   is near enough (401). *)
NotRecognized(r) ==
  /\ pc[r] = "recognize"
  /\ BestMatch(Registered, loc[r].photo) = {}
  /\ Answer(r)
  /\ UNCHANGED <<store, images, files, calls, configured, logins, faults>>

(* A mutated form of GetStudentByID: a NULL photo_url fails the scan. *)
GetStudentByIDPhoto(r) ==
  /\ pc[r] = "student"
  /\ IF students[loc[r].id] # None /\ students[loc[r].id].url # 0
     THEN Goto(r, "mark") /\ UNCHANGED loc ELSE Answer(r)
  /\ UNCHANGED <<store, images, files, calls, configured, logins, faults>>

(* GetStudentByID: 404 if there is no such row. *)
GetStudentByID(r) ==
  /\ pc[r] = "student"
  /\ IF students[loc[r].id] # None THEN Goto(r, "mark") /\ UNCHANGED loc
                                   ELSE Answer(r)
  /\ UNCHANGED <<store, images, files, calls, configured, logins, faults>>

(* INSERT INTO attendance: 200. *)
MarkAttendance(r) ==
  /\ pc[r] = "mark"
  /\ attendance' = attendance \cup {[student |-> loc[r].id,
                                    photo |-> loc[r].photo,
                                    login |-> loc[r].login]}
  /\ Answer(r)
  /\ UNCHANGED <<students, images, files, calls, configured, logins, faults>>

-----------------------------------------------------------------------------
(* Faults *)

(* A statement fails (the database is locked, the disk is full), or
   /recognize fails or times out. *)
CallFails(r) ==
  /\ pc[r] \in {"insert", "recognize", "student", "mark"}
  /\ Fault
  /\ Answer(r)
  /\ UNCHANGED <<store, images, files, calls, configured, logins>>

(* The face service stops and is started again: calls in progress are lost,
   the directory stays. *)
ServiceRestart ==
  /\ Fault
  /\ calls' = {}
  /\ UNCHANGED <<store, images, files, configured, pc, loc, logins>>

(* The backend stops and is started again, with or without CLOUDINARY_URL:
   requests in progress end, tables and calls under way stay. *)
Restart ==
  /\ Fault
  /\ pc' = [r \in Requests |-> "idle"]
  /\ loc' = [r \in Requests |-> Blank]
  /\ configured' \in BOOLEAN
  /\ UNCHANGED <<store, images, files, calls, logins>>

-----------------------------------------------------------------------------
Step(r) ==
  \/ Upload(r) \/ UploadRefused(r) \/ CreateStudent(r) \/ CreateConflict(r)
  \/ SendFace(r) \/ FaceAnswered(r) \/ Recognize(r) \/ NotRecognized(r) \/ GetStudentByID(r)
  \/ MarkAttendance(r)

StepFault(r) ==
  UploadFails(r) \/ FaceFails(r) \/ RecognizePartly(r) \/ CallFails(r)

Serve == \E c \in calls : ServeRegister(c)

Next ==
  \/ \E r \in Requests :
       RegisterStudent(r) \/ FaceLogin(r) \/ Step(r) \/ StepFault(r)
  \/ Serve
  \/ ServiceRestart
  \/ Restart

Spec == Init /\ [][Next]_vars

-----------------------------------------------------------------------------
(* Listings: GET /api/students, and the rows that GET /api/attendance selects
   by its JOIN, before it sorts them and cuts the list. *)

ListStudents == {i \in Ids : students[i] # None}

ListAttendance == {a \in attendance : a.student \in ListStudents}

-----------------------------------------------------------------------------
(* Properties *)

(* Every file in FACES_DIR, and every registration still on its way to the
   face service, names a stored student: the row is committed before the
   face is sent.  So FaceLogin never meets "matched student not found in
   database" for want of a row, and the JOIN of ListAttendance drops no
   record. *)
FaceHasStudent ==
  /\ Registered \subseteq ListStudents
  /\ \A c \in calls : c.id \in ListStudents
  /\ attendance = ListAttendance

(* The photo_url of a student leads to the photo that their face was
   registered with, also when several registrations upload and insert at the
   same time. *)
PhotoMatchesFace ==
  \A i \in Ids : (students[i] # None /\ students[i].url # 0) =>
    /\ students[i].url \in DOMAIN images
    /\ files[i] # None => images[students[i].url] = files[i]

(* Attendance is only marked for a student whose registered face is within
   the threshold of the photo of the login, whatever happened between
   recognising the face and writing the record. *)
AttendanceJustified ==
  \A a \in attendance :
    /\ files[a.student] # None
    /\ a.photo # NoFace
    /\ Distance(files[a.student], a.photo) <= Threshold

(* A registered face is never replaced and a student's row never changes: late
   and repeated calls do not touch what is stored. *)
WrittenOnce ==
  [][\A i \in Ids : /\ files[i] # None => files'[i] = files[i]
                    /\ students[i] # None => students'[i] = students[i]]_vars

(* The invariant of the proofs: what a request has learned in earlier calls
   still holds when it makes the next, whatever other requests did meanwhile. *)
Pictured(url, p) == url # 0 => url \in DOMAIN images /\ images[url] = p

Justified(i, p) ==
  files[i] # None /\ p # NoFace /\ Distance(files[i], p) <= Threshold

RequestOK(r) ==
  /\ pc[r] \in {"upload", "insert"} =>
       loc[r].email \in Emails /\ loc[r].number \in Numbers
  /\ pc[r] = "insert" => Pictured(loc[r].url, loc[r].photo)
  /\ pc[r] = "face" =>
       /\ loc[r].id \in ListStudents \ Registered
       /\ Pictured(students[loc[r].id].url, loc[r].photo)
       /\ \A c \in calls : c.id # loc[r].id
       /\ \A q \in Requests \ {r} : pc[q] = "face" => loc[q].id # loc[r].id
  /\ pc[r] \in {"student", "mark"} =>
       loc[r].id \in Ids /\ Justified(loc[r].id, loc[r].photo)

CallOK(c) ==
  /\ c.id \in ListStudents \ Registered
  /\ Pictured(students[c.id].url, c.photo)
  /\ \A d \in calls \ {c} : d.id # c.id

RegistryInv ==
  /\ TypeOK
  /\ FaceHasStudent /\ PhotoMatchesFace /\ AttendanceJustified
  /\ \A r \in Requests : RequestOK(r)
  /\ \A c \in calls : CallOK(c)

(* Every request is answered: no call is waited for in vain, whether a face
   was found in the photo or not. *)
EveryRequestAnswered ==
  \A r \in Requests : pc[r] # "idle" ~> pc[r] = "idle"

(* Once faults have stopped, a login whose photo matches a registered face is
   marked. *)
LoginMarks ==
  \A r \in Requests, n \in 1..MaxLogins :
    (/\ pc[r] = "recognize" /\ loc[r].login = n /\ faults = MaxFaults
     /\ BestMatch(Registered, loc[r].photo) # {})
      ~> \E a \in attendance : a.login = n
=============================================================================
