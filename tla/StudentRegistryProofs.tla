------------------------ MODULE StudentRegistryProofs ------------------------
(* Proof of RegistryInv for any number of requests, students, faces and       *)
(* faults, and of the properties that follow from it.                         *)
EXTENDS StudentRegistry, TLAPS

(* Unless it names its prover, a leaf is tried with SMT, with Zenon, and   *)
(* with SMT again for longer.                                              *)
USE SMTT(30), ZenonT(30), SMTT(60)

-----------------------------------------------------------------------------
(* Types *)

(* A request that has not begun has typed locals. *)
LEMMA BlankType == Blank \in Local
  BY DEF Blank, Local, FacePhotos

(* Setting the id or the URL of a request keeps its locals typed. *)
LEMMA LocalChanged ==
    ASSUME TypeOK, NEW r \in Requests
    PROVE  /\ \A i \in Ids : [loc EXCEPT ![r].id = i] \in [Requests -> Local]
           /\ \A u \in Nat : [loc EXCEPT ![r].url = u] \in [Requests -> Local]
<1>1. loc \in [Requests -> Local]
  BY DEF TypeOK
<1>2. ASSUME NEW i \in Ids PROVE [loc[r] EXCEPT !.id = i] \in Local
  BY <1>1 DEF Local
<1>3. ASSUME NEW u \in Nat PROVE [loc[r] EXCEPT !.url = u] \in Local
  BY <1>1 DEF Local
<1>. QED
  BY <1>1, <1>2, <1>3

(* Answering keeps the types. *)
LEMMA AnswerType ==
    ASSUME TypeOK, NEW r \in Requests, Answer(r)
    PROVE  pc' \in [Requests -> PC] /\ loc' \in [Requests -> Local]
  BY BlankType DEF TypeOK, Answer, Goto, PC

(* A photo that is uploaded is a photo. *)
LEMMA UploadType ==
    ASSUME TypeOK, NEW r \in Requests
    PROVE  Append(images, loc[r].photo) \in Seq(FacePhotos)
<1>1. loc[r].photo \in FacePhotos
  BY DEF TypeOK, Local
<1>. QED
  BY <1>1 DEF TypeOK

(* What the steps of a request do to the types. *)
LEMMA StepType ==
    ASSUME RegistryInv, NEW r \in Requests, Step(r)
    PROVE  TypeOK'
<1>. TypeOK
  BY DEF RegistryInv
<1>. USE DEF Goto
<1>1. CASE Upload(r)
  <2>1. loc' \in [Requests -> Local]
    <3>1. Len(images) + 1 \in Nat
      BY DEF TypeOK
    <3>. QED
      BY <1>1, <3>1, LocalChanged, Zenon DEF Upload
  <2>. QED
    BY <1>1, <2>1, UploadType DEF Upload, TypeOK, PC, store
<1>2. CASE UploadRefused(r)
  BY <1>2, AnswerType DEF UploadRefused, TypeOK, store
<1>3. CASE CreateStudent(r)
  <2>1. PICK i \in Ids : /\ students' = [students EXCEPT ![i] = Stored(loc[r])]
                         /\ loc' = [loc EXCEPT ![r].id = i]
    BY <1>3, Zenon DEF CreateStudent
  <2>2. Stored(loc[r]) \in Student
    <3>1. loc[r].email \in Emails /\ loc[r].number \in Numbers
      BY <1>3 DEF CreateStudent, RegistryInv, RequestOK
    <3>2. loc[r].url \in Nat
      BY DEF TypeOK, Local
    <3>. QED
      BY <3>1, <3>2 DEF Stored, Student
  <2>3. loc' \in [Requests -> Local]
    BY <2>1, LocalChanged
  <2>. QED
    BY <1>3, <2>1, <2>2, <2>3 DEF CreateStudent, TypeOK, PC
<1>4. CASE CreateConflict(r)
  BY <1>4, AnswerType DEF CreateConflict, TypeOK, store
<1>5. CASE SendFace(r)
  <2>1. [id |-> loc[r].id, photo |-> loc[r].photo] \in [id : Ids, photo : FacePhotos]
    <3>1. loc[r].id \in Ids
      BY <1>5 DEF SendFace, RegistryInv, RequestOK, ListStudents
    <3>2. loc[r].photo \in FacePhotos
      BY DEF TypeOK, Local
    <3>. QED
      BY <3>1, <3>2
  <2>. QED
    BY <1>5, <2>1 DEF SendFace, TypeOK, PC, store
<1>6. CASE FaceAnswered(r)
  BY <1>6, AnswerType DEF FaceAnswered, TypeOK, store
<1>7. CASE Recognize(r)
  <2>1. loc' \in [Requests -> Local]
    BY <1>7, LocalChanged DEF Recognize, BestMatch, Registered
  <2>. QED
    BY <1>7, <2>1 DEF Recognize, TypeOK, PC, store
<1>8. CASE NotRecognized(r)
  BY <1>8, AnswerType DEF NotRecognized, TypeOK, store
<1>9. CASE GetStudentByID(r)
  <2>1. pc' \in [Requests -> PC] /\ loc' \in [Requests -> Local]
    BY <1>9, AnswerType DEF GetStudentByID, TypeOK, PC
  <2>. QED
    BY <1>9, <2>1 DEF GetStudentByID, TypeOK, store
<1>10. CASE MarkAttendance(r)
  <2>1. [student |-> loc[r].id, photo |-> loc[r].photo, login |-> loc[r].login]
          \in [student : Ids, photo : FacePhotos, login : Nat]
    <3>1. loc[r].id \in Ids
      BY <1>10 DEF MarkAttendance, RegistryInv, RequestOK
    <3>2. loc[r].photo \in FacePhotos /\ loc[r].login \in Nat
      BY DEF TypeOK, Local
    <3>. QED
      BY <3>1, <3>2
  <2>. QED
    BY <1>10, <2>1, AnswerType DEF MarkAttendance, TypeOK
<1>. QED
  BY <1>1, <1>2, <1>3, <1>4, <1>5, <1>6, <1>7, <1>8, <1>9, <1>10 DEF Step

(* Every step keeps the types. *)
LEMMA TypeStep ==
    ASSUME RegistryInv, [Next]_vars
    PROVE  TypeOK'
<1>. TypeOK
  BY DEF RegistryInv
<1>. USE DEF Goto
<1>1. ASSUME NEW r \in Requests, RegisterStudent(r)
      PROVE  TypeOK'
  <2>1. PICK e \in Emails, n \in Numbers, p \in FacePhotos :
          loc' = [loc EXCEPT ![r] = [Blank EXCEPT !.email = e, !.number = n, !.photo = p]]
    BY <1>1, Zenon DEF RegisterStudent
  <2>2. [Blank EXCEPT !.email = e, !.number = n, !.photo = p] \in Local
    BY BlankType, Zenon DEF Local
  <2>. QED
    BY <1>1, <2>1, <2>2 DEF RegisterStudent, TypeOK, PC, store
<1>2. ASSUME NEW r \in Requests, FaceLogin(r)
      PROVE  TypeOK'
  <2>1. PICK p \in FacePhotos :
          loc' = [loc EXCEPT ![r] = [Blank EXCEPT !.photo = p, !.login = logins + 1]]
    BY <1>2, Zenon DEF FaceLogin
  <2>2. [Blank EXCEPT !.photo = p, !.login = logins + 1] \in Local
    <3>1. logins + 1 \in Nat
      BY DEF TypeOK
    <3>. QED
      BY <3>1, BlankType, Zenon DEF Local
  <2>. QED
    BY <1>2, <2>1, <2>2 DEF FaceLogin, TypeOK, PC, store
<1>3. ASSUME NEW r \in Requests, StepFault(r)
      PROVE  TypeOK'
  <2>0. Fault => faults' \in Nat
    BY DEF Fault, TypeOK
  <2>1. CASE UploadFails(r)
    <3>1. images' \in Seq(FacePhotos)
      BY <2>1, UploadType DEF UploadFails, TypeOK
    <3>. QED
      BY <2>0, <2>1, <3>1, AnswerType DEF UploadFails, TypeOK, store
  <2>2. CASE FaceFails(r)
    BY <2>0, <2>2, AnswerType DEF FaceFails, TypeOK, store
  <2>3. CASE RecognizePartly(r)
    <3>1. loc' \in [Requests -> Local]
      BY <2>3, LocalChanged DEF RecognizePartly, BestMatch, Registered
    <3>. QED
      BY <2>0, <2>3, <3>1 DEF RecognizePartly, TypeOK, PC, store
  <2>4. CASE CallFails(r)
    BY <2>0, <2>4, AnswerType DEF CallFails, TypeOK, store
  <2>. QED
    BY <1>3, <2>1, <2>2, <2>3, <2>4 DEF StepFault
<1>4. ASSUME NEW c \in calls, ServeRegister(c)
      PROVE  TypeOK'
  <2>1. c.id \in Ids /\ (c.photo # NoFace => c.photo \in Faces)
    BY DEF TypeOK, FacePhotos
  <2>. QED
    BY <1>4, <2>1 DEF ServeRegister, TypeOK, store
<1>5. CASE ServiceRestart
  BY <1>5 DEF ServiceRestart, Fault, TypeOK, store
<1>6. CASE Restart
  BY <1>6, BlankType DEF Restart, Fault, TypeOK, store, PC
<1>7. CASE UNCHANGED vars
  BY <1>7 DEF vars, TypeOK
<1>. QED
  BY <1>1, <1>2, <1>3, <1>4, <1>5, <1>6, <1>7, StepType DEF Next, Serve

-----------------------------------------------------------------------------
(* The invariant *)

(* Stored images stay where they are. *)
Grown == \A k \in DOMAIN images : k \in DOMAIN images' /\ images'[k] = images[k]

(* An upload adds an image after the stored ones. *)
LEMMA UploadGrows ==
    ASSUME TypeOK, NEW r \in Requests, images' = Append(images, loc[r].photo)
    PROVE  /\ Grown
           /\ Len(images) + 1 \in DOMAIN images'
           /\ images'[Len(images) + 1] = loc[r].photo
<1>1. loc[r].photo \in FacePhotos /\ images \in Seq(FacePhotos)
  BY DEF TypeOK, Local
<1>. DEFINE p == loc[r].photo
<1>. HIDE DEF p
<1>2. images' = Append(images, p) /\ p \in FacePhotos
  BY <1>1 DEF p
<1>3. Grown
  BY <1>1, <1>2 DEF Grown
<1>4. Len(images) + 1 \in DOMAIN images' /\ images'[Len(images) + 1] = p
  BY <1>1, <1>2
<1>. QED
  BY <1>3, <1>4 DEF p

Moves(r) == \A q \in Requests \ {r} : pc'[q] = pc[q] /\ loc'[q] = loc[q]

(* Answering ends one request and leaves the others alone. *)
LEMMA AnswerMoves ==
    ASSUME TypeOK, NEW r \in Requests, Answer(r)
    PROVE  Moves(r) /\ pc'[r] = "idle"
  BY DEF TypeOK, Answer, Goto, Moves

(* A request whose step leaves students, faces and calls alone: what the
   others rely on still holds. *)
LEMMA QuietStep ==
    ASSUME RegistryInv, TypeOK', NEW r \in Requests,
           UNCHANGED <<students, files, calls>>, Grown, Moves(r),
           pc'[r] # "face", RequestOK(r)',
           \A a \in attendance' : a \in attendance \/ Justified(a.student, a.photo)
    PROVE  RegistryInv'
<1>1. TypeOK /\ FaceHasStudent /\ PhotoMatchesFace /\ AttendanceJustified
  BY DEF RegistryInv
<1>2. Registered' = Registered /\ ListStudents' = ListStudents
  BY DEF Registered, ListStudents
<1>3. AttendanceJustified'
  BY <1>1 DEF AttendanceJustified, Justified
<1>4. FaceHasStudent'
  <2>1. \A a \in attendance' : a.student \in Registered
    BY <1>3 DEF AttendanceJustified, Registered, TypeOK
  <2>. QED
    BY <1>1, <1>2, <2>1 DEF FaceHasStudent, ListAttendance
<1>5. PhotoMatchesFace'
  BY <1>1 DEF PhotoMatchesFace, Grown
<1>6. ASSUME NEW q \in Requests PROVE RequestOK(q)'
  <2>1. CASE q # r
    <3>1. RequestOK(q) /\ pc'[q] = pc[q] /\ loc'[q] = loc[q]
      BY <2>1 DEF RegistryInv, Moves
    <3>2. \A p \in Requests \ {q} : pc'[p] = "face" => pc[p] = "face" /\ loc'[p] = loc[p]
      BY DEF Moves
    <3>. QED
      BY <1>2, <3>1, <3>2 DEF RequestOK, Pictured, Justified, Grown
  <2>. QED
    BY <2>1
<1>7. ASSUME NEW c \in calls' PROVE CallOK(c)'
  <2>1. CallOK(c)
    BY DEF RegistryInv
  <2>. QED
    BY <1>2, <2>1 DEF CallOK, Pictured, Grown
<1>. QED
  BY <1>3, <1>4, <1>5, <1>6, <1>7 DEF RegistryInv

(* An answer, by any of the handlers' exits. *)
LEMMA AnswerStep ==
    ASSUME RegistryInv, TypeOK', NEW r \in Requests, Answer(r),
           UNCHANGED <<students, files, calls>>, Grown,
           \A a \in attendance' : a \in attendance \/ Justified(a.student, a.photo)
    PROVE  RegistryInv'
<1>1. Moves(r) /\ pc'[r] = "idle"
  BY AnswerMoves DEF RegistryInv
<1>2. RequestOK(r)'
  BY <1>1 DEF RequestOK
<1>. QED
  BY <1>1, <1>2, QuietStep

(* Recognition, of all the registered faces or of some. *)
LEMMA RecognizeStep ==
    ASSUME RegistryInv, TypeOK', NEW r \in Requests, NEW seen \in SUBSET Registered,
           NEW i \in BestMatch(seen, loc[r].photo),
           loc' = [loc EXCEPT ![r].id = i], Goto(r, "student"),
           UNCHANGED <<students, files, calls, images, attendance>>
    PROVE  RegistryInv'
<1>1. /\ Moves(r) /\ pc'[r] = "student"
      /\ loc'[r].id = i /\ loc'[r].photo = loc[r].photo
  <2>1. loc \in [Requests -> Local] /\ pc \in [Requests -> PC]
    BY DEF RegistryInv, TypeOK
  <2>. QED
    BY <2>1 DEF Goto, Moves, Local
<1>2. i \in Ids /\ Justified(i, loc[r].photo)
  BY DEF BestMatch, Registered, Justified
<1>3. RequestOK(r)'
  BY <1>1, <1>2 DEF RequestOK, Justified
<1>4. Grown
  BY DEF Grown
<1>. QED
  BY <1>1, <1>3, <1>4, QuietStep

(* A new student: no file, no call and no other request has the fresh id. *)
LEMMA CreateStudentStep ==
    ASSUME RegistryInv, TypeOK', NEW r \in Requests, CreateStudent(r)
    PROVE  RegistryInv'
<1>1. TypeOK /\ FaceHasStudent /\ PhotoMatchesFace /\ AttendanceJustified
  BY DEF RegistryInv
<1>2. PICK i \in Ids : /\ students[i] = None
                       /\ students' = [students EXCEPT ![i] = Stored(loc[r])]
                       /\ loc' = [loc EXCEPT ![r].id = i]
  BY Zenon DEF CreateStudent
<1>3. UNCHANGED <<attendance, images, files, calls>>
  BY DEF CreateStudent
<1>4. /\ students'[i] = Stored(loc[r]) /\ students'[i] # None
      /\ \A j \in Ids : j # i => students'[j] = students[j]
  <2>1. students'[i] = Stored(loc[r]) /\ \A j \in Ids : j # i => students'[j] = students[j]
    BY <1>1, <1>2 DEF TypeOK
  <2>2. Stored(loc[r]) \in Student
    <3>1. loc[r].email \in Emails /\ loc[r].number \in Numbers
      BY DEF CreateStudent, RegistryInv, RequestOK
    <3>2. loc[r].url \in Nat
      BY <1>1 DEF TypeOK, Local
    <3>. QED
      BY <3>1, <3>2 DEF Stored, Student
  <2>. QED
    BY <2>1, <2>2, RegistryConstants DEF Student
<1>5. /\ Moves(r) /\ pc'[r] = "face"
      /\ loc'[r].id = i /\ loc'[r].photo = loc[r].photo
  <2>1. loc \in [Requests -> Local] /\ pc \in [Requests -> PC]
    BY <1>1 DEF TypeOK
  <2>2. pc' = [pc EXCEPT ![r] = "face"]
    BY DEF CreateStudent, Goto
  <2>. QED
    BY <1>2, <2>1, <2>2 DEF Moves, Local
<1>6. Registered' = Registered /\ ListStudents' = ListStudents \cup {i} /\ i \notin ListStudents
  BY <1>2, <1>3, <1>4 DEF Registered, ListStudents
<1>7. i \notin Registered /\ \A c \in calls : c.id # i
  BY <1>1, <1>6 DEF FaceHasStudent
<1>8. Pictured(students'[i].url, loc[r].photo)
  <2>1. Pictured(loc[r].url, loc[r].photo)
    BY DEF RegistryInv, RequestOK, CreateStudent
  <2>. QED
    BY <1>4, <2>1 DEF Stored
<1>9. FaceHasStudent'
  BY <1>1, <1>3, <1>6 DEF FaceHasStudent, ListAttendance
<1>10. PhotoMatchesFace'
  <2>. SUFFICES ASSUME NEW j \in Ids, students'[j] # None, students'[j].url # 0
                PROVE  /\ students'[j].url \in DOMAIN images
                       /\ files[j] # None => images[students'[j].url] = files[j]
    BY <1>3 DEF PhotoMatchesFace
  <2>1. CASE j = i
    BY <1>7, <1>8, <2>1 DEF Pictured, Registered
  <2>2. CASE j # i
    BY <1>1, <1>4, <2>2 DEF PhotoMatchesFace
  <2>. QED
    BY <2>1, <2>2
<1>11. AttendanceJustified'
  BY <1>1, <1>3 DEF AttendanceJustified
<1>12. ASSUME NEW q \in Requests PROVE RequestOK(q)'
  <2>1. CASE q = r
    <3>1. \A p \in Requests \ {r} : pc'[p] = "face" => loc'[p].id # i
      <4>1. \A p \in Requests \ {r} : pc[p] = "face" => loc[p].id \in ListStudents
        BY DEF RegistryInv, RequestOK
      <4>. QED
        BY <1>5, <1>6, <4>1 DEF Moves
    <3>. QED
      BY <1>3, <1>5, <1>6, <1>7, <1>8, <2>1, <3>1 DEF RequestOK, Pictured
  <2>2. CASE q # r
    <3>1. RequestOK(q) /\ pc'[q] = pc[q] /\ loc'[q] = loc[q]
      BY <1>5, <2>2 DEF RegistryInv, Moves
    <3>2. CASE pc[q] = "face"
      <4>1. /\ loc[q].id \in ListStudents \ Registered
            /\ Pictured(students[loc[q].id].url, loc[q].photo)
            /\ \A c \in calls : c.id # loc[q].id
            /\ \A p \in Requests \ {q} : pc[p] = "face" => loc[p].id # loc[q].id
        BY <3>1, <3>2 DEF RequestOK
      <4>2. loc[q].id # i /\ students'[loc[q].id] = students[loc[q].id]
        BY <1>4, <1>6, <4>1 DEF ListStudents
      <4>3. \A p \in Requests \ {q} : pc'[p] = "face" => loc'[p].id # loc[q].id
        BY <1>5, <4>1, <4>2 DEF Moves
      <4>. QED
        BY <1>3, <1>6, <3>1, <3>2, <4>1, <4>2, <4>3 DEF RequestOK, Pictured
    <3>3. CASE pc[q] # "face"
      BY <1>3, <3>1, <3>3 DEF RequestOK, Pictured, Justified
    <3>. QED
      BY <3>2, <3>3
  <2>. QED
    BY <2>1, <2>2
<1>13. ASSUME NEW c \in calls' PROVE CallOK(c)'
  <2>1. CallOK(c) /\ c \in calls
    BY <1>3, <1>13 DEF RegistryInv
  <2>2. students'[c.id] = students[c.id]
    BY <1>4, <1>7, <2>1 DEF CallOK, ListStudents
  <2>. QED
    BY <1>3, <1>6, <2>1, <2>2 DEF CallOK, Pictured
<1>. QED
  BY <1>9, <1>10, <1>11, <1>12, <1>13 DEF RegistryInv

(* The face is sent: its call is the only one with this id. *)
LEMMA SendFaceStep ==
    ASSUME RegistryInv, TypeOK', NEW r \in Requests, SendFace(r)
    PROVE  RegistryInv'
<1>. DEFINE new == [id |-> loc[r].id, photo |-> loc[r].photo]
<1>1. TypeOK /\ FaceHasStudent /\ PhotoMatchesFace /\ AttendanceJustified
  BY DEF RegistryInv
<1>2. /\ calls' = calls \cup {new} /\ new.id = loc[r].id /\ new.photo = loc[r].photo
      /\ UNCHANGED <<students, attendance, images, files, loc>>
  BY DEF SendFace, store
<1>3. /\ pc[r] = "face" /\ pc'[r] = "wait"
      /\ \A q \in Requests \ {r} : pc'[q] = pc[q]
  BY <1>1 DEF SendFace, Goto, TypeOK
<1>4. /\ loc[r].id \in ListStudents \ Registered
      /\ Pictured(students[loc[r].id].url, loc[r].photo)
      /\ \A c \in calls : c.id # loc[r].id
      /\ \A q \in Requests \ {r} : pc[q] = "face" => loc[q].id # loc[r].id
  BY <1>3 DEF RegistryInv, RequestOK
<1>. HIDE DEF new
<1>5. Registered' = Registered /\ ListStudents' = ListStudents
  BY <1>2 DEF Registered, ListStudents
<1>6. FaceHasStudent' /\ PhotoMatchesFace' /\ AttendanceJustified'
  <2>1. FaceHasStudent'
    BY <1>1, <1>2, <1>4, <1>5 DEF FaceHasStudent, ListAttendance
  <2>. QED
    BY <1>1, <1>2, <2>1 DEF PhotoMatchesFace, AttendanceJustified
<1>7. ASSUME NEW q \in Requests PROVE RequestOK(q)'
  <2>1. CASE q = r
    BY <1>3, <2>1 DEF RequestOK
  <2>2. CASE q # r
    <3>1. RequestOK(q) /\ pc'[q] = pc[q] /\ loc'[q] = loc[q]
      BY <1>2, <1>3, <2>2 DEF RegistryInv
    <3>2. CASE pc[q] = "face"
      <4>1. /\ loc[q].id \in ListStudents \ Registered
            /\ Pictured(students[loc[q].id].url, loc[q].photo)
            /\ \A c \in calls : c.id # loc[q].id
            /\ \A p \in Requests \ {q} : pc[p] = "face" => loc[p].id # loc[q].id
        BY <3>1, <3>2 DEF RequestOK
      <4>2. \A c \in calls' : c.id # loc[q].id
        BY <1>2, <1>4, <2>2, <3>2, <4>1
      <4>3. \A p \in Requests \ {q} : pc'[p] = "face" => loc'[p].id # loc[q].id
        BY <1>2, <1>3, <4>1
      <4>. QED
        BY <1>2, <1>5, <3>1, <3>2, <4>1, <4>2, <4>3 DEF RequestOK, Pictured
    <3>3. CASE pc[q] # "face"
      BY <1>2, <3>1, <3>3 DEF RequestOK, Pictured, Justified
    <3>. QED
      BY <3>2, <3>3
  <2>. QED
    BY <2>1, <2>2
<1>8. ASSUME NEW c \in calls' PROVE CallOK(c)'
  <2>1. CASE c = new
    BY <1>2, <1>4, <1>5, <2>1 DEF CallOK, Pictured
  <2>2. CASE c \in calls
    <3>1. CallOK(c)
      BY <2>2 DEF RegistryInv
    <3>2. \A d \in calls' \ {c} : d.id # c.id
      BY <1>2, <1>4, <2>2, <3>1 DEF CallOK
    <3>. QED
      BY <1>2, <1>5, <3>1, <3>2 DEF CallOK, Pictured
  <2>. QED
    BY <1>2, <1>8, <2>1, <2>2
<1>. QED
  BY <1>6, <1>7, <1>8 DEF RegistryInv

(* The face service stores a face: no other call and no request that is about
   to send one has this id, and no earlier file did. *)
LEMMA ServeStep ==
    ASSUME RegistryInv, TypeOK', NEW c \in calls, ServeRegister(c)
    PROVE  RegistryInv'
<1>1. TypeOK /\ FaceHasStudent /\ PhotoMatchesFace /\ AttendanceJustified
  BY DEF RegistryInv
<1>2. calls' = calls \ {c} /\ UNCHANGED <<students, attendance, images, pc, loc>>
  BY DEF ServeRegister, store
<1>3. /\ c.id \in ListStudents \ Registered /\ c.id \in Ids
      /\ Pictured(students[c.id].url, c.photo)
      /\ \A d \in calls \ {c} : d.id # c.id
  BY DEF RegistryInv, CallOK, ListStudents
<1>4. /\ \A i \in Ids : i # c.id => files'[i] = files[i]
      /\ files'[c.id] \in {files[c.id], c.photo}
  <2>1. files \in [Ids -> Faces \cup {None}]
    BY <1>1 DEF TypeOK
  <2>2. files' = IF c.photo = NoFace THEN files ELSE [files EXCEPT ![c.id] = c.photo]
    BY DEF ServeRegister
  <2>. QED
    BY <1>3, <2>1, <2>2
<1>5. files[c.id] = None
  BY <1>3 DEF Registered
<1>6. ListStudents' = ListStudents /\ Registered' \subseteq Registered \cup {c.id}
  BY <1>2, <1>4 DEF ListStudents, Registered
<1>7. \A i \in Ids, p \in FacePhotos : Justified(i, p) => files'[i] = files[i]
  BY <1>4, <1>5 DEF Justified
<1>8. FaceHasStudent'
  BY <1>1, <1>2, <1>3, <1>6 DEF FaceHasStudent, ListAttendance
<1>9. PhotoMatchesFace'
  <2>. SUFFICES ASSUME NEW j \in Ids, students[j] # None, students[j].url # 0
                PROVE  /\ students[j].url \in DOMAIN images
                       /\ files'[j] # None => images[students[j].url] = files'[j]
    BY <1>2 DEF PhotoMatchesFace
  <2>1. CASE j = c.id
    BY <1>3, <1>4, <1>5, <2>1 DEF Pictured
  <2>2. CASE j # c.id
    BY <1>1, <1>4, <2>2 DEF PhotoMatchesFace
  <2>. QED
    BY <2>1, <2>2
<1>10. AttendanceJustified'
  <2>1. ASSUME NEW a \in attendance
        PROVE  /\ files'[a.student] = files[a.student] /\ files[a.student] # None
               /\ a.photo # NoFace /\ Distance(files[a.student], a.photo) <= Threshold
    <3>1. a.student \in Ids /\ a.photo \in FacePhotos
      BY <1>1 DEF TypeOK
    <3>2. Justified(a.student, a.photo)
      BY <1>1 DEF AttendanceJustified, Justified
    <3>. QED
      BY <1>7, <3>1, <3>2 DEF Justified
  <2>. QED
    BY <1>2, <2>1 DEF AttendanceJustified
<1>11. ASSUME NEW q \in Requests PROVE RequestOK(q)'
  <2>1. RequestOK(q) /\ loc[q].photo \in FacePhotos
    BY <1>1 DEF RegistryInv, TypeOK, Local
  <2>2. CASE pc[q] = "face"
    <3>1. /\ loc[q].id \in ListStudents \ Registered
          /\ Pictured(students[loc[q].id].url, loc[q].photo)
          /\ \A d \in calls : d.id # loc[q].id
          /\ \A p \in Requests \ {q} : pc[p] = "face" => loc[p].id # loc[q].id
      BY <2>1, <2>2 DEF RequestOK
    <3>. QED
      BY <1>2, <1>6, <2>2, <3>1 DEF RequestOK, Pictured
  <2>3. CASE pc[q] \in {"student", "mark"}
    <3>1. loc[q].id \in Ids /\ Justified(loc[q].id, loc[q].photo)
      BY <2>1, <2>3 DEF RequestOK
    <3>2. files'[loc[q].id] = files[loc[q].id]
      BY <1>7, <2>1, <3>1
    <3>. QED
      BY <1>2, <2>3, <3>1, <3>2 DEF RequestOK, Justified
  <2>4. CASE pc[q] \notin {"face", "student", "mark"}
    BY <1>2, <2>1, <2>4 DEF RequestOK, Pictured
  <2>. QED
    BY <2>2, <2>3, <2>4
<1>12. ASSUME NEW d \in calls' PROVE CallOK(d)'
  <2>1. d \in calls /\ CallOK(d) /\ d.id # c.id
    BY <1>2, <1>3, <1>12 DEF RegistryInv
  <2>. QED
    BY <1>2, <1>6, <2>1 DEF CallOK, Pictured
<1>. QED
  BY <1>8, <1>9, <1>10, <1>11, <1>12 DEF RegistryInv

(* The steps of a request keep the invariant. *)
LEMMA StepPreserves ==
    ASSUME RegistryInv, TypeOK', NEW r \in Requests, Step(r)
    PROVE  RegistryInv'
<1>1. CASE Upload(r)
  <2>1. /\ images' = Append(images, loc[r].photo) /\ loc' = [loc EXCEPT ![r].url = Len(images) + 1]
        /\ pc' = [pc EXCEPT ![r] = "insert"] /\ pc[r] = "upload"
        /\ UNCHANGED <<students, attendance, files, calls>>
    BY <1>1 DEF Upload, Goto, store
  <2>2. loc \in [Requests -> Local] /\ pc \in [Requests -> PC]
    BY DEF RegistryInv, TypeOK
  <2>3. /\ Moves(r) /\ pc'[r] = "insert" /\ loc'[r].url = Len(images) + 1
        /\ loc'[r].photo = loc[r].photo /\ loc'[r].email = loc[r].email
        /\ loc'[r].number = loc[r].number
    BY <2>1, <2>2 DEF Moves, Local
  <2>4. /\ Grown /\ Len(images) + 1 \in DOMAIN images'
        /\ images'[Len(images) + 1] = loc[r].photo
    BY <2>1, UploadGrows DEF RegistryInv
  <2>5. loc[r].email \in Emails /\ loc[r].number \in Numbers
    BY <2>1 DEF RegistryInv, RequestOK
  <2>6. RequestOK(r)'
    BY <2>3, <2>4, <2>5 DEF RequestOK, Pictured
  <2>. QED
    BY <2>1, <2>3, <2>4, <2>6, QuietStep
<1>2. CASE UploadRefused(r) \/ CreateConflict(r) \/ FaceAnswered(r) \/ NotRecognized(r)
  <2>1. Answer(r) /\ UNCHANGED <<students, attendance, images, files, calls>>
    BY <1>2 DEF UploadRefused, CreateConflict, FaceAnswered, NotRecognized, store
  <2>2. Grown
    BY <2>1 DEF Grown
  <2>. QED
    BY <2>1, <2>2, AnswerStep
<1>3. CASE Recognize(r)
  <2>1. PICK i \in BestMatch(Registered, loc[r].photo) : loc' = [loc EXCEPT ![r].id = i]
    BY <1>3, Zenon DEF Recognize
  <2>2. Goto(r, "student") /\ UNCHANGED <<students, files, calls, images, attendance>>
    BY <1>3 DEF Recognize, store
  <2>3. Registered \in SUBSET Registered
    OBVIOUS
  <2>. QED
    BY <2>1, <2>2, <2>3, RecognizeStep, Zenon
<1>4. CASE GetStudentByID(r)
  <2>1. pc[r] = "student" /\ UNCHANGED <<students, attendance, images, files, calls>>
    BY <1>4 DEF GetStudentByID, store
  <2>2. Grown
    BY <2>1 DEF Grown
  <2>3. CASE Answer(r)
    BY <2>1, <2>2, <2>3, AnswerStep
  <2>4. CASE Goto(r, "mark") /\ UNCHANGED loc
    <3>1. Moves(r) /\ pc'[r] = "mark" /\ loc'[r] = loc[r]
      BY <2>4 DEF Goto, Moves, RegistryInv, TypeOK
    <3>2. loc[r].id \in Ids /\ Justified(loc[r].id, loc[r].photo)
      BY <2>1 DEF RegistryInv, RequestOK
    <3>3. RequestOK(r)'
      BY <2>1, <3>1, <3>2 DEF RequestOK, Justified
    <3>. QED
      BY <2>1, <2>2, <3>1, <3>3, QuietStep
  <2>. QED
    BY <1>4, <2>3, <2>4 DEF GetStudentByID
<1>5. CASE MarkAttendance(r)
  <2>1. /\ Answer(r) /\ UNCHANGED <<students, images, files, calls>>
        /\ attendance' = attendance \cup {[student |-> loc[r].id, photo |-> loc[r].photo,
                                           login |-> loc[r].login]}
    BY <1>5 DEF MarkAttendance
  <2>2. Justified(loc[r].id, loc[r].photo)
    BY <1>5 DEF MarkAttendance, RegistryInv, RequestOK
  <2>3. \A a \in attendance' : a \in attendance \/ Justified(a.student, a.photo)
    BY <2>1, <2>2
  <2>4. Grown
    BY <2>1 DEF Grown
  <2>. QED
    BY <2>1, <2>3, <2>4, AnswerStep
<1>. QED
  BY <1>1, <1>2, <1>3, <1>4, <1>5, CreateStudentStep, SendFaceStep DEF Step

(* So do the faults a request meets. *)
LEMMA FaultPreserves ==
    ASSUME RegistryInv, TypeOK', NEW r \in Requests, StepFault(r)
    PROVE  RegistryInv'
<1>1. CASE UploadFails(r)
  <2>1. Answer(r) /\ UNCHANGED <<students, attendance, files, calls>>
    BY <1>1 DEF UploadFails, store
  <2>2. images' = images \/ images' = Append(images, loc[r].photo)
    BY <1>1 DEF UploadFails
  <2>3. Grown
    <3>1. CASE images' = images
      BY <3>1 DEF Grown
    <3>2. CASE images' = Append(images, loc[r].photo)
      BY <3>2, UploadGrows DEF RegistryInv
    <3>. QED
      BY <2>2, <3>1, <3>2
  <2>. QED
    BY <2>1, <2>3, AnswerStep
<1>2. CASE FaceFails(r) \/ CallFails(r)
  <2>1. Answer(r) /\ UNCHANGED <<students, attendance, images, files, calls>>
    BY <1>2 DEF FaceFails, CallFails, store
  <2>2. Grown
    BY <2>1 DEF Grown
  <2>. QED
    BY <2>1, <2>2, AnswerStep
<1>3. CASE RecognizePartly(r)
  <2>1. PICK seen \in SUBSET Registered : \E i \in BestMatch(seen, loc[r].photo) :
          loc' = [loc EXCEPT ![r].id = i]
    BY <1>3, Zenon DEF RecognizePartly
  <2>2. PICK i \in BestMatch(seen, loc[r].photo) : loc' = [loc EXCEPT ![r].id = i]
    BY <2>1, Zenon
  <2>3. Goto(r, "student") /\ UNCHANGED <<students, files, calls, images, attendance>>
    BY <1>3 DEF RecognizePartly, store
  <2>. QED
    BY <2>2, <2>3, RecognizeStep, Zenon
<1>. QED
  BY <1>1, <1>2, <1>3 DEF StepFault

(* Requests and logins that begin know nothing yet. *)
LEMMA BeginPreserves ==
    ASSUME RegistryInv, TypeOK', NEW r \in Requests, RegisterStudent(r) \/ FaceLogin(r)
    PROVE  RegistryInv'
<1>1. UNCHANGED <<students, attendance, images, files, calls>>
  BY Zenon DEF RegisterStudent, FaceLogin, store
<1>2. loc \in [Requests -> Local] /\ pc \in [Requests -> PC]
  BY DEF RegistryInv, TypeOK
<1>3. Grown
  BY <1>1 DEF Grown
<1>4. CASE RegisterStudent(r)
  <2>1. PICK e \in Emails, n \in Numbers, p \in FacePhotos :
          loc' = [loc EXCEPT ![r] = [Blank EXCEPT !.email = e, !.number = n, !.photo = p]]
    BY <1>4, Zenon DEF RegisterStudent
  <2>2. /\ Moves(r) /\ pc'[r] \in {"upload", "insert"}
        /\ loc'[r] = [Blank EXCEPT !.email = e, !.number = n, !.photo = p]
    BY <1>2, <1>4, <2>1, Zenon DEF RegisterStudent, Goto, Moves
  <2>3. loc'[r].email = e /\ loc'[r].number = n /\ loc'[r].url = 0
    BY <2>2 DEF Blank
  <2>4. RequestOK(r)'
    BY <2>2, <2>3 DEF RequestOK, Pictured
  <2>. QED
    BY <1>1, <1>3, <2>2, <2>4, QuietStep
<1>5. CASE FaceLogin(r)
  <2>1. Moves(r) /\ pc'[r] = "recognize"
    BY <1>2, <1>5, Zenon DEF FaceLogin, Goto, Moves
  <2>2. RequestOK(r)'
    BY <2>1 DEF RequestOK
  <2>. QED
    BY <1>1, <1>3, <2>1, <2>2, QuietStep
<1>. QED
  BY <1>4, <1>5

(* A restart of the face service forgets calls, one of the backend forgets
   requests; what is stored stays. *)
LEMMA RestartPreserves ==
    ASSUME RegistryInv, TypeOK', ServiceRestart \/ Restart \/ UNCHANGED vars
    PROVE  RegistryInv'
<1>1. UNCHANGED <<students, attendance, images, files>>
  BY DEF ServiceRestart, Restart, vars, store
<1>2. calls' \subseteq calls
  BY DEF ServiceRestart, Restart, vars
<1>3. \A q \in Requests : pc'[q] = "idle" \/ (pc'[q] = pc[q] /\ loc'[q] = loc[q])
  BY DEF ServiceRestart, Restart, vars
<1>4. TypeOK /\ FaceHasStudent /\ PhotoMatchesFace /\ AttendanceJustified
  BY DEF RegistryInv
<1>5. Registered' = Registered /\ ListStudents' = ListStudents
  BY <1>1 DEF Registered, ListStudents
<1>6. FaceHasStudent' /\ PhotoMatchesFace' /\ AttendanceJustified'
  <2>1. FaceHasStudent'
    BY <1>1, <1>2, <1>4, <1>5 DEF FaceHasStudent, ListAttendance
  <2>. QED
    BY <1>1, <1>4, <2>1 DEF PhotoMatchesFace, AttendanceJustified
<1>7. ASSUME NEW q \in Requests PROVE RequestOK(q)'
  <2>1. RequestOK(q)
    BY DEF RegistryInv
  <2>2. \A p \in Requests : pc'[p] = "face" => pc[p] = "face" /\ loc'[p] = loc[p]
    BY <1>3
  <2>. QED
    BY <1>1, <1>2, <1>3, <1>5, <2>1, <2>2 DEF RequestOK, Pictured, Justified
<1>8. ASSUME NEW c \in calls' PROVE CallOK(c)'
  <2>1. CallOK(c)
    BY <1>2, <1>8 DEF RegistryInv
  <2>. QED
    BY <1>1, <1>2, <1>5, <2>1 DEF CallOK, Pictured
<1>. QED
  BY <1>6, <1>7, <1>8 DEF RegistryInv

(* RegistryInv always holds. *)
THEOREM RegistryInvariance == Spec => []RegistryInv
<1>1. Init => RegistryInv
  <2>. SUFFICES ASSUME Init PROVE RegistryInv
    OBVIOUS
  <2>1. TypeOK
    BY BlankType DEF Init, TypeOK, PC
  <2>2. (\A i \in Ids : students[i] = None /\ files[i] = None) /\ attendance = {} /\ calls = {}
    BY DEF Init
  <2>3. FaceHasStudent /\ PhotoMatchesFace /\ AttendanceJustified
    BY <2>2 DEF FaceHasStudent, PhotoMatchesFace, AttendanceJustified, Registered, ListAttendance
  <2>4. \A r \in Requests : RequestOK(r)
    BY DEF Init, RequestOK
  <2>. QED
    BY <2>1, <2>2, <2>3, <2>4 DEF RegistryInv
<1>2. RegistryInv /\ [Next]_vars => RegistryInv'
  <2>. SUFFICES ASSUME RegistryInv, [Next]_vars PROVE RegistryInv'
    OBVIOUS
  <2>1. TypeOK'
    BY TypeStep
  <2>. QED
    BY <2>1, BeginPreserves, StepPreserves, FaultPreserves, ServeStep, RestartPreserves
       DEF Next, Serve
<1>. QED
  BY <1>1, <1>2, PTL DEF Spec

(* A student's photo_url leads to the photo their face was registered with. *)
THEOREM PhotosMatchFaces == Spec => []PhotoMatchesFace
<1>1. RegistryInv => PhotoMatchesFace
  BY DEF RegistryInv
<1>. QED
  BY <1>1, RegistryInvariance, PTL

(* Attendance is marked only for the student whose face was shown. *)
THEOREM AttendanceAlwaysJustified == Spec => []AttendanceJustified
<1>1. RegistryInv => AttendanceJustified
  BY DEF RegistryInv
<1>. QED
  BY <1>1, RegistryInvariance, PTL

(* Faces and rows are written once: the insert takes a fresh id, and the call
   that stores a face is the only one with its id. *)
THEOREM RegistryWrittenOnce == Spec => WrittenOnce
<1>. DEFINE Kept == \A i \in Ids : /\ files[i] # None => files'[i] = files[i]
                                   /\ students[i] # None => students'[i] = students[i]
<1>1. RegistryInv /\ [Next]_vars => [Kept]_vars
  <2>. SUFFICES ASSUME RegistryInv, [Next]_vars PROVE Kept
    OBVIOUS
  <2>1. ASSUME NEW r \in Requests, CreateStudent(r)
        PROVE  Kept
    <3>1. PICK i \in Ids : students[i] = None /\ students' = [students EXCEPT ![i] = Stored(loc[r])]
      BY <2>1, Zenon DEF CreateStudent
    <3>2. files' = files /\ students \in [Ids -> Student \cup {None}]
      BY <2>1 DEF CreateStudent, RegistryInv, TypeOK
    <3>. QED
      BY <3>1, <3>2
  <2>2. ASSUME NEW c \in calls, ServeRegister(c)
        PROVE  Kept
    <3>1. c.id \in Ids /\ files[c.id] = None
      BY DEF RegistryInv, CallOK, ListStudents, Registered
    <3>2. students' = students /\ files \in [Ids -> Faces \cup {None}]
      BY <2>2 DEF ServeRegister, store, RegistryInv, TypeOK
    <3>3. files' = files \/ files' = [files EXCEPT ![c.id] = c.photo]
      BY <2>2 DEF ServeRegister
    <3>. QED
      BY <3>1, <3>2, <3>3
  <2>3. ASSUME NEW r \in Requests,
               RegisterStudent(r) \/ FaceLogin(r) \/ StepFault(r) \/ (Step(r) /\ ~CreateStudent(r))
        PROVE  UNCHANGED <<students, files>>
    <3>1. CASE RegisterStudent(r) \/ FaceLogin(r) \/ StepFault(r)
      BY <3>1, Zenon DEF RegisterStudent, FaceLogin, StepFault, UploadFails, FaceFails,
                  RecognizePartly, CallFails, store
    <3>2. CASE Step(r) /\ ~CreateStudent(r)
      BY <3>2 DEF Step, Upload, UploadRefused, CreateConflict, SendFace, FaceAnswered,
                  Recognize, NotRecognized, GetStudentByID, MarkAttendance, store
    <3>. QED
      BY <2>3, <3>1, <3>2
  <2>4. CASE ServiceRestart \/ Restart \/ UNCHANGED vars
    BY <2>4 DEF ServiceRestart, Restart, vars, store
  <2>. QED
    BY <2>1, <2>2, <2>3, <2>4 DEF Next, Serve, Step
<1>. QED
  BY <1>1, RegistryInvariance, PTL DEF Spec, WrittenOnce
=============================================================================
