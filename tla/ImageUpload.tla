---------------------------- MODULE ImageUpload ----------------------------
(***************************************************************************)
(* POST /v1/upload (src/cmd/api/main.go) and the Cloudinary client         *)
(* (src/internal/cloudinary/client.go).  Each element of Requests is one   *)
(* request.  Its form is signed, sent, and stored by Cloudinary at some    *)
(* later moment, perhaps after the client's timeout of 30 seconds.         *)
(*                                                                         *)
(* SHA-1 is taken to be injective, so a signature is the text that was     *)
(* hashed: the "key=value" pairs in order, then the secret.  The order in  *)
(* which Go ranges over a map is a free choice of each range statement.    *)
(***************************************************************************)
EXTENDS Integers, Sequences, FiniteSets

CONSTANTS
    Requests,   \* upload requests
    Photos,     \* image contents
    ApiKey,     \* CLOUDINARY_API_KEY
    Secret,     \* CLOUDINARY_API_SECRET
    Folder,     \* CLOUDINARY_FOLDER, "attendance" unless it is set
    Decimal,    \* strconv.FormatInt: the text of a time
    MaxTime,    \* bound on the clock
    MaxFaults,  \* bound on timeouts, errors and lost answers
    None

UploadConstants ==
    /\ IsFiniteSet(Requests)
    /\ MaxTime \in Nat /\ MaxFaults \in Nat
    /\ \A t \in 0..MaxTime : Decimal[t] # ""
    /\ None \notin Nat
    /\ None \notin [status : Nat, url : Nat \cup {None}]

VARIABLES
    configured, \* all three Cloudinary variables are set: cdnClient # nil
    clock,      \* time.Now().Unix()
    images,     \* what Cloudinary stores; the URL of an image is its index
    pc,         \* per request: "idle", "sent", "replied", "done"
    body,       \* per request: content type and image
    net,        \* forms on their way to Cloudinary, by request
    reply,      \* per request: Cloudinary's answer, an index or None
    answer,     \* per request: [status, url] the caller gets
    faults

vars == <<configured, clock, images, pc, body, net, reply, answer, faults>>

ContentTypes == {"multipart/form-data", "application/json"}

---------------------------------------------------------------------------
(* Signing.                                                                *)

(* The byte order of the keys that occur, which orders "key=value" pairs.  *)
KeyOrder == <<"api_key", "file", "folder", "resource_type", "signature", "timestamp">>

Before(k, l) ==
    \E i, j \in DOMAIN KeyOrder : KeyOrder[i] = k /\ KeyOrder[j] = l /\ i < j

(* The keys of S in any order.                                             *)
Orders(S) ==
    {s \in [1..Cardinality(S) -> S] : \A i, j \in DOMAIN s : s[i] = s[j] => i = j}

(* sort.Strings on the keys of S.                                          *)
Sorted(S) ==
    CHOOSE s \in Orders(S) : \A i, j \in DOMAIN s : i < j => Before(s[i], s[j])

Pairs(m, keys) == [i \in DOMAIN keys |-> <<keys[i], m[keys[i]]>>]

(* The keys that sign does not skip.                                       *)
Signed(params) ==
    {k \in DOMAIN params : k \notin {"api_key", "file", "resource_type"} /\ params[k] # ""}

(* A mutated form of sign: the pairs in the order the map was visited.     *)
signUnsorted(params, order) == <<Pairs(params, order), Secret>>

(* order: the keys that are not skipped, as the map was visited.           *)
sign(params, order) ==
    <<Pairs(params, Sorted({order[i] : i \in DOMAIN order})), Secret>>

(* The parameters of an upload before they are signed.                     *)
Params(now) ==
    LET always == [k \in {"timestamp", "api_key"} |-> IF k = "timestamp" THEN Decimal[now] ELSE ApiKey]
    IN  IF Folder # ""
        THEN [k \in DOMAIN always \cup {"folder"} |->
                IF k = "folder" THEN Folder ELSE always[k]]
        ELSE always

(* The forms UploadBase64 and UploadBytes may send at time now.  The order *)
(* of the fields, that of a second range statement, means nothing to the   *)
(* receiver.  The two differ in how the file is encoded, not in what it    *)
(* contains.                                                               *)
Forms(photo, now) ==
    LET params == Params(now)
    IN  {[k \in DOMAIN params \cup {"signature", "file"} |->
            CASE k = "signature" -> sign(params, order)
              [] k = "file" -> photo
              [] OTHER -> params[k]] : order \in Orders(Signed(params))}

(* Cloudinary's own computation of the signature, from the form.           *)
Expected(form) ==
    <<Pairs(form, Sorted(DOMAIN form \ {"api_key", "file", "resource_type", "signature"})), Secret>>

Accepts(form) == form["signature"] = Expected(form)

---------------------------------------------------------------------------
Init ==
    /\ configured \in BOOLEAN
    /\ clock = 0
    /\ images = <<>>
    /\ pc = [r \in Requests |-> "idle"]
    /\ body = [r \in Requests |-> None]
    /\ net = [r \in Requests |-> None]
    /\ reply = [r \in Requests |-> None]
    /\ answer = [r \in Requests |-> None]
    /\ faults = 0

Answer(r, status, url) ==
    /\ pc' = [pc EXCEPT ![r] = "done"]
    /\ answer' = [answer EXCEPT ![r] = [status |-> status, url |-> url]]

(* The handler up to the HTTP request: 503 without a client, 400 without a *)
(* file or data, else a signed form is on its way.                         *)
UploadRequest(r) ==
    /\ pc[r] = "idle"
    /\ \E type \in ContentTypes, data \in Photos \cup {None} :
        /\ body' = [body EXCEPT ![r] = [type |-> type, data |-> data]]
        /\ IF ~configured \/ data = None
           THEN /\ Answer(r, IF ~configured THEN 503 ELSE 400, None)
                /\ UNCHANGED net
           ELSE /\ \E form \in Forms(data, clock) : net' = [net EXCEPT ![r] = form]
                /\ pc' = [pc EXCEPT ![r] = "sent"]
                /\ UNCHANGED answer
    /\ UNCHANGED <<configured, clock, images, reply, faults>>

(* Cloudinary checks the signature, stores the image and answers, whether  *)
(* or not the client still waits; it answers 401 to a wrong signature.     *)
Receive(r) ==
    /\ net[r] # None
    /\ IF Accepts(net[r])
       THEN /\ images' = Append(images, net[r]["file"])
            /\ reply' = [reply EXCEPT ![r] = Len(images) + 1]
       ELSE /\ reply' = [reply EXCEPT ![r] = None]
            /\ UNCHANGED images
    /\ pc' = [pc EXCEPT ![r] = IF @ = "sent" THEN "replied" ELSE @]
    /\ net' = [net EXCEPT ![r] = None]
    /\ UNCHANGED <<configured, clock, body, answer, faults>>

(* The rest of the handler: 502 for a status of 300 and more, else the URL *)
(* in Cloudinary's answer.                                                 *)
Replied(r) ==
    /\ pc[r] = "replied"
    /\ IF reply[r] = None THEN Answer(r, 502, None) ELSE Answer(r, 200, reply[r])
    /\ UNCHANGED <<configured, clock, images, body, net, reply, faults>>

(* c.HTTP.Do returns an error: the form was lost, or the client's timeout  *)
(* struck first and Cloudinary still may get it.                           *)
RequestFails(r) ==
    /\ faults < MaxFaults
    /\ faults' = faults + 1
    /\ pc[r] = "sent"
    /\ \E lost \in BOOLEAN : net' = [net EXCEPT ![r] = IF lost THEN None ELSE @]
    /\ Answer(r, 502, None)
    /\ UNCHANGED <<configured, clock, images, body, reply>>

(* The image is stored, but the answer is an error of Cloudinary's, or     *)
(* does not decode, or is lost on its way.                                 *)
ReplyFails(r) ==
    /\ faults < MaxFaults
    /\ faults' = faults + 1
    /\ pc[r] = "replied"
    /\ Answer(r, 502, None)
    /\ UNCHANGED <<configured, clock, images, body, net, reply>>

Tick ==
    /\ clock < MaxTime
    /\ clock' = clock + 1
    /\ UNCHANGED <<configured, images, pc, body, net, reply, answer, faults>>

Next ==
    \/ \E r \in Requests :
        \/ UploadRequest(r) \/ Receive(r) \/ Replied(r)
        \/ RequestFails(r) \/ ReplyFails(r)
    \/ Tick

Spec == Init /\ [][Next]_vars

---------------------------------------------------------------------------
TypeOK ==
    /\ configured \in BOOLEAN
    /\ clock \in 0..MaxTime
    /\ images \in Seq(Photos)
    /\ pc \in [Requests -> {"idle", "sent", "replied", "done"}]
    /\ body \in [Requests -> [type : ContentTypes, data : Photos \cup {None}] \cup {None}]
    /\ DOMAIN net = Requests
    /\ reply \in [Requests -> DOMAIN images \cup {None}]
    /\ answer \in [Requests -> [status : {200, 400, 502, 503}, url : DOMAIN images \cup {None}]
                              \cup {None}]
    /\ faults \in 0..MaxFaults

(* The answers of the upload endpoint are right however Go orders its maps *)
(* and whatever else is uploaded meanwhile: 200 comes with the URL of this *)
(* request's own image, which no other answer names; 502 is never the      *)
(* client's own doing (a signature Cloudinary refuses), but due to one of  *)
(* the faults; so is an image no answer names, which nobody can ever       *)
(* delete or use.                                                          *)
UploadsRight ==
    LET kept == {r \in Requests : answer[r] # None /\ answer[r].status = 200}
        lost == {r \in Requests : answer[r] # None /\ answer[r].status = 502}
        named == {answer[r].url : r \in kept}
        due == {reply[r] : r \in {q \in Requests : pc[q] = "replied"}}
    IN  /\ \A r \in kept : images[answer[r].url] = body[r].data
        /\ Cardinality(kept) = Cardinality(named)
        /\ Cardinality(lost) <= faults
        /\ Cardinality(DOMAIN images \ (named \cup due)) <= faults

(* The invariant of the proofs.  Every form on its way is one that         *)
(* Cloudinary accepts; every image was stored for one request, whose reply *)
(* names it; and a request whose image has no answer is one of the lost.   *)
Lost == {r \in Requests : answer[r] # None /\ answer[r].status = 502}

RequestOK(r) ==
    /\ net[r] # None =>
        /\ pc[r] = "sent" \/ r \in Lost
        /\ reply[r] = None
        /\ Accepts(net[r]) /\ net[r]["file"] = body[r].data /\ net[r]["file"] \in Photos
    /\ reply[r] # None =>
        /\ pc[r] = "replied" \/ (pc[r] = "done" /\ answer[r].status \in {200, 502})
        /\ images[reply[r]] = body[r].data
    /\ pc[r] = "replied" => reply[r] # None
    /\ pc[r] = "done" <=> answer[r] # None
    /\ answer[r] # None /\ answer[r].status = 200 => reply[r] # None /\ answer[r].url = reply[r]

UploadInv ==
    /\ TypeOK
    /\ \A r \in Requests : RequestOK(r)
    /\ \A r, q \in Requests : reply[r] = reply[q] /\ reply[r] # None => r = q
    /\ \A i \in DOMAIN images : \E r \in Requests : reply[r] = i
    /\ Cardinality(Lost) <= faults

(* Every upload request is answered.                                       *)
EveryUploadAnswered ==
    \A r \in Requests : pc[r] # "idle" ~> answer[r] # None
===========================================================================
