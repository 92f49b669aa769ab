----------------------------- MODULE UploadProofs -----------------------------
(* Proofs about the upload endpoint, for any number of requests, photos and    *)
(* faults: UploadInv is kept and implies UploadsRight.  EndpointsProofs puts   *)
(* it together with the invariants of the other endpoints.                     *)
EXTENDS UploadEndpoint, Sequences, FiniteSetTheorems, TLAPS

(* Unless it names its prover, a leaf is tried with SMT, with Zenon, and   *)
(* with SMT again for longer.                                              *)
USE SMTT(30), ZenonT(30), SMTT(60)

-----------------------------------------------------------------------------
(* The size of a set means the same in ImageUpload as here. *)
LEMMA SameSizes ==
    \A S : /\ Upload!IsFiniteSet(S) = IsFiniteSet(S)
           /\ Upload!Cardinality(S) = Cardinality(S)
  BY Zenon DEF Upload!IsFiniteSet, Upload!Cardinality, IsFiniteSet, Cardinality

-----------------------------------------------------------------------------
(* upload: the signature *)

Timed == {"timestamp"}
Filed == {"folder", "timestamp"}

(* The keys that are signed can be brought in order, and visiting them in any
   order misses none. *)
LEMMA KeyOrders ==
    ASSUME NEW S \in {Timed, Filed}
    PROVE  /\ Upload!Sorted(S) \in Upload!Orders(S)
           /\ \A order \in Upload!Orders(S) : {order[i] : i \in DOMAIN order} = S
<1>1. /\ Upload!Cardinality(Timed) = 1
      /\ Upload!Cardinality(Filed) = 2
  <2>1. Cardinality(Timed) = 1 /\ IsFiniteSet(Timed)
    BY FS_Singleton, Zenon DEF Timed
  <2>2. Filed = Timed \cup {"folder"} /\ "folder" \notin Timed
    BY DEF Timed, Filed
  <2>3. Cardinality(Filed) = 2
    BY <2>1, <2>2, FS_AddElement
  <2>. QED
    BY <2>1, <2>3, SameSizes
<1>2. Upload!Before("folder", "timestamp")
  <2>1. /\ 3 \in DOMAIN Upload!KeyOrder /\ 6 \in DOMAIN Upload!KeyOrder
        /\ Upload!KeyOrder[3] = "folder" /\ Upload!KeyOrder[6] = "timestamp"
    BY DEF Upload!KeyOrder
  <2>. QED
    BY <2>1 DEF Upload!Before
<1>. DEFINE Ascends(s) == \A i, j \in DOMAIN s : i < j => Upload!Before(s[i], s[j])
<1>3. CASE S = Timed
  <2>. DEFINE s == [i \in 1..1 |-> "timestamp"]
  <2>1. s \in Upload!Orders(S) /\ Ascends(s)
    BY <1>1, <1>3 DEF Upload!Orders, Timed
  <2>2. \A order \in Upload!Orders(S) : {order[i] : i \in DOMAIN order} = S
    BY <1>1, <1>3 DEF Upload!Orders, Timed
  <2>. QED
    BY <2>1, <2>2, Zenon DEF Upload!Sorted
<1>4. CASE S = Filed
  <2>. DEFINE s == [i \in 1..2 |-> IF i = 1 THEN "folder" ELSE "timestamp"]
  <2>1. s \in Upload!Orders(S) /\ Ascends(s)
    BY <1>1, <1>2, <1>4 DEF Upload!Orders, Filed
  <2>2. ASSUME NEW order \in Upload!Orders(S)
        PROVE  {order[i] : i \in DOMAIN order} = S
    <3>1. /\ order \in [1..2 -> Filed] /\ DOMAIN order = 1..2
          /\ order[1] # order[2]
      BY <1>1, <1>4 DEF Upload!Orders
    <3>. QED
      BY <1>4, <3>1 DEF Filed
  <2>. QED
    BY <2>1, <2>2, Zenon DEF Upload!Sorted
<1>. QED
  BY <1>3, <1>4

(* What is signed: all but the key of the API. *)
LEMMA SignedKeys ==
    ASSUME NEW t \in 0..MaxClock
    PROVE  /\ Upload!Signed(Upload!Params(t)) = DOMAIN Upload!Params(t) \ {"api_key"}
           /\ Upload!Signed(Upload!Params(t)) \in {Timed, Filed}
           /\ "signature" \notin DOMAIN Upload!Params(t)
           /\ "file" \notin DOMAIN Upload!Params(t)
           /\ "resource_type" \notin DOMAIN Upload!Params(t)
<1>1. Decimal[t] # ""
  BY UploadAssumption, Zenon DEF Upload!UploadConstants
<1>2. CASE Folder # ""
  <2>. DEFINE p == Upload!Params(t)
  <2>1. /\ DOMAIN p = {"timestamp", "api_key", "folder"}
        /\ p["timestamp"] = Decimal[t] /\ p["folder"] = Folder
    BY <1>2, Zenon DEF Upload!Params
  <2>. QED
    BY <1>1, <1>2, <2>1, Zenon DEF Upload!Signed, Timed, Filed
<1>3. CASE Folder = ""
  <2>. DEFINE p == Upload!Params(t)
  <2>1. DOMAIN p = {"timestamp", "api_key"} /\ p["timestamp"] = Decimal[t]
    BY <1>3, Zenon DEF Upload!Params
  <2>. QED
    BY <1>1, <2>1, Zenon DEF Upload!Signed, Timed, Filed
<1>. QED
  BY <1>2, <1>3, Zenon

(* Cloudinary accepts every form that UploadBase64 and UploadBytes send, in
   whatever order Go visits the map of the parameters. *)
LEMMA FormAccepted ==
    ASSUME NEW t \in 0..MaxClock, NEW photo, NEW sent \in Upload!Forms(photo, t)
    PROVE  Upload!Accepts(sent) /\ sent["file"] = photo
<1>. DEFINE params == Upload!Params(t)
            S == Upload!Signed(params)
            keys == Upload!Sorted(S)
<1>1. PICK order \in Upload!Orders(S) :
        sent = [k \in DOMAIN params \cup {"signature", "file"} |->
                  CASE k = "signature" -> Upload!sign(params, order)
                    [] k = "file" -> photo
                    [] OTHER -> params[k]]
  BY DEF Upload!Forms
<1>2. /\ S = DOMAIN params \ {"api_key"} /\ S \in {Timed, Filed}
      /\ "signature" \notin DOMAIN params /\ "file" \notin DOMAIN params
      /\ "resource_type" \notin DOMAIN params
  BY SignedKeys
<1>3. keys \in Upload!Orders(S) /\ {order[i] : i \in DOMAIN order} = S
  BY <1>1, <1>2, KeyOrders, Zenon
<1>4. \A i \in DOMAIN keys : keys[i] \in S
  BY <1>3 DEF Upload!Orders
<1>. HIDE DEF params, S, keys
<1>5. /\ DOMAIN sent = DOMAIN params \cup {"signature", "file"}
      /\ sent["signature"] = Upload!sign(params, order) /\ sent["file"] = photo
      /\ \A k \in S : sent[k] = params[k]
  BY <1>1, <1>2
<1>6. DOMAIN sent \ {"api_key", "file", "resource_type", "signature"} = S
  BY <1>2, <1>5
<1>7. Upload!Pairs(sent, keys) = Upload!Pairs(params, keys)
  BY <1>4, <1>5 DEF Upload!Pairs
<1>8. Upload!sign(params, order) = <<Upload!Pairs(params, keys), Secret>>
  BY <1>3, Zenon DEF Upload!sign, keys
<1>9. Upload!Expected(sent) = <<Upload!Pairs(sent, keys), Secret>>
  BY <1>6, Zenon DEF Upload!Expected, keys
<1>. QED
  BY <1>5, <1>7, <1>8, <1>9 DEF Upload!Accepts

-----------------------------------------------------------------------------
(* upload: the invariant *)

(* Cloudinary makes the same of a form whenever it arrives. *)
LEMMA FormKept ==
    ASSUME NEW r, net'[r] = net[r]
    PROVE  Upload!Accepts(net[r])' <=> Upload!Accepts(net[r])
  BY DEF Upload!Accepts, Upload!Expected, Upload!Pairs, Upload!Sorted, Upload!Orders,
         Upload!Before, Upload!KeyOrder

LEMMA FormSent ==
    ASSUME NEW r, NEW f, net'[r] = f, Upload!Accepts(f)
    PROVE  Upload!Accepts(net[r])'
  BY DEF Upload!Accepts, Upload!Expected, Upload!Pairs, Upload!Sorted, Upload!Orders,
         Upload!Before, Upload!KeyOrder

(* A request that was answered 502 and has no reply.                       *)
LEMMA LostRequestOK ==
    ASSUME NEW r,
           net'[r] # None => /\ Upload!Accepts(net[r])'
                             /\ net'[r]["file"] = body'[r].data /\ net'[r]["file"] \in Photos,
           reply'[r] = None, r \in Upload!Lost', pc'[r] = "done",
           answer'[r] # None, answer'[r].status = 502
    PROVE  Upload!RequestOK(r)'
  BY DEF Upload!RequestOK

(* Cloudinary only adds images, and a request that a step does not touch is as
   it was. *)
LEMMA OtherRequest ==
    ASSUME Upload!UploadInv, NEW q \in Requests,
           pc'[q] = pc[q], body'[q] = body[q], net'[q] = net[q],
           reply'[q] = reply[q], answer'[q] = answer[q],
           \A i \in DOMAIN images : images'[i] = images[i]
    PROVE  Upload!RequestOK(q)'
<1>1. Upload!RequestOK(q) /\ reply[q] \in DOMAIN images \cup {None}
  BY DEF Upload!UploadInv, Upload!TypeOK
<1>2. (q \in Upload!Lost)' <=> q \in Upload!Lost
  BY DEF Upload!Lost
<1>3. Upload!Accepts(net[q])' <=> Upload!Accepts(net[q])
  BY FormKept
<1>. QED
  BY <1>1, <1>2, <1>3 DEF Upload!RequestOK

(* The lost requests are finitely many. *)
LEMMA LostFinite ==
    /\ IsFiniteSet(Upload!Lost) /\ Cardinality(Upload!Lost) \in Nat
    /\ IsFiniteSet(Requests)
<1>1. IsFiniteSet(Requests)
  BY UploadAssumption, SameSizes, Zenon DEF Upload!UploadConstants
<1>2. Upload!Lost \subseteq Requests
  BY DEF Upload!Lost
<1>. QED
  BY <1>1, <1>2, FS_Subset, FS_CardinalityType

(* At most one request is lost in a step, and only by a fault. *)
LEMMA LostCounted ==
    ASSUME Upload!UploadInv, NEW r,
           \/ Upload!Lost' = Upload!Lost /\ faults' = faults
           \/ Upload!Lost' = Upload!Lost \cup {r} /\ faults' = faults + 1
    PROVE  Upload!Cardinality(Upload!Lost') <= faults'
<1>0. Upload!Cardinality(Upload!Lost) <= faults /\ faults \in 0..MaxFaults
  BY DEF Upload!UploadInv, Upload!TypeOK
<1>1. Cardinality(Upload!Lost) <= faults /\ faults \in Nat
  BY <1>0, SameSizes
<1>2. IsFiniteSet(Upload!Lost) /\ Cardinality(Upload!Lost) \in Nat
  BY LostFinite
<1>3. Cardinality(Upload!Lost') <= faults'
  BY <1>1, <1>2, FS_AddElement
<1>. QED
  BY <1>3, SameSizes

LEMMA UploadInit ==
    Upload!Init => Upload!UploadInv
<1>. SUFFICES ASSUME Upload!Init PROVE Upload!UploadInv
  OBVIOUS
<1>1. MaxClock \in Nat /\ MaxFaults \in Nat
  BY UploadAssumption, Zenon DEF Upload!UploadConstants
<1>2. Upload!TypeOK
  BY <1>1 DEF Upload!Init, Upload!TypeOK
<1>3. \A r \in Requests : Upload!RequestOK(r)
  BY Zenon DEF Upload!Init, Upload!RequestOK
<1>4. Upload!Lost = {}
  BY DEF Upload!Init, Upload!Lost
<1>5. Upload!Cardinality(Upload!Lost) <= faults
  BY <1>4, FS_EmptySet, SameSizes DEF Upload!Init
<1>6. DOMAIN images = {} /\ \A r \in Requests : reply[r] = None
  BY DEF Upload!Init
<1>. QED
  BY <1>2, <1>3, <1>5, <1>6 DEF Upload!UploadInv

(* A request is answered. *)
LEMMA AnswerTyped ==
    ASSUME Upload!UploadInv, NEW r \in Requests,
           NEW status \in {200, 400, 502, 503}, NEW url \in DOMAIN images \cup {None},
           Upload!Answer(r, status, url)
    PROVE  /\ pc' \in [Requests -> {"idle", "sent", "replied", "done"}]
           /\ pc'[r] = "done" /\ answer'[r] # None
           /\ answer'[r].status = status /\ answer'[r].url = url
           /\ answer' \in [Requests -> [status : {200, 400, 502, 503}, url : DOMAIN images \cup {None}]
                                      \cup {None}]
           /\ \A q \in Requests \ {r} : pc'[q] = pc[q] /\ answer'[q] = answer[q]
<1>. DEFINE a == [status |-> status, url |-> url]
<1>1. /\ pc \in [Requests -> {"idle", "sent", "replied", "done"}]
      /\ answer \in [Requests -> [status : {200, 400, 502, 503}, url : DOMAIN images \cup {None}]
                                \cup {None}]
      /\ images \in Seq(Photos)
  BY DEF Upload!UploadInv, Upload!TypeOK
<1>2. pc' = [pc EXCEPT ![r] = "done"] /\ answer' = [answer EXCEPT ![r] = a]
  BY DEF Upload!Answer
<1>3. a \in [status : Nat, url : Nat \cup {None}]
  BY <1>1
<1>4. a # None
  BY <1>3, UploadAssumption, Zenon DEF Upload!UploadConstants
<1>5. a \in [status : {200, 400, 502, 503}, url : DOMAIN images \cup {None}]
  OBVIOUS
<1>. QED
  BY <1>1, <1>2, <1>4, <1>5

(* UploadInv from what a step does to one request. *)
LEMMA OneRequest ==
    ASSUME Upload!UploadInv, NEW r \in Requests, Upload!TypeOK', Upload!RequestOK(r)',
           \A q \in Requests \ {r} :
             /\ pc'[q] = pc[q] /\ body'[q] = body[q] /\ net'[q] = net[q]
             /\ reply'[q] = reply[q] /\ answer'[q] = answer[q],
           \/ UNCHANGED <<images, reply>>
           \/ /\ reply[r] = None /\ reply'[r] = Len(images) + 1
              /\ DOMAIN images' = DOMAIN images \cup {Len(images) + 1}
              /\ \A i \in DOMAIN images : images'[i] = images[i],
           \/ Upload!Lost' = Upload!Lost /\ faults' = faults
           \/ Upload!Lost' = Upload!Lost \cup {r} /\ faults' = faults + 1
    PROVE  Upload!UploadInv'
<1>1. /\ images \in Seq(Photos) /\ reply \in [Requests -> DOMAIN images \cup {None}]
      /\ \A p, q \in Requests : reply[p] = reply[q] /\ reply[p] # None => p = q
      /\ \A i \in DOMAIN images : \E q \in Requests : reply[q] = i
  BY DEF Upload!UploadInv, Upload!TypeOK
<1>0. None \notin Nat
  BY UploadAssumption, Zenon DEF Upload!UploadConstants
<1>2. \A i \in DOMAIN images : images'[i] = images[i]
  OBVIOUS
<1>3. \A q \in Requests : Upload!RequestOK(q)'
  BY <1>2, OtherRequest
<1>4. /\ Len(images) + 1 \notin DOMAIN images /\ Len(images) + 1 # None
      /\ \A q \in Requests : reply[q] # Len(images) + 1
  BY <1>0, <1>1
<1>5. \A p, q \in Requests : reply'[p] = reply'[q] /\ reply'[p] # None => p = q
  BY <1>1, <1>4
<1>6. \A i \in DOMAIN images' : \E q \in Requests : reply'[q] = i
  <2>1. CASE UNCHANGED <<images, reply>>
    BY <1>1, <2>1
  <2>2. CASE /\ reply[r] = None /\ reply'[r] = Len(images) + 1
             /\ DOMAIN images' = DOMAIN images \cup {Len(images) + 1}
    <3>1. ASSUME NEW i \in DOMAIN images
          PROVE  \E q \in Requests : reply'[q] = i
      <4>1. PICK q \in Requests : reply[q] = i
        BY <1>1
      <4>2. i # None
        BY <1>0, <1>1
      <4>. QED
        BY <2>2, <4>1, <4>2
    <3>. QED
      BY <2>2, <3>1
  <2>. QED
    BY <2>1, <2>2
<1>7. Upload!Cardinality(Upload!Lost') <= faults'
  BY LostCounted, Zenon
<1>. QED
  BY <1>3, <1>5, <1>6, <1>7 DEF Upload!UploadInv

(* What UploadInv says of one request. *)
LEMMA RequestFacts ==
    ASSUME Upload!UploadInv, NEW r \in Requests
    PROVE  /\ Upload!TypeOK /\ Upload!RequestOK(r)
           /\ faults \in Nat
           /\ pc[r] \in {"idle", "sent"} => reply[r] = None
           /\ pc[r] \in {"idle", "replied"} => net[r] = None
           /\ pc[r] # "done" => answer[r] = None /\ r \notin Upload!Lost
           /\ r \in Upload!Lost => pc[r] = "done" /\ answer[r].status = 502
  BY DEF Upload!UploadInv, Upload!TypeOK, Upload!RequestOK, Upload!Lost

(* Who is lost after an answer. *)
LEMMA LostAfter ==
    ASSUME NEW r \in Requests, answer'[r] # None,
           r \notin Upload!Lost,
           \A q \in Requests \ {r} : answer'[q] = answer[q]
    PROVE  /\ answer'[r].status = 502 => Upload!Lost' = Upload!Lost \cup {r}
           /\ answer'[r].status # 502 => Upload!Lost' = Upload!Lost
  BY DEF Upload!Lost

LEMMA UploadRequestKeeps ==
    ASSUME Upload!UploadInv, NEW r \in Requests, Upload!UploadRequest(r)
    PROVE  Upload!UploadInv'
<1>1. /\ UNCHANGED <<configured, clock, images, reply, faults>> /\ pc[r] = "idle"
      /\ reply[r] = None /\ net[r] = None /\ answer[r] = None /\ r \notin Upload!Lost
  BY RequestFacts DEF Upload!UploadRequest
<1>2. Upload!TypeOK
  BY RequestFacts
<1>3. PICK type \in Upload!ContentTypes, data \in Photos \cup {None} :
        /\ body' = [body EXCEPT ![r] = [type |-> type, data |-> data]]
        /\ IF ~configured \/ data = None
           THEN /\ Upload!Answer(r, IF ~configured THEN 503 ELSE 400, None)
                /\ UNCHANGED net
           ELSE /\ \E form_ \in Upload!Forms(data, clock) : net' = [net EXCEPT ![r] = form_]
                /\ pc' = [pc EXCEPT ![r] = "sent"]
                /\ UNCHANGED answer
  BY Zenon DEF Upload!UploadRequest
<1>4. /\ body' \in [Requests -> [type : Upload!ContentTypes, data : Photos \cup {None}] \cup {None}]
      /\ body'[r].data = data /\ \A q \in Requests \ {r} : body'[q] = body[q]
  BY <1>2, <1>3 DEF Upload!TypeOK
<1>5. CASE ~configured \/ data = None
  <2>1. PICK status \in {503, 400} : Upload!Answer(r, status, None)
    BY <1>3, <1>5
  <2>2. /\ pc' \in [Requests -> {"idle", "sent", "replied", "done"}]
        /\ pc'[r] = "done" /\ answer'[r] # None /\ answer'[r].status = status
        /\ answer' \in [Requests -> [status : {200, 400, 502, 503}, url : DOMAIN images \cup {None}]
                                   \cup {None}]
        /\ \A q \in Requests \ {r} : pc'[q] = pc[q] /\ answer'[q] = answer[q]
    BY <2>1, AnswerTyped
  <2>3. net' = net
    BY <1>3, <1>5
  <2>4. Upload!Lost' = Upload!Lost
    BY <1>1, <2>2, LostAfter
  <2>5. Upload!TypeOK'
    BY <1>1, <1>2, <1>4, <2>2, <2>3 DEF Upload!TypeOK
  <2>6. Upload!RequestOK(r)'
    BY <1>1, <2>2, <2>3 DEF Upload!RequestOK
  <2>7. \A q \in Requests \ {r} :
          /\ pc'[q] = pc[q] /\ body'[q] = body[q] /\ net'[q] = net[q]
          /\ reply'[q] = reply[q] /\ answer'[q] = answer[q]
    BY <1>1, <1>4, <2>2, <2>3
  <2>8. UNCHANGED <<images, reply>> /\ Upload!Lost' = Upload!Lost /\ faults' = faults
    BY <1>1, <2>4
  <2>. QED
    BY <2>5, <2>6, <2>7, <2>8, OneRequest, Zenon
<1>6. CASE configured /\ data # None
  <2>1. PICK f \in Upload!Forms(data, clock) : net' = [net EXCEPT ![r] = f]
    BY <1>3, <1>6
  <2>2. Upload!Accepts(f) /\ f["file"] = data /\ data \in Photos
    BY <1>2, <1>6, <2>1, FormAccepted DEF Upload!TypeOK
  <2>3. pc' = [pc EXCEPT ![r] = "sent"] /\ answer' = answer
    BY <1>3, <1>6
  <2>4. Upload!Lost' = Upload!Lost
    BY <2>3 DEF Upload!Lost
  <2>5. Upload!TypeOK'
    BY <1>1, <1>2, <1>4, <2>1, <2>3 DEF Upload!TypeOK
  <2>6. pc'[r] = "sent" /\ net'[r] = f
    BY <1>2, <2>1, <2>3 DEF Upload!TypeOK
  <2>7. Upload!Accepts(net[r])'
    BY <2>2, <2>6, FormSent, Zenon
  <2>8. Upload!RequestOK(r)'
    BY <1>1, <1>4, <2>2, <2>3, <2>6, <2>7 DEF Upload!RequestOK
  <2>9. \A q \in Requests \ {r} :
          /\ pc'[q] = pc[q] /\ body'[q] = body[q] /\ net'[q] = net[q]
          /\ reply'[q] = reply[q] /\ answer'[q] = answer[q]
    BY <1>1, <1>2, <1>4, <2>1, <2>3 DEF Upload!TypeOK
  <2>10. UNCHANGED <<images, reply>> /\ Upload!Lost' = Upload!Lost /\ faults' = faults
    BY <1>1, <2>4
  <2>. QED
    BY <2>5, <2>8, <2>9, <2>10, OneRequest, Zenon
<1>. QED
  BY <1>2, <1>5, <1>6 DEF Upload!TypeOK

LEMMA ReceiveKeeps ==
    ASSUME Upload!UploadInv, NEW r \in Requests, Upload!Receive(r)
    PROVE  Upload!UploadInv'
<1>1. /\ UNCHANGED <<configured, clock, body, answer, faults>> /\ net[r] # None
      /\ pc' = [pc EXCEPT ![r] = IF @ = "sent" THEN "replied" ELSE @]
      /\ net' = [net EXCEPT ![r] = None]
  BY DEF Upload!Receive
<1>2. Upload!TypeOK /\ Upload!RequestOK(r)
  BY RequestFacts
<1>3. /\ Upload!Accepts(net[r]) /\ reply[r] = None
      /\ net[r]["file"] = body[r].data /\ net[r]["file"] \in Photos
      /\ pc[r] = "sent" \/ (r \in Upload!Lost /\ pc[r] = "done" /\ answer[r].status = 502)
  BY <1>1, <1>2, RequestFacts DEF Upload!RequestOK
<1>4. /\ images' = Append(images, net[r]["file"])
      /\ reply' = [reply EXCEPT ![r] = Len(images) + 1]
  BY <1>3 DEF Upload!Receive
<1>5. /\ images \in Seq(Photos) /\ images' \in Seq(Photos)
      /\ DOMAIN images' = DOMAIN images \cup {Len(images) + 1}
      /\ \A i \in DOMAIN images : images'[i] = images[i]
      /\ images'[Len(images) + 1] = body[r].data
  BY <1>2, <1>3, <1>4 DEF Upload!TypeOK
<1>6. /\ pc' \in [Requests -> {"idle", "sent", "replied", "done"}]
      /\ DOMAIN net' = Requests /\ net'[r] = None
      /\ reply' \in [Requests -> DOMAIN images' \cup {None}] /\ reply'[r] = Len(images) + 1
      /\ pc'[r] = IF pc[r] = "sent" THEN "replied" ELSE pc[r]
      /\ \A q \in Requests \ {r} : pc'[q] = pc[q] /\ net'[q] = net[q] /\ reply'[q] = reply[q]
  BY <1>1, <1>2, <1>4, <1>5 DEF Upload!TypeOK
<1>7. Upload!TypeOK'
  BY <1>1, <1>2, <1>5, <1>6 DEF Upload!TypeOK
<1>8. Len(images) + 1 # None
  <2>1. Len(images) + 1 \in Nat
    BY <1>5
  <2>. QED
    BY <2>1, UploadAssumption, Zenon DEF Upload!UploadConstants
<1>9. Upload!RequestOK(r)'
  <2>1. \/ pc'[r] = "replied" /\ answer'[r] = None
        \/ pc'[r] = "done" /\ answer'[r] # None /\ answer'[r].status = 502
    <3>1. \/ pc[r] = "sent" /\ answer[r] = None
          \/ pc[r] = "done" /\ answer[r] # None /\ answer[r].status = 502
      BY <1>2, <1>3, RequestFacts DEF Upload!Lost
    <3>. QED
      BY <1>1, <1>6, <3>1
  <2>2. net'[r] = None /\ reply'[r] # None /\ images'[reply'[r]] = body'[r].data
    BY <1>1, <1>5, <1>6, <1>8
  <2>. QED
    BY <2>1, <2>2 DEF Upload!RequestOK
<1>10. Upload!Lost' = Upload!Lost
  BY <1>1 DEF Upload!Lost
<1>11. \A q \in Requests \ {r} :
        /\ pc'[q] = pc[q] /\ body'[q] = body[q] /\ net'[q] = net[q]
        /\ reply'[q] = reply[q] /\ answer'[q] = answer[q]
  BY <1>1, <1>6
<1>12. /\ reply[r] = None /\ reply'[r] = Len(images) + 1
       /\ DOMAIN images' = DOMAIN images \cup {Len(images) + 1}
       /\ \A i \in DOMAIN images : images'[i] = images[i]
       /\ Upload!Lost' = Upload!Lost /\ faults' = faults
  BY <1>1, <1>3, <1>5, <1>6, <1>10
<1>. QED
  BY <1>7, <1>9, <1>11, <1>12, OneRequest, Zenon

LEMMA RepliedKeeps ==
    ASSUME Upload!UploadInv, NEW r \in Requests, Upload!Replied(r) \/ Upload!ReplyFails(r)
    PROVE  Upload!UploadInv'
<1>1. UNCHANGED <<configured, clock, images, body, net, reply>> /\ pc[r] = "replied"
  BY DEF Upload!Replied, Upload!ReplyFails
<1>2. /\ Upload!TypeOK /\ Upload!RequestOK(r) /\ faults \in Nat
      /\ net[r] = None /\ r \notin Upload!Lost
      /\ reply[r] # None /\ images[reply[r]] = body[r].data
      /\ reply[r] \in DOMAIN images
  <2>1. /\ Upload!TypeOK /\ Upload!RequestOK(r) /\ faults \in Nat
        /\ net[r] = None /\ r \notin Upload!Lost
    BY <1>1, RequestFacts
  <2>2. reply[r] \in DOMAIN images \cup {None}
    BY <2>1 DEF Upload!TypeOK
  <2>. QED
    BY <1>1, <2>1, <2>2 DEF Upload!RequestOK
<1>3. PICK status \in {200, 502}, url \in {reply[r], None} :
        /\ Upload!Answer(r, status, url)
        /\ \/ status = 200 /\ url = reply[r] /\ faults' = faults
           \/ status = 502 /\ faults < MaxFaults /\ faults' = faults + 1
  BY <1>2 DEF Upload!Replied, Upload!ReplyFails
<1>4. /\ pc' \in [Requests -> {"idle", "sent", "replied", "done"}]
      /\ pc'[r] = "done" /\ answer'[r] # None
      /\ answer'[r].status = status /\ answer'[r].url = url
      /\ answer' \in [Requests -> [status : {200, 400, 502, 503}, url : DOMAIN images \cup {None}]
                                 \cup {None}]
      /\ \A q \in Requests \ {r} : pc'[q] = pc[q] /\ answer'[q] = answer[q]
  BY <1>2, <1>3, AnswerTyped
<1>5. faults' \in 0..MaxFaults
  <2>1. MaxFaults \in Nat /\ faults \in 0..MaxFaults
    BY <1>2, UploadAssumption, Zenon DEF Upload!UploadConstants, Upload!TypeOK
  <2>. QED
    BY <1>3, <2>1
<1>6. Upload!TypeOK'
  BY <1>1, <1>2, <1>4, <1>5 DEF Upload!TypeOK
<1>7. Upload!RequestOK(r)'
  BY <1>1, <1>2, <1>3, <1>4 DEF Upload!RequestOK
<1>8. \/ Upload!Lost' = Upload!Lost /\ faults' = faults
      \/ Upload!Lost' = Upload!Lost \cup {r} /\ faults' = faults + 1
  BY <1>2, <1>3, <1>4, LostAfter
<1>9. \A q \in Requests \ {r} :
        /\ pc'[q] = pc[q] /\ body'[q] = body[q] /\ net'[q] = net[q]
        /\ reply'[q] = reply[q] /\ answer'[q] = answer[q]
  BY <1>1, <1>4
<1>10. UNCHANGED <<images, reply>>
  BY <1>1
<1>. QED
  BY <1>6, <1>7, <1>8, <1>9, <1>10, OneRequest, Zenon

LEMMA RequestFailsKeeps ==
    ASSUME Upload!UploadInv, NEW r \in Requests, Upload!RequestFails(r)
    PROVE  Upload!UploadInv'
<1>1. /\ UNCHANGED <<configured, clock, images, body, reply>> /\ pc[r] = "sent"
      /\ faults < MaxFaults /\ faults' = faults + 1 /\ Upload!Answer(r, 502, None)
  BY DEF Upload!RequestFails
<1>2. /\ Upload!TypeOK /\ Upload!RequestOK(r) /\ faults \in Nat
      /\ reply[r] = None /\ r \notin Upload!Lost
  BY <1>1, RequestFacts, Zenon
<1>3. /\ DOMAIN net' = Requests /\ net'[r] \in {net[r], None}
      /\ \A q \in Requests \ {r} : net'[q] = net[q]
  BY <1>2 DEF Upload!RequestFails, Upload!TypeOK
<1>4. /\ pc' \in [Requests -> {"idle", "sent", "replied", "done"}]
      /\ pc'[r] = "done" /\ answer'[r] # None /\ answer'[r].status = 502
      /\ answer' \in [Requests -> [status : {200, 400, 502, 503}, url : DOMAIN images \cup {None}]
                                 \cup {None}]
      /\ \A q \in Requests \ {r} : pc'[q] = pc[q] /\ answer'[q] = answer[q]
  BY <1>1, AnswerTyped
<1>5. faults' \in 0..MaxFaults
  <2>1. MaxFaults \in Nat /\ faults \in 0..MaxFaults
    BY <1>2, UploadAssumption, Zenon DEF Upload!UploadConstants, Upload!TypeOK
  <2>. QED
    BY <1>1, <2>1
<1>6. Upload!TypeOK'
  BY <1>1, <1>2, <1>3, <1>4, <1>5 DEF Upload!TypeOK
<1>7. Upload!Lost' = Upload!Lost \cup {r}
  BY <1>2, <1>4, LostAfter
<1>8. net'[r] # None => /\ Upload!Accepts(net[r])'
                        /\ net'[r]["file"] = body'[r].data /\ net'[r]["file"] \in Photos
  <2>1. SUFFICES ASSUME net'[r] = net[r], net[r] # None
                 PROVE  /\ Upload!Accepts(net[r])'
                        /\ net'[r]["file"] = body'[r].data /\ net'[r]["file"] \in Photos
    BY <1>3
  <2>2. /\ Upload!Accepts(net[r])
        /\ net[r]["file"] = body[r].data /\ net[r]["file"] \in Photos
    BY <1>2, <2>1 DEF Upload!RequestOK
  <2>. QED
    BY <1>1, <2>1, <2>2, FormKept
<1>9. /\ reply'[r] = None /\ r \in Upload!Lost' /\ pc'[r] = "done"
      /\ answer'[r] # None /\ answer'[r].status = 502
  BY <1>1, <1>2, <1>4, <1>7, Zenon
<1>10. Upload!RequestOK(r)'
  BY <1>8, <1>9, LostRequestOK, Zenon
<1>11. \A q \in Requests \ {r} :
        /\ pc'[q] = pc[q] /\ body'[q] = body[q] /\ net'[q] = net[q]
        /\ reply'[q] = reply[q] /\ answer'[q] = answer[q]
  BY <1>1, <1>3, <1>4
<1>12. UNCHANGED <<images, reply>> /\ faults' = faults + 1
  BY <1>1
<1>. QED
  BY <1>6, <1>7, <1>10, <1>11, <1>12, OneRequest, Zenon

(* UploadInv is kept by every step of an upload. *)
LEMMA UploadKeeps ==
    Upload!UploadInv /\ (Upload!Next \/ UNCHANGED Upload!vars) => Upload!UploadInv'
<1>. SUFFICES ASSUME Upload!UploadInv, Upload!Next \/ UNCHANGED Upload!vars PROVE Upload!UploadInv'
  OBVIOUS
<1>1. CASE Upload!Tick \/ UNCHANGED Upload!vars
  <2>1. /\ UNCHANGED <<configured, images, pc, body, net, reply, answer, faults>>
        /\ clock' = clock \/ (clock < MaxClock /\ clock' = clock + 1)
    BY <1>1 DEF Upload!Tick, Upload!vars
  <2>2. Upload!TypeOK /\ MaxClock \in Nat
    BY UploadAssumption, Zenon DEF Upload!UploadInv, Upload!UploadConstants
  <2>3. clock' \in 0..MaxClock
    BY <2>1, <2>2 DEF Upload!TypeOK
  <2>4. Upload!TypeOK'
    BY <2>1, <2>2, <2>3 DEF Upload!TypeOK
  <2>5. \A r \in Requests : Upload!RequestOK(r)'
    BY <2>1, OtherRequest
  <2>6. Upload!Lost' = Upload!Lost
    BY <2>1 DEF Upload!Lost
  <2>7. Upload!Cardinality(Upload!Lost') <= faults'
    BY <2>1, <2>6, LostCounted
  <2>8. /\ \A r, q \in Requests : reply'[r] = reply'[q] /\ reply'[r] # None => r = q
        /\ \A i \in DOMAIN images' : \E r \in Requests : reply'[r] = i
    BY <2>1 DEF Upload!UploadInv
  <2>. QED
    BY <2>4, <2>5, <2>7, <2>8 DEF Upload!UploadInv
<1>2. ASSUME NEW r \in Requests,
             \/ Upload!UploadRequest(r) \/ Upload!Receive(r) \/ Upload!Replied(r)
             \/ Upload!RequestFails(r) \/ Upload!ReplyFails(r)
      PROVE  Upload!UploadInv'
  BY <1>2, UploadRequestKeeps, ReceiveKeeps, RepliedKeeps, RequestFailsKeeps
<1>. QED
  BY <1>1, <1>2 DEF Upload!Next

(* An answer 200 names one image, no two the same; an image without an answer,
   of a request that has had its reply, is one of a lost request. *)
LEMMA UploadsCounted ==
    Upload!UploadInv => Upload!UploadsRight
<1>. SUFFICES ASSUME Upload!UploadInv PROVE Upload!UploadsRight
  OBVIOUS
<1>. DEFINE kept == {r \in Requests : answer[r] # None /\ answer[r].status = 200}
            lost == {r \in Requests : answer[r] # None /\ answer[r].status = 502}
            named == {answer[r].url : r \in kept}
            due == {reply[r] : r \in {q \in Requests : pc[q] = "replied"}}
            orphans == DOMAIN images \ (named \cup due)
<1>1. /\ \A r \in Requests : Upload!RequestOK(r)
      /\ \A r, q \in Requests : reply[r] = reply[q] /\ reply[r] # None => r = q
      /\ \A i \in DOMAIN images : \E r \in Requests : reply[r] = i
      /\ Upload!Cardinality(Upload!Lost) <= faults
      /\ faults \in Nat
      /\ images \in Seq(Photos)
  BY DEF Upload!UploadInv, Upload!TypeOK
<1>2. ASSUME NEW r \in kept
      PROVE  /\ reply[r] # None /\ answer[r].url = reply[r]
             /\ images[reply[r]] = body[r].data
  <2>1. Upload!RequestOK(r) /\ answer[r] # None /\ answer[r].status = 200
    BY <1>1
  <2>. QED
    BY <2>1 DEF Upload!RequestOK
<1>3. Cardinality(kept) = Cardinality(named)
  <2>. DEFINE f == [r \in kept |-> answer[r].url]
  <2>1. f \in Bijection(kept, named)
    <3>0. f \in [kept -> named]
      OBVIOUS
    <3>1. f \in Surjection(kept, named)
      BY <3>0, Zenon DEF Surjection
    <3>2. \A r, q \in kept : f[r] = f[q] => r = q
      BY <1>1, <1>2
    <3>3. f \in Injection(kept, named)
      BY <3>1, <3>2, Zenon DEF Surjection, Injection, IsInjective
    <3>. QED
      BY <3>1, <3>3 DEF Bijection
  <2>2. IsFiniteSet(kept)
    BY LostFinite, FS_Subset
  <2>. HIDE DEF f, kept, named
  <2>. QED
    BY <2>1, <2>2, FS_Bijection DEF ExistsBijection
<1>4. lost = Upload!Lost /\ IsFiniteSet(lost) /\ Cardinality(lost) \in Nat
  BY LostFinite DEF Upload!Lost
<1>5. Cardinality(lost) <= faults
  BY <1>1, <1>4, SameSizes, Zenon
<1>6. Cardinality(orphans) <= faults
  <2>. DEFINE f == [i \in orphans |-> CHOOSE r \in Requests : reply[r] = i]
  <2>1. ASSUME NEW i \in orphans
        PROVE  f[i] \in lost /\ reply[f[i]] = i
    <3>1. PICK r : r = f[i]
      BY Zenon
    <3>2. r \in Requests /\ reply[r] = i
      BY <1>1, <3>1
    <3>3. i \in Nat
      BY <1>1
    <3>4. i # None
      BY <3>3, UploadAssumption, Zenon DEF Upload!UploadConstants
    <3>5. pc[r] # "replied"
      BY <3>2
    <3>6. pc[r] = "done" /\ answer[r] # None /\ answer[r].status \in {200, 502}
      BY <1>1, <3>2, <3>4, <3>5 DEF Upload!RequestOK
    <3>7. answer[r].status # 200
      BY <1>2, <3>2, <3>6
    <3>. QED
      BY <3>1, <3>2, <3>6, <3>7
  <2>2. f \in [orphans -> lost]
    BY <2>1, Zenon
  <2>. HIDE DEF f, orphans, lost
  <2>3. \A i, j \in orphans : f[i] = f[j] => i = j
    BY <2>1
  <2>4. f \in Injection(orphans, lost)
    BY <2>2, <2>3 DEF Injection, IsInjective
  <2>5. IsFiniteSet(orphans) /\ Cardinality(orphans) <= Cardinality(lost)
    BY <1>4, <2>4, FS_Injection
  <2>. QED
    BY <1>1, <1>4, <1>5, <2>5, FS_CardinalityType
<1>. QED
  BY <1>2, <1>3, <1>5, <1>6, SameSizes DEF Upload!UploadsRight
=============================================================================
