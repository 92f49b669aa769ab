------------------------------ MODULE FaceClient ------------------------------
(***************************************************************************)
(* The Go client of the face service, as functions of the reply it gets.   *)
(* A reply is Unreachable (no connection, or 30 seconds passed), Refused   *)
(* (a status of 300 or more), Garbled (not decodable), or a record, the    *)
(* decoded body.  A method returns an error or a value.  With FACE_SKIP no *)
(* request is made and the value is made up.                               *)
(***************************************************************************)
EXTENDS Integers

CONSTANTS Unreachable, Refused, Garbled, Nothing

Failed == [err |-> TRUE, value |-> Nothing]
Ok(v) == [err |-> FALSE, value |-> v]

(* What all methods do with a reply. *)
Do(skip, mock, reply) ==
  IF skip THEN Ok(mock)
  ELSE IF reply \in {Unreachable, Refused, Garbled} THEN Failed
  ELSE Ok(reply)

Health(skip, reply) ==
  IF skip THEN Ok(Nothing)
  ELSE IF reply \in {Unreachable, Refused} THEN Failed ELSE Ok(Nothing)

(* An answer without an embedding is an error, too; so is a missing URL. *)
EmbedWithScore(skip, url, reply) ==
  LET r == Do(skip, [embedding |-> <<1>>, score |-> 95], reply)
  IN IF ~skip /\ url = Nothing THEN Failed
     ELSE IF ~r.err /\ r.value.embedding = <<>> THEN Failed
     ELSE r

Embed(skip, url, reply) ==
  LET r == EmbedWithScore(skip, url, reply)
  IN IF r.err THEN Failed ELSE Ok(r.value.embedding)

Compare(skip, reply) == Do(skip, [similarity |-> 85, match |-> TRUE], reply)

Liveness(skip, reply) == Do(skip, [isLive |-> TRUE], reply)

(* A mutated form of Enroll: success is not read from the body. *)
EnrollAlways(skip, user, reply) ==
  LET r == Do(skip, [user |-> user, success |-> TRUE], reply)
  IN IF r.err THEN r ELSE Ok([r.value EXCEPT !.success = TRUE])

Enroll(skip, user, reply) == Do(skip, [user |-> user, success |-> TRUE], reply)

Verify(skip, user, reply) ==
  Do(skip, [user |-> user, verified |-> TRUE, similarity |-> 92], reply)

(* The threshold in the request of Search: only a positive one is sent, the
   service's own stands for any other. *)
SearchThreshold(threshold, default) == IF threshold > 0 THEN threshold ELSE default

Search(skip, reply) == Do(skip, [matches |-> {Nothing}], reply)
=============================================================================
