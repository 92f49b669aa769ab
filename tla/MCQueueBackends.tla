--------------------------- MODULE MCQueueBackends ---------------------------
(* QueueBackends on a small instance: types of at most one character, bodies
   of at most two, with and without bars. *)
EXTENDS QueueBackends

Strings(S, n) == UNION {[1..k -> S] : k \in 0..n}

TextsDefinition ==
  [type : Strings(Chars, 1), body : Strings(Chars \cup {Bar}, 2)]
=============================================================================
