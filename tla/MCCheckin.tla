----------------------------- MODULE MCCheckin -----------------------------
(***************************************************************************)
(* CheckinPipeline for TLC.                                                *)
(***************************************************************************)
EXTENDS CheckinPipeline, TLC

(* Ids, handlers and workers are only compared for equality, and no safety *)
(* property names a particular one.                                        *)
Symmetry ==
    Permutations(EventIds) \cup Permutations(Handlers) \cup Permutations(Workers)

(* The API host's clock is one tick behind the database's.                 *)
ApiClockBehind == -1
===========================================================================
