--------------------------- MODULE MCCheckinForm ---------------------------
(* Constants of the TLC model of CheckinForm.                              *)
EXTENDS CheckinForm, TLC

CONSTANTS good, empty

TwoFaces == (good :> 80) @@ (empty :> None)

Symmetry == Permutations(Devices) \cup Permutations(EventIds)
            \cup Permutations(Submissions)
===========================================================================
