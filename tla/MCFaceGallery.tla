---------------------------- MODULE MCFaceGallery ----------------------------
(* FaceGallery on a small instance: similarities on both sides of the
   threshold, of what rounds up to it, and of the next decimal. *)
EXTENDS FaceGallery, TLC

FacesDefinition == {0, 42, 44}
AskedDefinition == {0, 42}

Symmetry == Permutations(Users)
=============================================================================
