-------------------------- MODULE MCStudentRegistry --------------------------
(* StudentRegistry on small instances. *)
EXTENDS StudentRegistry, TLC

FacesDefinition == {0, 1, 3}

Symmetry == Permutations(Requests) \cup Permutations(Ids)
            \cup Permutations(Emails) \cup Permutations(Numbers)
=============================================================================
