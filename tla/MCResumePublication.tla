----------------------- MODULE MCResumePublication -----------------------
(* Two requests at a time, two versions, and edits and failures in between. *)
EXTENDS ResumePublication, TLC
Symmetry == Permutations(Requests)
============================================================================
