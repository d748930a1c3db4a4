--------------------------- MODULE MCApplications ---------------------------
(* Two requests at a time on one application. *)
EXTENDS Applications, TLC
Symmetry == Permutations(Requests) \cup Permutations(Contents)
============================================================================
