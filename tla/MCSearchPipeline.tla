------------------------- MODULE MCSearchPipeline -------------------------
(* Model-checking instances of SearchPipeline.                             *)
EXTENDS SearchPipeline, TLC
Symmetry == Permutations(Listings) \cup Permutations(Contents) \cup Permutations(Queries)
=============================================================================
