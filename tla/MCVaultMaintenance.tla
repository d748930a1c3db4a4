------------------------- MODULE MCVaultMaintenance -------------------------
(* Model-checking instances of VaultMaintenance.                           *)
EXTENDS VaultMaintenance, TLC

CONSTANTS A, B, f1, f2

\* Two record sets that share a content-addressed file.
TwoArchives == A :> {f1} @@ B :> {f1, f2}
\* One record set with two files, and an archive with one of them.
LiveArchives == A :> {f1, f2} @@ B :> {f1}

Symmetry == Permutations(Clients) \cup Permutations(Sessions)
=============================================================================
