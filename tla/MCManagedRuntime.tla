------------------------- MODULE MCManagedRuntime -------------------------
(* A request that waits, a restart, a child that dies or refuses to, and     *)
(* what an earlier process left on disk: nothing, with three requests to     *)
(* come, or everything, with two.                                            *)
EXTENDS ManagedRuntime

MCInit ==
  /\ Init
  /\ archive = "absent"
  /\ \/ /\ runtime = "absent" /\ weights[Default] = "absent"
        /\ requests = 0
     \/ /\ runtime = "verified" /\ weights[Default] = "full"
        /\ requests = 1
  /\ \A m \in Models \ {Default} : weights[m] = "absent"

MCFairSpec == MCInit /\ [][Next]_vars /\ Fairness
============================================================================
