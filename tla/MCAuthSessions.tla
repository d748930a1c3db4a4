-------------------------- MODULE MCAuthSessions --------------------------
(* Two tabs of a browser, three families for two slots, one lost response  *)
(* or expiry.                                                              *)
EXTENDS AuthSessions, TLC
Symmetry == Permutations(Browsers) \cup Permutations(Requests) \cup Permutations(Families)
============================================================================
