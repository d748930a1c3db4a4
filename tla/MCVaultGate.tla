---------------------------- MODULE MCVaultGate ----------------------------
(* Model-checking instances of VaultGate.                                  *)
EXTENDS VaultGate
=============================================================================
