---------------------------- MODULE VaultPromise ----------------------------
(***************************************************************************)
(* What the vault promises its owner about reset, restore and erasure,     *)
(* with no files, journals, sessions or failures: the account owns either  *)
(* nothing or one whole record set, and at most one destructive operation  *)
(* is pending.  A pending operation is announced before it takes effect,   *)
(* and it leaves "ready" behind only when it has fully happened or has not *)
(* happened at all.                                                        *)
(***************************************************************************)
CONSTANTS Archives, None

VARIABLES content,   \* the record set of the account, None when empty
          pending,   \* User.vault_lifecycle_state
          archive    \* the archive a pending restore is bound to

vars == <<content, pending, archive>>

Init ==
  /\ content \in Archives \cup {None}
  /\ pending = "ready" /\ archive = None

\* The owner works: the first records appear in an empty vault.
Work ==
  /\ content = None /\ content' \in Archives
  /\ UNCHANGED <<pending, archive>>

Announce(next, a) ==
  /\ pending' = next /\ archive' = a
  /\ UNCHANGED content

AnnounceReset == pending = "ready" /\ Announce("reset_pending", None)
AnnounceRestore == pending = "ready" /\ \E a \in Archives : Announce("restore_pending", a)
\* Erasure also supersedes whatever else is pending.
AnnounceErasure == Announce("erasure_pending", None)

\* The operation did not happen: the records are what they were.  An announced
\* erasure is never withdrawn.
Withdraw ==
  /\ pending \in {"reset_pending", "restore_pending"}
  /\ pending' = "ready" /\ archive' = None
  /\ UNCHANGED content

\* All records disappear at once, and the operation stays pending.
Delete ==
  /\ pending \in {"reset_pending", "erasure_pending"}
  /\ content' = None
  /\ UNCHANGED <<pending, archive>>

\* Deletion is over: only for a vault that owns nothing.
Complete ==
  /\ pending \in {"reset_pending", "erasure_pending"} /\ content = None
  /\ pending' = "ready" /\ archive' = None
  /\ UNCHANGED content

\* A restore fills an empty vault with exactly the archive it announced.
Restore ==
  /\ pending = "restore_pending" /\ content = None
  /\ content' = archive
  /\ pending' = "ready" /\ archive' = None

Next ==
  \/ Work \/ AnnounceReset \/ AnnounceRestore \/ AnnounceErasure
  \/ Withdraw \/ Delete \/ Complete \/ Restore

Spec == Init /\ [][Next]_vars
=============================================================================
