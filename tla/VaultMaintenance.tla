-------------------------- MODULE VaultMaintenance --------------------------
(***************************************************************************)
(* Reset, restore and erasure of one account's vault: the durable          *)
(* lifecycle state, the owned database rows, the managed files, the user's *)
(* trash and the restore journal, through crashes, failing steps and lost  *)
(* commit acknowledgements.                                                *)
(*   backend/career/deletion.py, backend/portability/restore.py,           *)
(*   backend/portability/journal.py, backend/api/deps.py and the routes    *)
(*   career_profile.py and portability.py                                  *)
(*                                                                         *)
(* One maintenance request runs at a time (the maintenance lock) and its   *)
(* destructive part runs alone (the writer permit): VaultGate proves both, *)
(* so here "running" is the request inside maintenance(), and "inflight"   *)
(* says that some ordinary request authorised earlier has not drained yet. *)
(* A record set of the account is named by the archive it would export to; *)
(* FilesOf gives the managed files its rows bind.                          *)
(***************************************************************************)
EXTENDS Integers, FiniteSets

CONSTANTS Clients,    \* slots for concurrent maintenance requests
          Sessions,   \* auth session families
          Archives,
          Refused,    \* the archives that are refused at every try
          Files,      \* canonical content-addressed storage paths
          FilesOf,    \* [Archives -> SUBSET Files]
          None,
          MaxFaults   \* bound on crashes plus failing steps

ASSUME MaintenanceAssumption ==
  /\ FilesOf \in [Archives -> SUBSET Files]
  /\ Refused \subseteq Archives
  /\ None \notin Archives \cup Clients \cup Sessions
  /\ MaxFaults \in Nat

VARIABLES
  lifecycle,    \* User.vault_lifecycle_state
  fingerprint,  \* User.vault_maintenance_fingerprint
  rows,         \* the record set of the account, None when it owns nothing
  live,         \* managed files at their canonical paths
  trash,        \* files under .trash/user-N
  foreign,      \* files another account's rows also bind
  journal,      \* .restore/user-N: archive fingerprint and created paths
  remnants,     \* deleted or rolled-back rows still readable in SQLite pages
  family,       \* what each session family is good for
  req,          \* the maintenance request each client has sent
  running,      \* the client whose request holds maintenance()
  step,         \* where that request stands
  transitioned, \* transitioned_from_ready
  staged,       \* the (source, destination) pairs of this attempt
  failed,       \* sanitization failed in this attempt
  inflight,     \* ordinary activity authorised before, not yet drained
  faults        \* remaining fault budget

disk == <<rows, live, trash, foreign, journal, remnants>>
authority == <<lifecycle, fingerprint, family>>
local == <<running, step, transitioned, staged, failed>>
vars == <<lifecycle, fingerprint, rows, live, trash, foreign, journal, remnants,
          family, req, running, step, transitioned, staged, failed, inflight,
          faults>>

Kinds == {"reset", "restore", "erasure"}
Lifecycles == {"ready", "reset_pending", "restore_pending", "erasure_pending"}
PendingState(kind) ==
  CASE kind = "reset" -> "reset_pending"
    [] kind = "restore" -> "restore_pending"
    [] kind = "erasure" -> "erasure_pending"

\* "full": live, with session-purpose bearers; "recovery": live, created by a
\* login during maintenance, no refresh; "sentinel": the revoked row whose digest
\* marks the one family that may finish an erasure.
FamilyKinds == {"none", "full", "recovery", "sentinel"}
LiveFamily(s) == family[s] \in {"full", "recovery"}

NoRequest == [kind |-> "none", session |-> None, purpose |-> "none", archive |-> None]
Requests ==
  [kind : Kinds, session : Sessions, purpose : {"session", "maintenance"},
   archive : Archives \cup {None}]
NoJournal == [fingerprint |-> None, paths |-> {}]
Journals == [fingerprint : Archives \cup {None}, paths : SUBSET Files]

Steps == {"none", "begun", "stage", "commit", "sanitize", "purge", "unjournal",
          "finalize", "prepare", "write", "commit_restore", "unjournal_restore",
          "rollback"}

FilesBound == IF rows = None THEN {} ELSE FilesOf[rows]

TypeOK ==
  /\ lifecycle \in Lifecycles
  /\ fingerprint \in Archives \cup {None}
  /\ fingerprint # None <=> lifecycle = "restore_pending"
  /\ rows \in Archives \cup {None}
  /\ live \subseteq Files /\ trash \subseteq Files /\ foreign \subseteq Files
  /\ journal \in Journals
  /\ remnants \in BOOLEAN
  /\ family \in [Sessions -> FamilyKinds]
  /\ req \in [Clients -> Requests \cup {NoRequest}]
  /\ running \in Clients \cup {None}
  /\ step \in Steps
  /\ transitioned \in BOOLEAN
  /\ staged \subseteq Files
  /\ failed \in BOOLEAN
  /\ inflight \in BOOLEAN
  /\ faults \in 0..MaxFaults

Init ==
  /\ lifecycle = "ready" /\ fingerprint = None
  /\ rows \in Archives \cup {None}
  /\ live = FilesBound /\ trash = {} /\ foreign = {}
  /\ journal = NoJournal /\ remnants = FALSE
  /\ family = [s \in Sessions |-> "none"]
  /\ req = [c \in Clients |-> NoRequest]
  /\ running = None /\ step = "none" /\ transitioned = FALSE
  /\ staged = {} /\ failed = FALSE
  /\ inflight = FALSE
  /\ faults = MaxFaults

Request == req[running]
At(place) == running # None /\ step = place
Goto(place) == step' = place /\ UNCHANGED <<running, transitioned, staged, failed, req>>
NoFault == UNCHANGED faults
Fault == faults > 0 /\ faults' = faults - 1

\* The request answers its client and leaves maintenance() and writer().
Finish ==
  /\ req' = [req EXCEPT ![running] = NoRequest]
  /\ running' = None /\ step' = "none" /\ transitioned' = FALSE
  /\ staged' = {} /\ failed' = FALSE

InWriter == step \notin {"none", "begun"}

-----------------------------------------------------------------------------
(* Login and logout, while the gate admits readers                         *)

Unused(s) == family[s] = "none" /\ \A c \in Clients : req[c].session # s

\* issue_auth_session: only in "ready", re-read under the row lock.
LoginReady(s) ==
  /\ ~InWriter /\ lifecycle = "ready" /\ Unused(s)
  /\ family' = [family EXCEPT ![s] = "full"]
  /\ UNCHANGED <<lifecycle, fingerprint, disk, req, local, inflight, faults>>

\* issue_maintenance_access with no usable family: every row is replaced by one
\* recovery family, the sentinel when an erasure is pending.
LoginPending(s) ==
  /\ ~InWriter /\ lifecycle # "ready" /\ Unused(s)
  /\ \A t \in Sessions :
       IF lifecycle = "erasure_pending" THEN family[t] # "sentinel" ELSE ~LiveFamily(t)
  /\ family' = [t \in Sessions |->
                  IF t # s THEN "none"
                  ELSE IF lifecycle = "erasure_pending" THEN "sentinel" ELSE "recovery"]
  /\ UNCHANGED <<lifecycle, fingerprint, disk, req, local, inflight, faults>>

\* revoke_presented_sessions: a live family is revoked, the sentinel deleted.
Logout(s) ==
  /\ ~InWriter /\ family[s] # "none"
  /\ family' = [family EXCEPT ![s] = "none"]
  /\ UNCHANGED <<lifecycle, fingerprint, disk, req, local, inflight, faults>>

-----------------------------------------------------------------------------
(* Ordinary activity under the reader permit                               *)

\* get_current_user_id authorises only in "ready", with a live full family.
AuthorizeActivity ==
  /\ ~InWriter /\ running = None /\ lifecycle = "ready" /\ ~inflight
  /\ \E s \in Sessions : family[s] = "full"
  /\ inflight' = TRUE
  /\ UNCHANGED <<authority, disk, req, local, faults>>

\* The authorised request ends, perhaps after creating the first records of an
\* empty vault; it may do so after the vault has become pending.
FinishActivity ==
  /\ inflight
  /\ inflight' = FALSE
  /\ \/ UNCHANGED <<rows, live>>
     \/ \E a \in Archives :
          /\ rows = None
          /\ rows' = a
          /\ live' = live \cup FilesOf[a]
  /\ UNCHANGED <<authority, trash, foreign, journal, remnants, req, local, faults>>

\* Another account publishes the same content-addressed file.
BindForeign(f) ==
  /\ ~InWriter /\ f \notin foreign
  /\ foreign' = foreign \cup {f}
  /\ live' = live \cup {f}
  /\ UNCHANGED <<authority, rows, trash, journal, remnants, req, local, inflight, faults>>

-----------------------------------------------------------------------------
(* Maintenance requests                                                    *)

\* get_vault_maintenance_authority and require_vault_maintenance_operation:
\* what the request is granted before it waits for the maintenance lock.
Authorized(s, purpose) ==
  \/ lifecycle = "ready" /\ purpose = "session" /\ family[s] = "full"
  \/ /\ lifecycle \in {"reset_pending", "restore_pending"}
     /\ purpose = "maintenance" /\ LiveFamily(s)
  \/ /\ lifecycle = "erasure_pending"
     /\ purpose = "maintenance" /\ family[s] = "sentinel"

\* Fault: erasure is not offered as the way out of another pending operation.
OperationAllowed_SameOnly(kind) == lifecycle \in {"ready", PendingState(kind)}

OperationAllowed(kind) ==
  \/ lifecycle \in {"ready", PendingState(kind)}
  \/ kind = "erasure"

Submit(c, kind, s, purpose, a) ==
  /\ req[c] = NoRequest
  /\ Authorized(s, purpose) /\ OperationAllowed(kind)
  /\ (a # None) <=> (kind = "restore")
  /\ req' = [req EXCEPT ![c] = [kind |-> kind, session |-> s,
                                purpose |-> purpose, archive |-> a]]
  /\ UNCHANGED <<authority, disk, local, inflight, faults>>

\* Fault: the purpose checked before the maintenance lock is trusted after it.
MayBegin_StaleAuthority(r) ==
  /\ OperationAllowed(r.kind)
  /\ (r.kind = "restore" /\ lifecycle = "restore_pending") => fingerprint = r.archive
  /\ LiveFamily(r.session) \/ (r.kind = "erasure" /\ family[r.session] = "sentinel")

\* Fault: the retry of a pending restore is taken for a conflict.
MayBegin_NoRetry(r) ==
  /\ OperationAllowed(r.kind)
  /\ r.purpose = IF lifecycle = "ready" THEN "session" ELSE "maintenance"
  /\ r.kind = "restore" => lifecycle = "ready"
  /\ \/ LiveFamily(r.session)
     \/ r.kind = "erasure" /\ family[r.session] = "sentinel"

\* begin_vault_maintenance re-validates everything under BEGIN IMMEDIATE.
MayBegin(r) ==
  /\ OperationAllowed(r.kind)
  /\ r.purpose = IF lifecycle = "ready" THEN "session" ELSE "maintenance"
  /\ (r.kind = "restore" /\ lifecycle = "restore_pending") => fingerprint = r.archive
  /\ \/ LiveFamily(r.session)
     \/ r.kind = "erasure" /\ family[r.session] = "sentinel"

\* Every other live family is revoked.
KeepOnly(kept) ==
  [s \in Sessions |-> IF s # kept /\ LiveFamily(s) THEN "none" ELSE family[s]]

Begin(c) ==
  /\ running = None /\ req[c] # NoRequest /\ MayBegin(req[c])
  /\ lifecycle' = PendingState(req[c].kind)
  /\ fingerprint' = req[c].archive
  /\ family' = [KeepOnly(req[c].session) EXCEPT ![req[c].session] =
                  IF req[c].kind = "erasure" THEN "sentinel" ELSE @]
  /\ running' = c /\ step' = "begun"
  /\ transitioned' = (lifecycle = "ready")
  /\ UNCHANGED <<disk, req, staged, failed, inflight, faults>>

RefuseBegin(c) ==
  /\ running = None /\ req[c] # NoRequest /\ ~MayBegin(req[c])
  /\ req' = [req EXCEPT ![c] = NoRequest]
  /\ UNCHANGED <<authority, disk, local, inflight, faults>>

\* clear_vault_maintenance by a request that moved the account out of "ready".
ClearIfTransitioned ==
  /\ lifecycle' = IF transitioned THEN "ready" ELSE lifecycle
  /\ fingerprint' = IF transitioned THEN None ELSE fingerprint

\* Old activity has drained, the writer permit and the vault lock are taken.
TakeWriterPermit ==
  /\ At("begun") /\ ~inflight
  /\ Goto(IF Request.kind = "restore" THEN "prepare" ELSE "stage")
  /\ UNCHANGED <<authority, disk, inflight>> /\ NoFault

\* VaultLockTimeout: nothing was touched.  An erasure stays pending; a reset, and
\* a restore (as ArchiveConflictError), are cleared if they began in "ready".
LockTimeout ==
  /\ At("begun") /\ ~inflight /\ Fault
  /\ IF Request.kind = "erasure"
     THEN UNCHANGED <<lifecycle, fingerprint>>
     ELSE ClearIfTransitioned
  /\ Finish
  /\ UNCHANGED <<family, disk, inflight>>

-----------------------------------------------------------------------------
(* delete_complete_vault                                                   *)

\* _exclusive_storage_paths and _exclusive_restore_journal_paths.
OwnedPaths == (FilesBound \cup journal.paths) \ foreign

StageFile(f) ==
  /\ At("stage") /\ f \in OwnedPaths \cap live
  /\ live' = live \ {f}
  /\ trash' = trash \cup {f}
  /\ staged' = staged \cup {f}
  /\ UNCHANGED <<authority, rows, foreign, journal, remnants, req, running, step,
                 transitioned, failed, inflight>> /\ NoFault

AllStaged ==
  /\ At("stage") /\ OwnedPaths \cap live = {}
  /\ Goto("commit")
  /\ UNCHANGED <<authority, disk, inflight>> /\ NoFault

\* Fault: what could not be moved back is purged.
RestoreFiles_PurgesRest(moved) ==
  /\ moved \subseteq staged
  /\ live' = live \cup moved
  /\ trash' = {}

\* _restore_files moves back the files of this attempt, or fails part way.
RestoreFiles(moved) ==
  /\ moved \subseteq staged
  /\ live' = live \cup moved
  /\ trash' = trash \ moved

\* A move fails, or the commit fails and the fresh snapshot shows that it did
\* not happen: the staged files go back and the error reaches the route.
DeletionFails ==
  /\ step \in {"stage", "commit"} /\ running # None /\ Fault
  /\ step = "commit" => rows # None
  /\ \/ RestoreFiles(staged)
     \/ \E moved \in SUBSET staged : RestoreFiles(moved)
  /\ Finish
  /\ UNCHANGED <<authority, rows, foreign, journal, remnants, inflight>>

\* db.commit() returned, or failed with the postcondition found published.
DeletionCommits ==
  /\ At("commit")
  /\ rows' = None
  /\ remnants' = (remnants \/ rows # None)
  /\ Goto("sanitize")
  /\ UNCHANGED <<authority, live, trash, foreign, journal, inflight>> /\ NoFault

\* The outcome cannot be verified: whichever it was, the files stay in the trash.
DeletionUnverified ==
  /\ At("commit") /\ Fault
  /\ \/ UNCHANGED <<rows, remnants>>
     \/ rows' = None /\ remnants' = (remnants \/ rows # None)
  /\ Finish
  /\ UNCHANGED <<authority, live, trash, foreign, journal, inflight>>

\* _finish_committed_deletion attempts both clean-ups before it reports either.
Sanitize ==
  /\ At("sanitize")
  /\ \/ remnants' = FALSE /\ failed' = FALSE /\ NoFault
     \/ remnants' = remnants /\ failed' = TRUE /\ Fault
  /\ step' = "purge"
  /\ UNCHANGED <<authority, rows, live, trash, foreign, journal, req, running,
                 transitioned, staged, inflight>>

\* Fault: leftovers of the trash do not stop the deletion from completing.
PurgeTrash_OnlyThisAttempt ==
  /\ At("purge") /\ ~failed
  /\ trash' = trash \ staged
  /\ Goto("unjournal")
  /\ UNCHANGED <<authority, rows, live, foreign, journal, remnants, inflight>> /\ NoFault

\* _remove_staged_files_for_user empties the whole user namespace.
PurgeTrash ==
  /\ At("purge") /\ ~failed
  /\ trash' = {}
  /\ Goto("unjournal")
  /\ UNCHANGED <<authority, rows, live, foreign, journal, remnants, inflight>> /\ NoFault

PurgeIncomplete ==
  /\ At("purge")
  /\ \/ failed /\ trash' = {} /\ NoFault
     \/ trash' \in SUBSET trash /\ Fault
  /\ Finish
  /\ UNCHANGED <<authority, rows, live, foreign, journal, remnants, inflight>>

\* clear_restore_journal, then the managed runtime files for an erasure.
ClearJournal ==
  /\ At("unjournal")
  /\ journal' = NoJournal
  /\ Goto("finalize")
  /\ UNCHANGED <<authority, rows, live, trash, foreign, remnants, inflight>> /\ NoFault

CleanupFails ==
  /\ step \in {"unjournal", "finalize"} /\ running # None /\ Fault
  /\ Finish
  /\ UNCHANGED <<authority, disk, inflight>>

\* The final sweep: a reset keeps only the presented family, which must still be
\* live; an erasure removes every family.
Finalize ==
  /\ At("finalize")
  /\ Request.kind = "reset" => LiveFamily(Request.session)
  /\ family' = IF Request.kind = "reset" THEN KeepOnly(Request.session)
               ELSE [s \in Sessions |-> "none"]
  /\ lifecycle' = "ready" /\ fingerprint' = None
  /\ Finish
  /\ UNCHANGED <<disk, inflight>> /\ NoFault

FinalizeRefused ==
  /\ At("finalize") /\ Request.kind = "reset" /\ ~LiveFamily(Request.session)
  /\ Finish
  /\ UNCHANGED <<authority, disk, inflight>> /\ NoFault

-----------------------------------------------------------------------------
(* restore_archive                                                         *)

ArchiveFiles == FilesOf[Request.archive]

\* What _validated_members, _assert_empty_vault, _decode_payload and
\* _assert_shared_catalog_compatible let through to the restore transaction.
Acceptable == rows = None /\ Request.archive \notin Refused

\* An error before the restore transaction began.  An ArchiveError or a conflict is
\* met again at each retry with that archive, and a retry leaves the account
\* pending.  Any other error (of the disk, of the database) is a fault, and does so
\* even when the request moved the account out of "ready".
RestoreRefused ==
  /\ At("prepare")
  /\ \/ ~Acceptable /\ NoFault /\ ClearIfTransitioned
     \/ Fault /\ (ClearIfTransitioned \/ UNCHANGED <<lifecycle, fingerprint>>)
  /\ Finish
  /\ UNCHANGED <<family, disk, inflight>>

JournalForeign ==
  /\ journal # NoJournal
  /\ \/ journal.fingerprint # Request.archive
     \/ ~(journal.paths \subseteq ArchiveFiles)

\* Fault: files are published before the journal that owns them.
PrepareJournal_Late ==
  /\ At("prepare") /\ Acceptable /\ ~JournalForeign
  /\ Goto("write")
  /\ UNCHANGED <<authority, disk, inflight>> /\ NoFault

\* Fault: a vault that already holds records is not refused.
PrepareJournal_AnyVault ==
  /\ At("prepare") /\ Request.archive \notin Refused /\ ~JournalForeign
  /\ LET missing == ArchiveFiles \ live
         paths == journal.paths \cup missing
     IN journal' = IF paths = {} /\ journal = NoJournal THEN NoJournal
                   ELSE [fingerprint |-> Request.archive, paths |-> paths]
  /\ Goto("write")
  /\ UNCHANGED <<authority, rows, live, trash, foreign, remnants, inflight>> /\ NoFault

\* prepare_restore_journal: durable before the first managed file is written.
PrepareJournal ==
  /\ At("prepare") /\ Acceptable /\ ~JournalForeign
  /\ LET missing == ArchiveFiles \ live
         paths == journal.paths \cup missing
     IN journal' = IF paths = {} /\ journal = NoJournal THEN NoJournal
                   ELSE [fingerprint |-> Request.archive, paths |-> paths]
  /\ Goto("write")
  /\ UNCHANGED <<authority, rows, live, trash, foreign, remnants, inflight>> /\ NoFault

\* atomic_restore_write of one absent file.
WriteFile(f) ==
  /\ At("write") /\ f \in ArchiveFiles \ live
  /\ live' = live \cup {f}
  /\ UNCHANGED <<authority, rows, trash, foreign, journal, remnants, req, local,
                 inflight>> /\ NoFault

AllWritten ==
  /\ At("write") /\ ArchiveFiles \subseteq live
  /\ Goto("commit_restore")
  /\ UNCHANGED <<authority, disk, inflight>> /\ NoFault

Publish ==
  /\ rows' = Request.archive
  /\ lifecycle' = "ready" /\ fingerprint' = None
  /\ family' = [s \in Sessions |-> "none"]

\* One commit inserts the rows, revokes every session and returns to "ready".
RestoreCommits ==
  /\ At("commit_restore")
  /\ Publish
  /\ Goto("unjournal_restore")
  /\ UNCHANGED <<live, trash, foreign, journal, remnants, inflight>> /\ NoFault

\* RestoreCleanupPendingError: the commit outcome could not be verified.
RestoreUnverified ==
  /\ At("commit_restore") /\ Fault
  /\ Publish \/ UNCHANGED <<rows, authority>>
  /\ Finish
  /\ UNCHANGED <<live, trash, foreign, journal, remnants, inflight>>

\* Removing a committed journal may fail with only a warning.
RestoreDone ==
  /\ At("unjournal_restore")
  /\ \/ journal' = NoJournal /\ NoFault
     \/ journal' = journal /\ Fault
  /\ Finish
  /\ UNCHANGED <<authority, rows, live, trash, foreign, remnants, inflight>>

\* Any error of the transaction rolls the rows back and starts the clean-up.
RestoreFails ==
  /\ running # None /\ step \in {"prepare", "write", "commit_restore"}
  /\ step = "prepare" => Acceptable
  /\ IF step = "prepare" /\ JournalForeign THEN NoFault ELSE Fault
  /\ remnants' = (remnants \/ step = "commit_restore")
  /\ Goto("rollback")
  /\ UNCHANGED <<authority, rows, live, trash, foreign, journal, inflight>>

\* _rollback_failed_restore unlinks the journal paths that are still exclusive.
RollbackPaths == journal.paths \ foreign

UnlinkRestored(f) ==
  /\ At("rollback") /\ f \in RollbackPaths \cap live
  /\ live' = live \ {f}
  /\ UNCHANGED <<authority, rows, trash, foreign, journal, remnants, req, local,
                 inflight>> /\ NoFault

\* RestoreRolledBackError: everything is clean, so the route clears the state,
\* also when this request is a retry.
RolledBack ==
  /\ At("rollback") /\ RollbackPaths \cap live = {}
  /\ journal' = NoJournal /\ remnants' = FALSE
  /\ lifecycle' = "ready" /\ fingerprint' = None
  /\ Finish
  /\ UNCHANGED <<family, rows, live, trash, foreign, inflight>> /\ NoFault

\* RestoreCleanupPendingError: the paths left on disk keep their journal.
RollbackIncomplete ==
  /\ At("rollback") /\ Fault
  /\ \/ journal' = journal /\ (remnants' = remnants \/ remnants' = FALSE)
     \/ /\ RollbackPaths \cap live = {}
        /\ journal' = NoJournal /\ remnants' = remnants
  /\ Finish
  /\ UNCHANGED <<authority, rows, live, trash, foreign, inflight>>

-----------------------------------------------------------------------------
\* The sidecar dies: SQLite rolls an open transaction back, everything volatile
\* is gone, every durable byte stays where it is.
Crash ==
  /\ Fault
  /\ req' = [c \in Clients |-> NoRequest]
  /\ running' = None /\ step' = "none" /\ transitioned' = FALSE
  /\ staged' = {} /\ failed' = FALSE
  /\ inflight' = FALSE
  /\ UNCHANGED <<authority, disk>>

DeletionStep ==
  \/ \E f \in Files : StageFile(f)
  \/ AllStaged \/ DeletionCommits \/ Sanitize \/ PurgeTrash \/ PurgeIncomplete
  \/ ClearJournal \/ Finalize \/ FinalizeRefused
  \/ DeletionFails \/ DeletionUnverified \/ CleanupFails

RestoreStep ==
  \/ \E f \in Files : WriteFile(f) \/ UnlinkRestored(f)
  \/ RestoreRefused \/ PrepareJournal \/ AllWritten \/ RestoreCommits
  \/ RestoreDone \/ RestoreFails \/ RolledBack
  \/ RestoreUnverified \/ RollbackIncomplete

RequestStep ==
  \/ \E c \in Clients : Begin(c) \/ RefuseBegin(c)
  \/ TakeWriterPermit \/ LockTimeout

SessionStep == \E s \in Sessions : LoginReady(s) \/ LoginPending(s) \/ Logout(s)

ActivityStep ==
  \/ AuthorizeActivity \/ FinishActivity
  \/ \E f \in Files : BindForeign(f)

SubmitStep ==
  \E c \in Clients, kind \in Kinds, s \in Sessions,
     purpose \in {"session", "maintenance"}, a \in Archives \cup {None} :
       Submit(c, kind, s, purpose, a)

Next ==
  \/ SessionStep \/ ActivityStep \/ SubmitStep \/ RequestStep
  \/ DeletionStep \/ RestoreStep \/ Crash

Spec == Init /\ [][Next]_vars

(***************************************************************************)
(* Fairness.  A request that runs goes on to its end, old activity drains, *)
(* and the user, who sees the pending state after each login, logs in and  *)
(* at some point no longer logs out.  The fault budget is finite: disks    *)
(* and databases work again at some point.                                 *)
(***************************************************************************)
Retry ==
  \E c \in Clients, kind \in Kinds, s \in Sessions :
    /\ lifecycle = PendingState(kind)
    /\ Submit(c, kind, s, "maintenance", fingerprint)

SubmitErasure ==
  \E c \in Clients, s \in Sessions :
    lifecycle # "ready" /\ Submit(c, "erasure", s, "maintenance", None)

Progress ==
  /\ WF_vars(DeletionStep) /\ WF_vars(RestoreStep)
  /\ WF_vars(TakeWriterPermit) /\ WF_vars(FinishActivity)
  /\ \A c \in Clients : SF_vars(Begin(c)) /\ SF_vars(RefuseBegin(c))
  /\ SF_vars(\E s \in Sessions : LoginPending(s))

StaysLoggedIn == <>[][\A s \in Sessions : ~Logout(s)]_vars

LiveSpec == Spec /\ Progress /\ StaysLoggedIn

\* What the user does about a pending operation, an assumption of the liveness
\* properties that need it: send it again, or fall back on complete erasure.
UserRetries == SF_vars(Retry)
UserErases == SF_vars(SubmitErasure)

-----------------------------------------------------------------------------
(* Properties                                                              *)

\* In "ready" the account's rows and its files agree: every bound file is at
\* its canonical path, no byte of anything deleted or rolled back is left in
\* place or in the trash, and an empty vault has no readable SQLite remnant.
ReadyIsIntact ==
  lifecycle = "ready" =>
    /\ live = FilesBound \cup foreign
    /\ trash = {}
    /\ rows = None => ~remnants

\* Until the deletion of the rows commits, each file they bind is on disk,
\* whatever crashed or failed between the moves.
NoBoundFileLost == FilesBound \subseteq live \cup trash

\* Staging, purging and rollback never take a file another account has bound.
ForeignFilesKept == foreign \subseteq live

\* No crash and no failing step of staging, purging, restoring or rolling back costs
\* a file that a committed row of any account binds (_stage_files, _restore_files,
\* _rollback_failed_restore).
ManagedFilesKept == NoBoundFileLost /\ ForeignFilesKept

\* A file that no row binds yet is claimed by the restore journal, so that
\* rollback or erasure can still find it after a crash.
JournalClaimsOrphans == live \ (FilesBound \cup foreign) \subseteq journal.paths

\* The error "A different restore operation owns the file journal" cannot
\* happen: the lifecycle fingerprint already keeps other archives away.
JournalMatchesRestore == At("prepare") /\ rows = None => ~JournalForeign

\* The journal knows whose every unbound file is and never belongs to another
\* archive than the restore that meets it (prepare_restore_journal).
JournalSound == JournalClaimsOrphans /\ JournalMatchesRestore

\* A recovery request that waited while another one finished the pending
\* operation does not start it afresh on the vault that is ready again, and a
\* request authorised in "ready" does not take over what became pending since.
RecoveryNeverStartsFresh ==
  running # None => (transitioned <=> Request.purpose = "session")

\* Seen from outside, every interleaving, crash and retry is a behaviour of
\* VaultPromise: records vanish and appear only as a whole, under an announced
\* operation, and "ready" is reached only when it happened or did not.
Promise ==
  INSTANCE VaultPromise
    WITH content <- rows, pending <- lifecycle, archive <- fingerprint
KeepsPromise == Promise!Spec

\* A pending reset or erasure that the user retries ends.
ResetConverges ==
  UserRetries => (lifecycle = "reset_pending" ~> lifecycle # "reset_pending")
ErasureConverges ==
  UserRetries => (lifecycle = "erasure_pending" ~> lifecycle = "ready")

\* A pending restore of an archive that passes the checks, into a vault that is
\* empty with no earlier activity left to fill it, ends when it is retried.
AcceptableRestoreConverges ==
  UserRetries =>
    ((lifecycle = "restore_pending" /\ fingerprint \notin Refused /\ rows = None /\ ~inflight)
       ~> lifecycle # "restore_pending")

\* A pending operation the user retries ends, whatever crashed or failed before.  A
\* restore does so only for an archive that _validated_members, _decode_payload and
\* _assert_shared_catalog_compatible accept and a vault that was empty: the retry
\* of any other after a crash is refused each time and stays pending, and the way
\* out of it is the complete erasure of ErasureRecovers.
PendingConverges == ResetConverges /\ ErasureConverges /\ AcceptableRestoreConverges

\* Whatever is pending, the restore of an archive that is always refused included,
\* a user who falls back on complete erasure gets a usable vault again.
ErasureRecovers == UserErases => (lifecycle # "ready" ~> lifecycle = "ready")
=============================================================================
