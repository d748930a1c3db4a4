---------------------------- MODULE VaultProofs ----------------------------
(***************************************************************************)
(* The activity gate and the maintenance it protects.                      *)
(*                                                                         *)
(* VaultGate, for any finite sets of readers, probes and maintainers: the  *)
(* counters are exact, a writer excludes all activity, and no waiter       *)
(* sleeps through the step that unblocked it.                              *)
(*                                                                         *)
(* VaultMaintenance, for any clients, sessions, archives, files and number *)
(* of faults: the vault's files and rows agree whenever it is "ready",     *)
(* nothing bound or foreign is lost on the way, and it implements          *)
(* VaultPromise.                                                           *)
(***************************************************************************)
EXTENDS VaultGate, VaultMaintenance, FiniteSetTheorems, TLAPS

-----------------------------------------------------------------------------
(* The gate: the parts of its inductive invariant.                         *)

Holding == {"preparing", "waiting", "writing"}

\* The maintenance lock makes the waiting or writing maintainer unique, which
\* is why the counter of waiting writers is 0 or 1.
LockExact ==
  \A m \in Maintainers : pc[m] \in Holding <=> lockHolder = m

WriterFields ==
  /\ waitingWriters = IF \E m \in Maintainers : pc[m] = "waiting" THEN 1 ELSE 0
  /\ writer <=> \E m \in Maintainers : pc[m] = "writing"

ReadersCounted == readers = Cardinality(Inside)

SleepersWait == \A t \in asleep : pc[t] = "waiting"

Excluded == writer => readers = 0

GateInv ==
  /\ GateTypeOK
  /\ LockExact
  /\ WriterFields
  /\ ReadersCounted
  /\ SleepersWait
  /\ Excluded
  /\ NoLostWakeup

\* What a step leaves to the cardinality argument: the set of tasks inside is
\* unchanged, gains the admitted task or loses the leaving one, and the counter
\* follows.
InsideFollows ==
  \/ Inside' = Inside /\ readers' = readers
  \/ \E t \in Tasks : /\ t \notin Inside
                      /\ Inside' = Inside \cup {t}
                      /\ readers' = readers + 1
  \/ \E t \in Inside : /\ Inside' = Inside \ {t}
                       /\ readers' = readers - 1

\* The tasks inside are finitely many, so they can be counted.
LEMMA InsideFinite == IsFiniteSet(Inside)
<1>1. IsFiniteSet(Readers \cup Probes)
  BY TaskAssumption, FS_Union
<1>2. Inside \subseteq Readers \cup Probes
  BY DEF Inside
<1>. QED  BY <1>1, <1>2, FS_Subset

\* A counter that follows its set through arrivals and departures stays exact.
LEMMA CountFollows ==
  ASSUME ReadersCounted, InsideFollows
  PROVE  ReadersCounted' /\ readers' \in Nat
<1>1. IsFiniteSet(Inside) /\ Cardinality(Inside) \in Nat
  BY InsideFinite, FS_CardinalityType
<1>2. CASE Inside' = Inside /\ readers' = readers
  BY <1>1, <1>2 DEF ReadersCounted
<1>3. ASSUME NEW t \in Tasks, t \notin Inside,
             Inside' = Inside \cup {t}, readers' = readers + 1
      PROVE  ReadersCounted' /\ readers' \in Nat
  BY <1>1, <1>3, FS_AddElement DEF ReadersCounted
<1>4. ASSUME NEW t \in Inside, Inside' = Inside \ {t}, readers' = readers - 1
      PROVE  ReadersCounted' /\ readers' \in Nat
  <2>1. Cardinality(Inside \ {t}) = Cardinality(Inside) - 1
    BY <1>1, FS_RemoveElement
  <2>2. Cardinality(Inside \ {t}) \in Nat
    BY <1>1, FS_RemoveElement, FS_CardinalityType
  <2>. QED  BY <1>4, <2>1, <2>2 DEF ReadersCounted
<1>. QED  BY <1>2, <1>3, <1>4 DEF InsideFollows

\* Nobody is anywhere at first.
LEMMA GateStarts ==
  ASSUME GateInit
  PROVE  GateInv
<1>1. Inside = {} /\ Cardinality({}) = 0
  BY FS_EmptySet DEF GateInit, Inside, Tasks
<1>2. GateTypeOK
  BY DEF GateInit, GateTypeOK, Tasks, Places
<1>3. LockExact
  BY TaskAssumption DEF GateInit, LockExact, Holding, Tasks
<1>. QED
  BY <1>1, <1>2, <1>3 DEF GateInit, GateInv, WriterFields, ReadersCounted,
     SleepersWait, Excluded, NoLostWakeup, Tasks

\* Everything in the invariant but the cardinality itself: what a step must
\* establish besides InsideFollows, given that the counter stays a number.
GateRest ==
  /\ GateTypeOK
  /\ LockExact
  /\ WriterFields
  /\ SleepersWait
  /\ Excluded
  /\ NoLostWakeup

-----------------------------------------------------------------------------
(* One step per action of the gate.                                        *)

\* Every step keeps the invariant's parts that speak of single tasks.
LEMMA GateStepFacts ==
  ASSUME GateInv, [GateNext]_gateVars
  PROVE  InsideFollows /\ (readers' \in Nat => GateRest')
<1>. USE TaskAssumption DEF GateInv, GateRest, GateTypeOK, Tasks, Places, LockExact, Holding,
         WriterFields, SleepersWait, Excluded, NoLostWakeup, ReaderMayEnter,
         WriterMayEnter, MoveTo, NotifyAll, Sleep, Admit, gate
<1>1. ASSUME NEW r \in Readers, EnterReader(r)
      PROVE  InsideFollows /\ (readers' \in Nat => GateRest')
  <2>1. Inside' = Inside \cup {r} /\ r \notin Inside /\ readers' = readers + 1
    BY <1>1 DEF EnterReader, Inside
  <2>2. ASSUME readers' \in Nat PROVE GateRest'
    BY <1>1, <2>2 DEF EnterReader
  <2>. QED  BY <2>1, <2>2 DEF InsideFollows
<1>2. ASSUME NEW r \in Readers, BlockReader(r)
      PROVE  InsideFollows /\ (readers' \in Nat => GateRest')
  <2>1. Inside' = Inside /\ readers' = readers
    BY <1>2 DEF BlockReader, Inside
  <2>2. ASSUME readers' \in Nat PROVE GateRest'
    BY <1>2, <2>2 DEF BlockReader
  <2>. QED  BY <2>1, <2>2 DEF InsideFollows
<1>3. ASSUME NEW r \in Readers, WakeReader(r)
      PROVE  InsideFollows /\ (readers' \in Nat => GateRest')
  <2>1. Inside' = Inside \cup {r} /\ r \notin Inside /\ readers' = readers + 1
    BY <1>3 DEF WakeReader, Inside
  <2>2. ASSUME readers' \in Nat PROVE GateRest'
    BY <1>3, <2>2 DEF WakeReader
  <2>. QED  BY <2>1, <2>2 DEF InsideFollows
<1>4. ASSUME NEW r \in Readers, ResleepReader(r)
      PROVE  InsideFollows /\ (readers' \in Nat => GateRest')
  <2>1. Inside' = Inside /\ readers' = readers
    BY <1>4 DEF ResleepReader, Inside
  <2>2. ASSUME readers' \in Nat PROVE GateRest'
    BY <1>4, <2>2 DEF ResleepReader
  <2>. QED  BY <2>1, <2>2 DEF InsideFollows
<1>5. ASSUME NEW r \in Readers, CancelReader(r)
      PROVE  InsideFollows /\ (readers' \in Nat => GateRest')
  <2>1. Inside' = Inside /\ readers' = readers
    BY <1>5 DEF CancelReader, Inside
  <2>2. ASSUME readers' \in Nat PROVE GateRest'
    BY <1>5, <2>2 DEF CancelReader
  <2>. QED  BY <2>1, <2>2 DEF InsideFollows
<1>6. ASSUME NEW t \in Readers \cup Probes, LeaveReader(t)
      PROVE  InsideFollows /\ (readers' \in Nat => GateRest')
  <2>1. Inside' = Inside \ {t} /\ t \in Inside /\ readers' = readers - 1
    BY <1>6 DEF LeaveReader, Inside
  <2>2. ASSUME readers' \in Nat PROVE GateRest'
    BY <1>6, <2>2 DEF LeaveReader
  <2>. QED  BY <2>1, <2>2 DEF InsideFollows
<1>7. ASSUME NEW p \in Probes, EnterProbe(p)
      PROVE  InsideFollows /\ (readers' \in Nat => GateRest')
  <2>1. Inside' = Inside \cup {p} /\ p \notin Inside /\ readers' = readers + 1
    BY <1>7 DEF EnterProbe, Inside
  <2>2. ASSUME readers' \in Nat PROVE GateRest'
    BY <1>7, <2>2 DEF EnterProbe
  <2>. QED  BY <2>1, <2>2 DEF InsideFollows
<1>8. ASSUME NEW m \in Maintainers, QueueMaintenance(m)
      PROVE  InsideFollows /\ (readers' \in Nat => GateRest')
  <2>1. Inside' = Inside /\ readers' = readers
    BY <1>8 DEF QueueMaintenance, Inside
  <2>2. ASSUME readers' \in Nat PROVE GateRest'
    BY <1>8, <2>2 DEF QueueMaintenance
  <2>. QED  BY <2>1, <2>2 DEF InsideFollows
<1>9. ASSUME NEW m \in Maintainers, LockMaintenance(m)
      PROVE  InsideFollows /\ (readers' \in Nat => GateRest')
  <2>1. Inside' = Inside /\ readers' = readers
    BY <1>9 DEF LockMaintenance, Inside
  <2>2. ASSUME readers' \in Nat PROVE GateRest'
    BY <1>9, <2>2 DEF LockMaintenance
  <2>. QED  BY <2>1, <2>2 DEF InsideFollows
<1>10. ASSUME NEW m \in Maintainers, AbandonMaintenance(m)
      PROVE  InsideFollows /\ (readers' \in Nat => GateRest')
  <2>1. Inside' = Inside /\ readers' = readers
    BY <1>10 DEF AbandonMaintenance, Inside
  <2>2. ASSUME readers' \in Nat PROVE GateRest'
    BY <1>10, <2>2 DEF AbandonMaintenance
  <2>. QED  BY <2>1, <2>2 DEF InsideFollows
<1>11. ASSUME NEW m \in Maintainers, EnterWriter(m)
      PROVE  InsideFollows /\ (readers' \in Nat => GateRest')
  <2>1. Inside' = Inside /\ readers' = readers
    BY <1>11 DEF EnterWriter, Inside
  <2>2. ASSUME readers' \in Nat PROVE GateRest'
    BY <1>11, <2>2 DEF EnterWriter
  <2>. QED  BY <2>1, <2>2 DEF InsideFollows
<1>12. ASSUME NEW m \in Maintainers, BlockWriter(m)
      PROVE  InsideFollows /\ (readers' \in Nat => GateRest')
  <2>1. Inside' = Inside /\ readers' = readers
    BY <1>12 DEF BlockWriter, Inside
  <2>2. ASSUME readers' \in Nat PROVE GateRest'
    BY <1>12, <2>2 DEF BlockWriter
  <2>. QED  BY <2>1, <2>2 DEF InsideFollows
<1>13. ASSUME NEW m \in Maintainers, WakeWriter(m)
      PROVE  InsideFollows /\ (readers' \in Nat => GateRest')
  <2>1. Inside' = Inside /\ readers' = readers
    BY <1>13 DEF WakeWriter, Inside
  <2>2. ASSUME readers' \in Nat PROVE GateRest'
    BY <1>13, <2>2 DEF WakeWriter
  <2>. QED  BY <2>1, <2>2 DEF InsideFollows
<1>14. ASSUME NEW m \in Maintainers, ResleepWriter(m)
      PROVE  InsideFollows /\ (readers' \in Nat => GateRest')
  <2>1. Inside' = Inside /\ readers' = readers
    BY <1>14 DEF ResleepWriter, Inside
  <2>2. ASSUME readers' \in Nat PROVE GateRest'
    BY <1>14, <2>2 DEF ResleepWriter
  <2>. QED  BY <2>1, <2>2 DEF InsideFollows
<1>15. ASSUME NEW m \in Maintainers, CancelWriter(m)
      PROVE  InsideFollows /\ (readers' \in Nat => GateRest')
  <2>1. Inside' = Inside /\ readers' = readers
    BY <1>15 DEF CancelWriter, Inside
  <2>2. ASSUME readers' \in Nat PROVE GateRest'
    BY <1>15, <2>2 DEF CancelWriter
  <2>. QED  BY <2>1, <2>2 DEF InsideFollows
<1>16. ASSUME NEW m \in Maintainers, LeaveWriter(m)
      PROVE  InsideFollows /\ (readers' \in Nat => GateRest')
  <2>1. Inside' = Inside /\ readers' = readers
    BY <1>16 DEF LeaveWriter, Inside
  <2>2. ASSUME readers' \in Nat PROVE GateRest'
    BY <1>16, <2>2 DEF LeaveWriter
  <2>. QED  BY <2>1, <2>2 DEF InsideFollows
<1>17. CASE UNCHANGED gateVars
  BY <1>17 DEF gateVars, InsideFollows, Inside
<1>. QED
  BY <1>1, <1>2, <1>3, <1>4, <1>5, <1>6, <1>7, <1>8,
     <1>9, <1>10, <1>11, <1>12, <1>13, <1>14, <1>15, <1>16, <1>17
     DEF GateNext, ReaderStep, ProbeStep, MaintainerStep

\* Every step of GateNext, and every stutter, preserves the inductive invariant.
LEMMA GateStep ==
  ASSUME GateInv, [GateNext]_gateVars
  PROVE  GateInv'
<1>1. InsideFollows /\ (readers' \in Nat => GateRest')
  BY GateStepFacts
<1>2. ReadersCounted' /\ readers' \in Nat
  BY <1>1, CountFollows DEF GateInv
<1>. QED  BY <1>1, <1>2 DEF GateInv, GateRest

\* The inductive invariant holds in every behaviour.
LEMMA GateInvHolds == GateSpec => []GateInv
<1>1. GateInit => GateInv
  BY GateStarts
<1>2. GateInv /\ [GateNext]_gateVars => GateInv'
  BY GateStep
<1>. QED  BY <1>1, <1>2, PTL DEF GateSpec

-----------------------------------------------------------------------------
\* A counted writer shuts everybody out.
LEMMA GateInvExcludes ==
  ASSUME GateInv
  PROVE  WriterExcludesActivity
<1>. SUFFICES ASSUME NEW m \in Writing
              PROVE  Inside = {} /\ Writing = {m}
  BY DEF WriterExcludesActivity
<1>1. m \in Maintainers /\ pc[m] = "writing" /\ lockHolder = m
  BY DEF Writing, GateInv, LockExact, Holding
<1>2. Cardinality(Inside) = 0
  BY <1>1 DEF GateInv, WriterFields, Excluded, ReadersCounted
<1>3. Inside = {}
  BY <1>2, InsideFinite, FS_EmptySet
<1>4. Writing = {m}
  BY <1>1 DEF Writing, GateInv, LockExact, Holding
<1>. QED  BY <1>3, <1>4

\* The counters stand for the sets of the invariant.
LEMMA GateInvCounts ==
  ASSUME GateInv
  PROVE  CountersExact
<1>1. readers = Cardinality(Inside)
  BY DEF GateInv, ReadersCounted
<1>2. writer <=> Writing # {}
  BY DEF GateInv, WriterFields, Writing
<1>3. waitingWriters = Cardinality(Waiting)
  <2>1. CASE Waiting = {}
    BY <2>1, FS_EmptySet DEF GateInv, WriterFields, Waiting
  <2>2. CASE Waiting # {}
    <3>1. Waiting = {lockHolder} /\ waitingWriters = 1
      BY <2>2 DEF GateInv, LockExact, Holding, WriterFields, Waiting
    <3>. QED  BY <3>1, FS_Singleton
  <2>. QED  BY <2>1, <2>2
<1>. QED  BY <1>1, <1>2, <1>3 DEF CountersExact

\* Every variable of the gate keeps its type: in particular the two counters
\* never go below zero, however releases and cancellations interleave.
THEOREM GateTypeCorrect == GateSpec => []GateTypeOK
<1>1. GateInv => GateTypeOK
  BY DEF GateInv
<1>. QED  BY <1>1, GateInvHolds, PTL

\* No request, scheduled search or probe overlaps the writer section of a
\* maintenance operation, and no two such sections overlap.
THEOREM MaintenanceRunsAlone == GateSpec => []WriterExcludesActivity
<1>1. GateInv => WriterExcludesActivity
  BY GateInvExcludes
<1>. QED  BY <1>1, GateInvHolds, PTL

\* The counters of activity.py count exactly the tasks they stand for.
THEOREM GateCountersExact == GateSpec => []CountersExact
<1>1. GateInv => CountersExact
  BY GateInvCounts
<1>. QED  BY <1>1, GateInvHolds, PTL

\* No task sleeps on the condition once its predicate has become true: every
\* step that makes it true, cancellation included, notifies.
THEOREM NoWaiterForgotten == GateSpec => []NoLostWakeup
<1>1. GateInv => NoLostWakeup
  BY DEF GateInv
<1>. QED  BY <1>1, GateInvHolds, PTL

-----------------------------------------------------------------------------
(* Maintenance: the inductive invariant, one part per concern.             *)

\* The running request is the one the durable state names, until its own
\* commit returns the account to "ready".
ControlInv ==
  /\ running = None <=> step = "none"
  /\ running # None =>
       /\ Request \in Requests
       /\ Request.archive # None <=> Request.kind = "restore"
       /\ IF step = "unjournal_restore"
          THEN lifecycle = "ready" /\ Request.kind = "restore"
          ELSE lifecycle = PendingState(Request.kind) /\ fingerprint = Request.archive
       /\ step \in {"stage", "commit", "sanitize", "purge", "unjournal", "finalize"}
            => Request.kind # "restore"
       /\ step \in {"prepare", "write", "commit_restore", "rollback"}
            => Request.kind = "restore"
  /\ \A c \in Clients : req[c] # NoRequest =>
       req[c].archive # None <=> req[c].kind = "restore"
  /\ InWriter => ~inflight

\* When the rows are known to be gone, and when they are known to be there.
RowsInv ==
  /\ step \in {"sanitize", "purge", "unjournal", "finalize", "write",
               "commit_restore", "rollback"} => rows = None
  /\ step = "unjournal_restore" => rows = Request.archive

\* What a deletion has staged and what it has already removed.
DeletionInv ==
  /\ step \in {"none", "begun"} => staged = {}
  /\ step \in {"stage", "commit"} => staged \subseteq FilesBound \cup journal.paths
  /\ step \in {"commit", "sanitize", "purge", "unjournal", "finalize"}
       => OwnedPaths \cap live = {}
  /\ step = "purge" /\ ~failed => ~remnants
  /\ step \in {"unjournal", "finalize"} => ~remnants /\ trash = {}
  /\ step = "finalize" => journal = NoJournal

\* What a restore has already journalled and written.
RestoreInv ==
  /\ step \in {"write", "commit_restore", "unjournal_restore"}
       => journal.paths \subseteq ArchiveFiles
  /\ step = "write" => ArchiveFiles \ live \subseteq journal.paths
  /\ step \in {"commit_restore", "unjournal_restore"} => ArchiveFiles \subseteq live
  /\ step \in {"write", "commit_restore", "rollback"} /\ journal # NoJournal
       => journal.fingerprint = fingerprint

\* The trash is used by deletions only; a journal left over by a committed
\* restore claims nothing but bound files, any other one belongs to the archive
\* of the pending restore.
LeftoverInv ==
  /\ lifecycle \in {"ready", "restore_pending"} => trash = {}
  /\ lifecycle = "ready" => journal.paths \subseteq FilesBound
  /\ lifecycle = "ready" /\ rows = None => journal = NoJournal
  /\ lifecycle = "restore_pending" /\ rows = None /\ journal # NoJournal
       => journal.fingerprint = fingerprint /\ journal.paths \subseteq FilesOf[fingerprint]

\* Whoever may still give up has changed nothing yet.
UntouchedInv ==
  transitioned /\ step \in {"begun", "prepare"} =>
    /\ live = FilesBound \cup foreign
    /\ trash = {}
    /\ journal.paths \subseteq FilesBound
    /\ rows = None => ~remnants /\ journal = NoJournal

DiskInv ==
  /\ RowsInv /\ DeletionInv /\ RestoreInv /\ LeftoverInv /\ UntouchedInv
  /\ ReadyIsIntact /\ NoBoundFileLost /\ ForeignFilesKept /\ JournalClaimsOrphans

IInv ==
  TypeOK /\ ControlInv /\ DiskInv

-----------------------------------------------------------------------------
(* One step per action of the specification.                               *)

\* A fault spends one unit of the budget.
LEMMA BudgetStep ==
  ASSUME faults \in 0..MaxFaults, Fault
  PROVE  faults' \in 0..MaxFaults
BY MaintenanceAssumption DEF Fault

\* Every step keeps the types and the request that the durable state names.
LEMMA TypeStep ==
  ASSUME TypeOK, ControlInv, [Next]_vars
  PROVE  TypeOK' /\ ControlInv'
<1>. USE MaintenanceAssumption, BudgetStep DEF TypeOK, ControlInv, Kinds, Lifecycles, FamilyKinds, NoRequest, Requests,
         NoJournal, Journals, Steps, Request, At, Goto, NoFault, Finish, InWriter, disk, authority, local,
         ClearIfTransitioned, KeepOnly, PendingState, Publish
<1>1. ASSUME NEW s \in Sessions, LoginReady(s)
      PROVE  TypeOK' /\ ControlInv'
  BY <1>1 DEF LoginReady
<1>2. ASSUME NEW s \in Sessions, LoginPending(s)
      PROVE  TypeOK' /\ ControlInv'
  BY <1>2 DEF LoginPending
<1>3. ASSUME NEW s \in Sessions, Logout(s)
      PROVE  TypeOK' /\ ControlInv'
  BY <1>3 DEF Logout
<1>4. CASE AuthorizeActivity
  BY <1>4 DEF AuthorizeActivity
<1>5. CASE FinishActivity
  <2>1. rows' \in Archives \cup {None} /\ live' \subseteq Files /\ inflight' = FALSE
    BY <1>5 DEF FinishActivity
  <2>2. UNCHANGED <<authority, trash, foreign, journal, remnants, req, local, faults>>
    BY <1>5 DEF FinishActivity
  <2> HIDE DEF Requests, NoRequest, Journals, NoJournal
  <2>3. TypeOK'
    BY <2>1, <2>2
  <2>4. ControlInv'
    BY <2>1, <2>2
  <2> QED
    BY <2>3, <2>4
<1>6. ASSUME NEW f \in Files, BindForeign(f)
      PROVE  TypeOK' /\ ControlInv'
  BY <1>6 DEF BindForeign
<1>7. ASSUME NEW c \in Clients, NEW kind \in Kinds, NEW s \in Sessions,
             NEW purpose \in {"session", "maintenance"}, NEW a \in Archives \cup {None},
             Submit(c, kind, s, purpose, a)
      PROVE  TypeOK' /\ ControlInv'
  BY <1>7 DEF Submit
<1>8. ASSUME NEW c \in Clients, Begin(c)
      PROVE  TypeOK' /\ ControlInv'
  BY <1>8 DEF Begin, MayBegin, OperationAllowed
<1>9. ASSUME NEW c \in Clients, RefuseBegin(c)
      PROVE  TypeOK' /\ ControlInv'
  BY <1>9 DEF RefuseBegin
<1>10. CASE TakeWriterPermit
  BY <1>10 DEF TakeWriterPermit
<1>11. CASE LockTimeout
  BY <1>11 DEF LockTimeout
<1>12. ASSUME NEW f \in Files, StageFile(f)
      PROVE  TypeOK' /\ ControlInv'
  BY <1>12 DEF StageFile
<1>13. CASE AllStaged
  BY <1>13 DEF AllStaged
<1>14. CASE DeletionCommits
  BY <1>14 DEF DeletionCommits
<1>15. CASE Sanitize
  <2>1. remnants' \in BOOLEAN /\ failed' \in BOOLEAN /\ faults' \in 0..MaxFaults
    BY <1>15 DEF Sanitize
  <2>2. step = "sanitize" /\ step' = "purge" /\ running # None
    BY <1>15 DEF Sanitize
  <2>3. UNCHANGED <<authority, rows, live, trash, foreign, journal, req, running,
                    transitioned, staged, inflight>>
    BY <1>15 DEF Sanitize
  <2> QED
    BY <2>1, <2>2, <2>3
<1>16. CASE PurgeTrash
  BY <1>16 DEF PurgeTrash
<1>17. CASE PurgeIncomplete
  BY <1>17 DEF PurgeIncomplete
<1>18. CASE ClearJournal
  BY <1>18 DEF ClearJournal
<1>19. CASE Finalize
  BY <1>19 DEF Finalize
<1>20. CASE FinalizeRefused
  BY <1>20 DEF FinalizeRefused
<1>21. CASE DeletionFails
  BY <1>21 DEF DeletionFails, RestoreFiles
<1>22. CASE DeletionUnverified
  BY <1>22 DEF DeletionUnverified
<1>23. CASE CleanupFails
  BY <1>23 DEF CleanupFails
<1>24. ASSUME NEW f \in Files, WriteFile(f)
      PROVE  TypeOK' /\ ControlInv'
  BY <1>24 DEF WriteFile, ArchiveFiles
<1>25. ASSUME NEW f \in Files, UnlinkRestored(f)
      PROVE  TypeOK' /\ ControlInv'
  BY <1>25 DEF UnlinkRestored
<1>26. CASE RestoreRefused
  BY <1>26 DEF RestoreRefused, Acceptable
<1>27. CASE PrepareJournal
  BY <1>27 DEF PrepareJournal, Acceptable, ArchiveFiles
<1>28. CASE AllWritten
  BY <1>28 DEF AllWritten
<1>29. CASE RestoreCommits
  BY <1>29 DEF RestoreCommits
<1>30. CASE RestoreDone
  <2>1. faults' \in 0..MaxFaults
    BY <1>30 DEF RestoreDone
  <2>2. journal' = journal \/ journal' = NoJournal
    BY <1>30, <2>1 DEF RestoreDone
  <2>3. journal' \in Journals
    BY <1>30, <2>1, <2>2 DEF RestoreDone
  <2>4. remnants' = remnants \/ remnants' = FALSE
    BY <1>30, <2>1, <2>2, <2>3 DEF RestoreDone
  <2>5. rows' \in Archives \cup {None} /\ family' \in [Sessions -> FamilyKinds]
    BY <1>30, <2>1, <2>2, <2>3, <2>4 DEF RestoreDone
  <2>6. TypeOK'
    BY <1>30, <2>1, <2>2, <2>3, <2>4, <2>5 DEF RestoreDone
  <2>7. ControlInv'
    BY <1>30, <2>1, <2>2, <2>3, <2>4, <2>5, <2>6 DEF RestoreDone
  <2>. QED  BY <2>1, <2>2, <2>3, <2>4, <2>5, <2>6, <2>7
<1>31. CASE RestoreFails
  BY <1>31 DEF RestoreFails, Acceptable
<1>32. CASE RolledBack
  BY <1>32 DEF RolledBack
<1>33. CASE RestoreUnverified
  <2>1. faults' \in 0..MaxFaults
    BY <1>33 DEF RestoreUnverified
  <2>2. journal' = journal \/ journal' = NoJournal
    BY <1>33, <2>1 DEF RestoreUnverified
  <2>3. journal' \in Journals
    BY <1>33, <2>1, <2>2 DEF RestoreUnverified
  <2>4. remnants' = remnants \/ remnants' = FALSE
    BY <1>33, <2>1, <2>2, <2>3 DEF RestoreUnverified
  <2>5. rows' \in Archives \cup {None} /\ family' \in [Sessions -> FamilyKinds]
    BY <1>33, <2>1, <2>2, <2>3, <2>4 DEF RestoreUnverified
  <2>6. TypeOK'
    BY <1>33, <2>1, <2>2, <2>3, <2>4, <2>5 DEF RestoreUnverified
  <2>7. ControlInv'
    BY <1>33, <2>1, <2>2, <2>3, <2>4, <2>5, <2>6 DEF RestoreUnverified
  <2>. QED  BY <2>1, <2>2, <2>3, <2>4, <2>5, <2>6, <2>7
<1>34. CASE RollbackIncomplete
  <2>1. faults' \in 0..MaxFaults
    BY <1>34 DEF RollbackIncomplete
  <2>2. journal' = journal \/ journal' = NoJournal
    BY <1>34, <2>1 DEF RollbackIncomplete
  <2>3. journal' \in Journals
    BY <1>34, <2>1, <2>2 DEF RollbackIncomplete
  <2>4. remnants' = remnants \/ remnants' = FALSE
    BY <1>34, <2>1, <2>2, <2>3 DEF RollbackIncomplete
  <2>5. rows' \in Archives \cup {None} /\ family' \in [Sessions -> FamilyKinds]
    BY <1>34, <2>1, <2>2, <2>3, <2>4 DEF RollbackIncomplete
  <2>6. TypeOK'
    BY <1>34, <2>1, <2>2, <2>3, <2>4, <2>5 DEF RollbackIncomplete
  <2>7. ControlInv'
    BY <1>34, <2>1, <2>2, <2>3, <2>4, <2>5, <2>6 DEF RollbackIncomplete
  <2>. QED  BY <2>1, <2>2, <2>3, <2>4, <2>5, <2>6, <2>7
<1>35. CASE Crash
  BY <1>35 DEF Crash
<1>36. CASE UNCHANGED vars
  BY <1>36 DEF vars
<1>. HIDE DEF TypeOK, ControlInv, Kinds, Lifecycles, FamilyKinds, NoRequest, Requests,
         NoJournal, Journals, Steps, Request, At, Goto, NoFault, Finish, InWriter, disk, authority, local,
         ClearIfTransitioned, KeepOnly, PendingState, Publish
<1>. QED
  BY <1>1, <1>2, <1>3, <1>4, <1>5, <1>6, <1>7, <1>8, <1>9, <1>10, <1>11, <1>12, <1>13,
     <1>14, <1>15, <1>16, <1>17, <1>18, <1>19, <1>20, <1>21, <1>22, <1>23, <1>24, <1>25,
     <1>26, <1>27, <1>28, <1>29, <1>30, <1>31, <1>32, <1>33, <1>34, <1>35, <1>36
  DEF Next, SessionStep, ActivityStep, SubmitStep, RequestStep, DeletionStep, RestoreStep

\* Every step keeps rows, files, trash and journal in agreement.
LEMMA DiskStep ==
  ASSUME TypeOK, ControlInv, TypeOK', ControlInv', DiskInv, [Next]_vars
  PROVE  DiskInv'
<1>. USE MaintenanceAssumption DEF DiskInv, RowsInv, DeletionInv, RestoreInv, LeftoverInv, UntouchedInv, ReadyIsIntact,
         NoBoundFileLost, ForeignFilesKept, JournalClaimsOrphans, TypeOK, ControlInv,
         Kinds, Lifecycles, NoJournal, Journals, FilesBound, OwnedPaths, RollbackPaths,
         ArchiveFiles, Requests, NoRequest, Request, At, Goto, NoFault, Finish, InWriter, disk, authority, local,
         ClearIfTransitioned, KeepOnly, PendingState, Publish
<1>1. ASSUME NEW s \in Sessions, LoginReady(s)
      PROVE  DiskInv'
  BY <1>1 DEF LoginReady
<1>2. ASSUME NEW s \in Sessions, LoginPending(s)
      PROVE  DiskInv'
  BY <1>2 DEF LoginPending
<1>3. ASSUME NEW s \in Sessions, Logout(s)
      PROVE  DiskInv'
  BY <1>3 DEF Logout
<1>4. CASE AuthorizeActivity
  BY <1>4 DEF AuthorizeActivity
<1>5. CASE FinishActivity
  BY <1>5 DEF FinishActivity
<1>6. ASSUME NEW f \in Files, BindForeign(f)
      PROVE  DiskInv'
  BY <1>6 DEF BindForeign
<1>7. ASSUME NEW c \in Clients, NEW kind \in Kinds, NEW s \in Sessions,
             NEW purpose \in {"session", "maintenance"}, NEW a \in Archives \cup {None},
             Submit(c, kind, s, purpose, a)
      PROVE  DiskInv'
  <2>1. running # None => req[running] # NoRequest
    BY <1>7 DEF Submit
  <2>2. running # None => Request' = Request
    BY <1>7, <2>1 DEF Submit
  <2>3. DiskInv'
    BY <1>7, <2>1, <2>2 DEF Submit
  <2>. QED  BY <2>1, <2>2, <2>3
<1>8. ASSUME NEW c \in Clients, Begin(c)
      PROVE  DiskInv'
  <2>1. /\ running = None /\ running' = c /\ Request' = req[c]
        /\ step' = "begun" /\ transitioned' = (lifecycle = "ready")
    BY <1>8 DEF Begin
  <2>2. /\ lifecycle' = PendingState(req[c].kind) /\ fingerprint' = req[c].archive
        /\ lifecycle \in {"ready", PendingState(req[c].kind)} \/ req[c].kind = "erasure"
        /\ (req[c].kind = "restore" /\ lifecycle = "restore_pending")
             => fingerprint = req[c].archive
    BY <1>8 DEF Begin, MayBegin, OperationAllowed
  <2>3. UNCHANGED <<rows, live, trash, foreign, journal, remnants, staged, failed,
                    inflight, faults>>
    BY <1>8 DEF Begin
  <2>4. RowsInv' /\ DeletionInv'
    BY <2>1, <2>2, <2>3
  <2>5. RestoreInv' /\ LeftoverInv' /\ UntouchedInv'
    BY <2>1, <2>2, <2>3
  <2>6. ReadyIsIntact' /\ NoBoundFileLost' /\ ForeignFilesKept' /\ JournalClaimsOrphans'
    BY <2>1, <2>2, <2>3
  <2> QED
    BY <2>4, <2>5, <2>6
<1>9. ASSUME NEW c \in Clients, RefuseBegin(c)
      PROVE  DiskInv'
  BY <1>9 DEF RefuseBegin
<1>10. CASE TakeWriterPermit
  BY <1>10 DEF TakeWriterPermit
<1>11. CASE LockTimeout
  BY <1>11 DEF LockTimeout
<1>12. ASSUME NEW f \in Files, StageFile(f)
      PROVE  DiskInv'
  BY <1>12 DEF StageFile
<1>13. CASE AllStaged
  BY <1>13 DEF AllStaged
<1>14. CASE DeletionCommits
  BY <1>14 DEF DeletionCommits
<1>15. CASE Sanitize
  BY <1>15 DEF Sanitize
<1>16. CASE PurgeTrash
  BY <1>16 DEF PurgeTrash
<1>17. CASE PurgeIncomplete
  BY <1>17 DEF PurgeIncomplete
<1>18. CASE ClearJournal
  BY <1>18 DEF ClearJournal
<1>19. CASE Finalize
  BY <1>19 DEF Finalize
<1>20. CASE FinalizeRefused
  BY <1>20 DEF FinalizeRefused
<1>21. CASE DeletionFails
  BY <1>21 DEF DeletionFails, RestoreFiles
<1>22. CASE DeletionUnverified
  BY <1>22 DEF DeletionUnverified
<1>23. CASE CleanupFails
  BY <1>23 DEF CleanupFails
<1>24. ASSUME NEW f \in Files, WriteFile(f)
      PROVE  DiskInv'
  BY <1>24 DEF WriteFile
<1>25. ASSUME NEW f \in Files, UnlinkRestored(f)
      PROVE  DiskInv'
  BY <1>25 DEF UnlinkRestored
<1>26. CASE RestoreRefused
  BY <1>26 DEF RestoreRefused, Acceptable
<1>27. CASE PrepareJournal
  BY <1>27 DEF PrepareJournal, Acceptable, JournalForeign
<1>28. CASE AllWritten
  BY <1>28 DEF AllWritten
<1>29. CASE RestoreCommits
  BY <1>29 DEF RestoreCommits
<1>30. CASE RestoreDone
  BY <1>30 DEF RestoreDone
<1>31. CASE RestoreFails
  BY <1>31 DEF RestoreFails, Acceptable
<1>32. CASE RolledBack
  BY <1>32 DEF RolledBack
<1>33. CASE RestoreUnverified
  BY <1>33 DEF RestoreUnverified
<1>34. CASE RollbackIncomplete
  BY <1>34 DEF RollbackIncomplete
<1>35. CASE Crash
  BY <1>35 DEF Crash
<1>36. CASE UNCHANGED vars
  BY <1>36 DEF vars
<1>. HIDE DEF DiskInv, RowsInv, DeletionInv, RestoreInv, LeftoverInv, UntouchedInv, ReadyIsIntact,
         NoBoundFileLost, ForeignFilesKept, JournalClaimsOrphans, TypeOK, ControlInv,
         Kinds, Lifecycles, NoJournal, Journals, FilesBound, OwnedPaths, RollbackPaths,
         ArchiveFiles, Requests, NoRequest, Request, At, Goto, NoFault, Finish, InWriter, disk, authority, local,
         ClearIfTransitioned, KeepOnly, PendingState, Publish
<1>. QED
  BY <1>1, <1>2, <1>3, <1>4, <1>5, <1>6, <1>7, <1>8, <1>9, <1>10, <1>11, <1>12, <1>13,
     <1>14, <1>15, <1>16, <1>17, <1>18, <1>19, <1>20, <1>21, <1>22, <1>23, <1>24, <1>25,
     <1>26, <1>27, <1>28, <1>29, <1>30, <1>31, <1>32, <1>33, <1>34, <1>35, <1>36
  DEF Next, SessionStep, ActivityStep, SubmitStep, RequestStep, DeletionStep, RestoreStep

-----------------------------------------------------------------------------
\* A vault at rest satisfies the invariant.
LEMMA InitEstablishes == Init => IInv
<1>. SUFFICES ASSUME Init PROVE IInv
  OBVIOUS
<1>. USE MaintenanceAssumption DEF Init, FilesBound
<1>0. MaxFaults \in 0..MaxFaults
  BY MaintenanceAssumption
<1>1. TypeOK
  BY <1>0 DEF TypeOK, Lifecycles, NoJournal, Journals, FamilyKinds, NoRequest, Steps
<1>2. ControlInv
  BY DEF ControlInv, InWriter
<1>3. DiskInv
  BY DEF DiskInv, RowsInv, DeletionInv, RestoreInv, LeftoverInv, UntouchedInv,
     ReadyIsIntact, NoBoundFileLost, ForeignFilesKept, JournalClaimsOrphans, NoJournal
<1>. QED
  BY <1>1, <1>2, <1>3 DEF IInv

\* Every step of Next, and every stutter, preserves the inductive invariant.
LEMMA StepPreserves == IInv /\ [Next]_vars => IInv'
BY TypeStep, DiskStep DEF IInv

\* The inductive invariant holds in every behaviour.
LEMMA InvariantHolds == Spec => []IInv
BY InitEstablishes, StepPreserves, PTL DEF Spec

-----------------------------------------------------------------------------
(* The theorems.                                                           *)

\* Every variable keeps its type, and an archive fingerprint exists exactly
\* while a restore is pending.
THEOREM MaintenanceTypeCorrect == Spec => []TypeOK
BY InvariantHolds, PTL DEF IInv

\* Whenever the account is "ready", rows, managed files and trash agree and an
\* empty vault has left nothing readable, whatever crashed or failed before.
THEOREM ReadyVaultIsIntact == Spec => []ReadyIsIntact
<1>1. IInv => ReadyIsIntact
  BY DEF IInv, DiskInv
<1>. QED  BY <1>1, InvariantHolds, PTL

\* A file that a row binds is at its path or in the trash.
THEOREM BoundFilesSurvive == Spec => []NoBoundFileLost
<1>1. IInv => NoBoundFileLost
  BY DEF IInv, DiskInv
<1>. QED  BY <1>1, InvariantHolds, PTL

\* A file that another account binds stays at its path.
THEOREM ForeignFilesSurvive == Spec => []ForeignFilesKept
<1>1. IInv => ForeignFilesKept
  BY DEF IInv, DiskInv
<1>. QED  BY <1>1, InvariantHolds, PTL

\* Every managed file has an owner: a row, another account or the journal.
THEOREM OrphansAreClaimed == Spec => []JournalClaimsOrphans
<1>1. IInv => JournalClaimsOrphans
  BY DEF IInv, DiskInv
<1>. QED  BY <1>1, InvariantHolds, PTL

\* A pending restore never meets the journal of another archive.
THEOREM JournalAlwaysMatches == Spec => []JournalMatchesRestore
<1>1. IInv => JournalMatchesRestore
  BY DEF IInv, DiskInv, LeftoverInv, ControlInv, JournalMatchesRestore, At,
     JournalForeign, ArchiveFiles, PendingState
<1>. QED  BY <1>1, InvariantHolds, PTL


\* Only a bearer of the right purpose moves the account out of "ready" or
\* continues what is pending.
LEMMA AuthorityStep ==
  ASSUME TypeOK, ControlInv, RecoveryNeverStartsFresh, [Next]_vars
  PROVE  RecoveryNeverStartsFresh'
<1>. USE MaintenanceAssumption DEF TypeOK, ControlInv, RecoveryNeverStartsFresh,
         Lifecycles, Requests, NoRequest, Request, At, Goto, NoFault, Finish, InWriter, disk, authority, local,
         ClearIfTransitioned, KeepOnly, PendingState, Publish
<1>1. ASSUME NEW s \in Sessions, LoginReady(s)
      PROVE  RecoveryNeverStartsFresh'
  BY <1>1 DEF LoginReady
<1>2. ASSUME NEW s \in Sessions, LoginPending(s)
      PROVE  RecoveryNeverStartsFresh'
  BY <1>2 DEF LoginPending
<1>3. ASSUME NEW s \in Sessions, Logout(s)
      PROVE  RecoveryNeverStartsFresh'
  BY <1>3 DEF Logout
<1>4. CASE AuthorizeActivity
  BY <1>4 DEF AuthorizeActivity
<1>5. CASE FinishActivity
  BY <1>5 DEF FinishActivity
<1>6. ASSUME NEW f \in Files, BindForeign(f)
      PROVE  RecoveryNeverStartsFresh'
  BY <1>6 DEF BindForeign
<1>7. ASSUME NEW c \in Clients, NEW kind \in Kinds, NEW s \in Sessions,
             NEW purpose \in {"session", "maintenance"}, NEW a \in Archives \cup {None},
             Submit(c, kind, s, purpose, a)
      PROVE  RecoveryNeverStartsFresh'
  <2>1. running # None => req[running] # NoRequest
    BY <1>7 DEF Submit
  <2>2. running # None => Request' = Request
    BY <1>7, <2>1 DEF Submit
  <2>3. RecoveryNeverStartsFresh'
    BY <1>7, <2>1, <2>2 DEF Submit
  <2>. QED  BY <2>1, <2>2, <2>3
<1>8. ASSUME NEW c \in Clients, Begin(c)
      PROVE  RecoveryNeverStartsFresh'
  BY <1>8 DEF Begin, MayBegin
<1>9. ASSUME NEW c \in Clients, RefuseBegin(c)
      PROVE  RecoveryNeverStartsFresh'
  BY <1>9 DEF RefuseBegin
<1>10. CASE TakeWriterPermit
  BY <1>10 DEF TakeWriterPermit
<1>11. CASE LockTimeout
  BY <1>11 DEF LockTimeout
<1>12. ASSUME NEW f \in Files, StageFile(f)
      PROVE  RecoveryNeverStartsFresh'
  BY <1>12 DEF StageFile
<1>13. CASE AllStaged
  BY <1>13 DEF AllStaged
<1>14. CASE DeletionCommits
  BY <1>14 DEF DeletionCommits
<1>15. CASE Sanitize
  BY <1>15 DEF Sanitize
<1>16. CASE PurgeTrash
  BY <1>16 DEF PurgeTrash
<1>17. CASE PurgeIncomplete
  BY <1>17 DEF PurgeIncomplete
<1>18. CASE ClearJournal
  BY <1>18 DEF ClearJournal
<1>19. CASE Finalize
  BY <1>19 DEF Finalize
<1>20. CASE FinalizeRefused
  BY <1>20 DEF FinalizeRefused
<1>21. CASE DeletionFails
  BY <1>21 DEF DeletionFails
<1>22. CASE DeletionUnverified
  BY <1>22 DEF DeletionUnverified
<1>23. CASE CleanupFails
  BY <1>23 DEF CleanupFails
<1>24. ASSUME NEW f \in Files, WriteFile(f)
      PROVE  RecoveryNeverStartsFresh'
  BY <1>24 DEF WriteFile
<1>25. ASSUME NEW f \in Files, UnlinkRestored(f)
      PROVE  RecoveryNeverStartsFresh'
  BY <1>25 DEF UnlinkRestored
<1>26. CASE RestoreRefused
  BY <1>26 DEF RestoreRefused, Acceptable
<1>27. CASE PrepareJournal
  BY <1>27 DEF PrepareJournal, Acceptable
<1>28. CASE AllWritten
  BY <1>28 DEF AllWritten
<1>29. CASE RestoreCommits
  BY <1>29 DEF RestoreCommits
<1>30. CASE RestoreDone
  BY <1>30 DEF RestoreDone
<1>31. CASE RestoreFails
  BY <1>31 DEF RestoreFails, Acceptable
<1>32. CASE RolledBack
  BY <1>32 DEF RolledBack
<1>33. CASE RestoreUnverified
  BY <1>33 DEF RestoreUnverified
<1>34. CASE RollbackIncomplete
  BY <1>34 DEF RollbackIncomplete
<1>35. CASE Crash
  BY <1>35 DEF Crash
<1>36. CASE UNCHANGED vars
  BY <1>36 DEF vars
<1>. HIDE DEF TypeOK, ControlInv, RecoveryNeverStartsFresh,
         Lifecycles, Requests, NoRequest, Request, At, Goto, NoFault, Finish, InWriter, disk, authority, local,
         ClearIfTransitioned, KeepOnly, PendingState, Publish
<1>. QED
  BY <1>1, <1>2, <1>3, <1>4, <1>5, <1>6, <1>7, <1>8, <1>9, <1>10, <1>11, <1>12, <1>13,
     <1>14, <1>15, <1>16, <1>17, <1>18, <1>19, <1>20, <1>21, <1>22, <1>23, <1>24, <1>25,
     <1>26, <1>27, <1>28, <1>29, <1>30, <1>31, <1>32, <1>33, <1>34, <1>35, <1>36
  DEF Next, SessionStep, ActivityStep, SubmitStep, RequestStep, DeletionStep, RestoreStep

\* Whatever crashes or fails, no file of a live row and none of another account is
\* lost (_stage_files, _restore_files, _exclusive_storage_paths).
THEOREM ManagedFilesAreKept == Spec => []ManagedFilesKept
BY BoundFilesSurvive, ForeignFilesSurvive, PTL DEF ManagedFilesKept

\* The journal claims every orphan and is of the archive being restored
\* (portability/journal.py, _restore_transaction).
THEOREM JournalIsSound == Spec => []JournalSound
BY OrphansAreClaimed, JournalAlwaysMatches, PTL DEF JournalSound

\* A recovery bearer only ever continues, a session bearer only ever starts.
THEOREM RecoveryOnlyContinues == Spec => []RecoveryNeverStartsFresh
<1>1. Init => RecoveryNeverStartsFresh
  BY DEF Init, RecoveryNeverStartsFresh
<1>2. IInv /\ RecoveryNeverStartsFresh /\ [Next]_vars => RecoveryNeverStartsFresh'
  BY AuthorityStep DEF IInv
<1>. QED  BY <1>1, <1>2, InvariantHolds, PTL DEF Spec

\* Every step is a step of the promise or changes nothing the owner can see.
LEMMA PromiseStep ==
  ASSUME TypeOK, ControlInv, RowsInv, [Next]_vars
  PROVE  [Promise!Next]_(Promise!vars)
<1>. USE MaintenanceAssumption DEF TypeOK, ControlInv, RowsInv, Kinds,
         Lifecycles, Requests, Promise!Next, Promise!vars, Promise!Work, Promise!Announce,
         Promise!AnnounceReset, Promise!AnnounceRestore, Promise!AnnounceErasure,
         Promise!Withdraw, Promise!Delete, Promise!Complete, Promise!Restore,
         Request, At, Goto, NoFault, Finish, InWriter, disk, authority, local,
         ClearIfTransitioned, KeepOnly, PendingState, Publish
<1>1. ASSUME NEW s \in Sessions, LoginReady(s)
      PROVE  [Promise!Next]_(Promise!vars)
  BY <1>1 DEF LoginReady
<1>2. ASSUME NEW s \in Sessions, LoginPending(s)
      PROVE  [Promise!Next]_(Promise!vars)
  BY <1>2 DEF LoginPending
<1>3. ASSUME NEW s \in Sessions, Logout(s)
      PROVE  [Promise!Next]_(Promise!vars)
  BY <1>3 DEF Logout
<1>4. CASE AuthorizeActivity
  BY <1>4 DEF AuthorizeActivity
<1>5. CASE FinishActivity
  BY <1>5 DEF FinishActivity
<1>6. ASSUME NEW f \in Files, BindForeign(f)
      PROVE  [Promise!Next]_(Promise!vars)
  BY <1>6 DEF BindForeign
<1>7. ASSUME NEW c \in Clients, NEW kind \in Kinds, NEW s \in Sessions,
             NEW purpose \in {"session", "maintenance"}, NEW a \in Archives \cup {None},
             Submit(c, kind, s, purpose, a)
      PROVE  [Promise!Next]_(Promise!vars)
  BY <1>7 DEF Submit
<1>8. ASSUME NEW c \in Clients, Begin(c)
      PROVE  [Promise!Next]_(Promise!vars)
  BY <1>8 DEF Begin, MayBegin, OperationAllowed
<1>9. ASSUME NEW c \in Clients, RefuseBegin(c)
      PROVE  [Promise!Next]_(Promise!vars)
  BY <1>9 DEF RefuseBegin
<1>10. CASE TakeWriterPermit
  BY <1>10 DEF TakeWriterPermit
<1>11. CASE LockTimeout
  BY <1>11 DEF LockTimeout
<1>12. ASSUME NEW f \in Files, StageFile(f)
      PROVE  [Promise!Next]_(Promise!vars)
  BY <1>12 DEF StageFile
<1>13. CASE AllStaged
  BY <1>13 DEF AllStaged
<1>14. CASE DeletionCommits
  BY <1>14 DEF DeletionCommits
<1>15. CASE Sanitize
  BY <1>15 DEF Sanitize
<1>16. CASE PurgeTrash
  BY <1>16 DEF PurgeTrash
<1>17. CASE PurgeIncomplete
  BY <1>17 DEF PurgeIncomplete
<1>18. CASE ClearJournal
  BY <1>18 DEF ClearJournal
<1>19. CASE Finalize
  BY <1>19 DEF Finalize
<1>20. CASE FinalizeRefused
  BY <1>20 DEF FinalizeRefused
<1>21. CASE DeletionFails
  BY <1>21 DEF DeletionFails
<1>22. CASE DeletionUnverified
  BY <1>22 DEF DeletionUnverified
<1>23. CASE CleanupFails
  BY <1>23 DEF CleanupFails
<1>24. ASSUME NEW f \in Files, WriteFile(f)
      PROVE  [Promise!Next]_(Promise!vars)
  BY <1>24 DEF WriteFile
<1>25. ASSUME NEW f \in Files, UnlinkRestored(f)
      PROVE  [Promise!Next]_(Promise!vars)
  BY <1>25 DEF UnlinkRestored
<1>26. CASE RestoreRefused
  BY <1>26 DEF RestoreRefused, Acceptable
<1>27. CASE PrepareJournal
  BY <1>27 DEF PrepareJournal, Acceptable
<1>28. CASE AllWritten
  BY <1>28 DEF AllWritten
<1>29. CASE RestoreCommits
  BY <1>29 DEF RestoreCommits
<1>30. CASE RestoreDone
  BY <1>30 DEF RestoreDone
<1>31. CASE RestoreFails
  BY <1>31 DEF RestoreFails, Acceptable
<1>32. CASE RolledBack
  BY <1>32 DEF RolledBack
<1>33. CASE RestoreUnverified
  BY <1>33 DEF RestoreUnverified
<1>34. CASE RollbackIncomplete
  BY <1>34 DEF RollbackIncomplete
<1>35. CASE Crash
  BY <1>35 DEF Crash
<1>36. CASE UNCHANGED vars
  BY <1>36 DEF vars
<1>. HIDE DEF TypeOK, ControlInv, RowsInv, Kinds,
         Lifecycles, Requests, Promise!Next, Promise!vars, Promise!Work, Promise!Announce,
         Promise!AnnounceReset, Promise!AnnounceRestore, Promise!AnnounceErasure,
         Promise!Withdraw, Promise!Delete, Promise!Complete, Promise!Restore,
         Request, At, Goto, NoFault, Finish, InWriter, disk, authority, local,
         ClearIfTransitioned, KeepOnly, PendingState, Publish
<1>. QED
  BY <1>1, <1>2, <1>3, <1>4, <1>5, <1>6, <1>7, <1>8, <1>9, <1>10, <1>11, <1>12, <1>13,
     <1>14, <1>15, <1>16, <1>17, <1>18, <1>19, <1>20, <1>21, <1>22, <1>23, <1>24, <1>25,
     <1>26, <1>27, <1>28, <1>29, <1>30, <1>31, <1>32, <1>33, <1>34, <1>35, <1>36
  DEF Next, SessionStep, ActivityStep, SubmitStep, RequestStep, DeletionStep, RestoreStep

\* The detailed system implements VaultPromise.
THEOREM ImplementsPromise == Spec => KeepsPromise
<1>1. Init => Promise!Init
  BY DEF Init, Promise!Init
<1>2. IInv /\ [Next]_vars => [Promise!Next]_(Promise!vars)
  BY PromiseStep DEF IInv, DiskInv
<1>. QED  BY <1>1, <1>2, InvariantHolds, PTL DEF Spec, KeepsPromise, Promise!Spec
=============================================================================
