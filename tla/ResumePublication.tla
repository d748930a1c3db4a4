------------------------- MODULE ResumePublication -------------------------
(***************************************************************************)
(* One resume draft: edits, synchronisation with the career profile, the   *)
(* publication of versions whose files are claimed by a journal before     *)
(* they are written, and the deletion of the draft in two transactions     *)
(* (backend/resumes/publishing.py, storage.py, draft_service.py,           *)
(* sync_service.py, claim_service.py).  BEGIN IMMEDIATE reserves SQLite's  *)
(* writer; what runs without it may run between any two steps of another   *)
(* request.  A step may fail, an acknowledgement may be lost, the process  *)
(* may die: rows, files and journals are all that is left then.            *)
(***************************************************************************)
EXTENDS Naturals

CONSTANTS Requests,     \* requests in progress at a time
          MaxVersions,  \* version identifiers drawn
          MaxEdits,     \* changes of the draft or of the profile
          MaxFaults,    \* failed steps, lost acknowledgements, crashes
          None

ASSUME ResumeAssumption ==
  /\ None \notin Requests /\ None \notin Nat
  /\ MaxVersions \in Nat /\ MaxEdits \in Nat /\ MaxFaults \in Nat

VARIABLES
  draft,      \* the ResumeDraft row, and whether an edit of it was ever overwritten
  profileRev, \* CandidateProfile.revision
  versions,   \* the committed ResumeVersion rows, with their ResumeArtifact rows
  files,      \* artifacts under the data directory: <<version, format>>
  journals,   \* versions with a publication journal
  writer,     \* the request that holds SQLite's writer
  op,         \* what each request is doing
  edits, drawn, faults

vars == <<draft, profileRev, versions, files, journals, writer, op, edits, drawn, faults>>

Formats == {"pdf", "docx"}
Versions == 1..MaxVersions
Contents == 0..MaxEdits

FilesOf(v) == {v} \X Formats
Mine(v) == files \cap FilesOf(v)

Idle == [at |-> "idle", rev |-> 1, content |-> 0, profile |-> 1, version |-> None,
         claimed |-> FALSE, todo |-> {}, dirty |-> FALSE]

TypeOK ==
  /\ draft \in [exists : BOOLEAN, rev : Nat, content : Contents, marked : BOOLEAN,
                overwritten : BOOLEAN]
  /\ profileRev \in 1..(MaxEdits + 1)
  /\ versions \in SUBSET [id : Versions, rev : Nat, content : Contents, profile : Nat]
  /\ \A x, y \in versions : x.id = y.id => x = y
  /\ files \subseteq Versions \X Formats /\ journals \subseteq Versions
  /\ writer \in Requests \cup {None} /\ drawn \in 0..MaxVersions
  /\ op \in [Requests -> [at : {"idle", "rendered", "recover", "storing", "failed", "clean",
       "committed", "deleting", "marked", "unlinking", "sync", "profile"},
       rev : Nat, content : Contents, profile : Nat, version : Versions \cup {None},
       claimed : BOOLEAN, todo : SUBSET Formats, dirty : BOOLEAN]]
  /\ \A r \in Requests :
       writer = r <=> op[r].at \in {"recover", "storing", "deleting", "unlinking"}
  /\ edits \in 0..MaxEdits /\ faults \in 0..MaxFaults

Init ==
  /\ draft = [exists |-> TRUE, rev |-> 1, content |-> 0, marked |-> FALSE, overwritten |-> FALSE]
  /\ profileRev = 1 /\ versions = {} /\ files = {} /\ journals = {}
  /\ writer = None /\ op = [r \in Requests |-> Idle]
  /\ edits = 0 /\ drawn = 0 /\ faults = 0

-----------------------------------------------------------------------------
(* Requests, the writer, and what may go wrong                             *)

At(r, place) == op[r].at = place
Go(r, place) == op' = [op EXCEPT ![r].at = place]
End(r) == op' = [op EXCEPT ![r] = Idle]
\* A request begins with what it read.
Start(r, place, rev, content, profile) ==
  /\ At(r, "idle")
  /\ op' = [op EXCEPT ![r] = [at |-> place, rev |-> rev, content |-> content,
                             profile |-> profile, version |-> None, claimed |-> FALSE,
                             todo |-> {}, dirty |-> FALSE]]
Reserve(r) == writer = None /\ writer' = r
Release(r) == writer = r /\ writer' = None
Fault == faults < MaxFaults /\ faults' = faults + 1

Committed == {x.id : x \in versions}
Edit == edits < MaxEdits /\ edits' = edits + 1
Visible == draft.exists /\ ~draft.marked

\* The process dies: the transaction of the writer is rolled back.
Crash ==
  /\ Fault /\ op # [r \in Requests |-> Idle]
  /\ op' = [r \in Requests |-> Idle] /\ writer' = None
  /\ UNCHANGED <<draft, profileRev, versions, files, journals, edits, drawn>>

\* The writer did not become free within the busy timeout: the request is refused.
Busy(r) ==
  /\ writer # None /\ op[r].at \in {"rendered", "marked", "sync", "profile"} /\ End(r)
  /\ UNCHANGED <<draft, profileRev, versions, files, journals, writer, edits, drawn, faults>>

-----------------------------------------------------------------------------
(* Edits                                                                   *)

\* An update is one transaction that compares the revision the editor was shown
\* with the stored one and does nothing when they differ; restoring a version is
\* an update with the content of that version.
Update ==
  /\ writer = None /\ Visible /\ Edit
  /\ \E content \in {edits'} \cup {x.content : x \in versions} :
       draft' = [draft EXCEPT !.rev = @ + 1, !.content = content]
  /\ UNCHANGED <<profileRev, versions, files, journals, writer, op, drawn, faults>>

\* A manual claim becomes a career fact: draft and profile move on together.
Promote ==
  /\ writer = None /\ Visible /\ Edit
  /\ draft' = [draft EXCEPT !.rev = @ + 1, !.content = edits']
  /\ profileRev' = profileRev + 1
  /\ UNCHANGED <<versions, files, journals, writer, op, drawn, faults>>

\* Synchronisation reads the draft, merges the profile into what it read, and
\* writes the row back with the revision after the one it read.  It reserves no
\* writer and its UPDATE names the row only.
ReadForSync(r) ==
  /\ Visible /\ edits < MaxEdits /\ Start(r, "sync", draft.rev, 0, 1)
  /\ UNCHANGED <<draft, profileRev, versions, files, journals, writer, edits, drawn, faults>>

\* generation_context is replaced, the deletion's marker with it, unless the new
\* context equals the one that was read: the column is then left out of the UPDATE.
\* A draft that moved on since it was read loses that, revision included.
WriteSync(r) ==
  /\ At(r, "sync") /\ writer = None /\ End(r)
  /\ IF draft.exists /\ edits < MaxEdits
     THEN /\ Edit
          /\ \E context \in {draft.marked, FALSE} :
               draft' = [draft EXCEPT !.rev = op[r].rev + 1, !.content = edits',
                                      !.marked = context,
                                      !.overwritten = @ \/ draft.rev # op[r].rev]
     ELSE UNCHANGED <<draft, edits>>
  /\ UNCHANGED <<profileRev, versions, files, journals, writer, drawn, faults>>

\* The career profile is saved in the same way (CareerProfileRepository.save).
ReadProfile(r) ==
  /\ edits < MaxEdits /\ Start(r, "profile", 1, 0, profileRev)
  /\ UNCHANGED <<draft, profileRev, versions, files, journals, writer, edits, drawn, faults>>

SaveProfile(r) ==
  /\ At(r, "profile") /\ writer = None /\ End(r)
  /\ IF edits < MaxEdits THEN Edit /\ profileRev' = op[r].profile + 1
                         ELSE UNCHANGED <<edits, profileRev>>
  /\ UNCHANGED <<draft, versions, files, journals, writer, drawn, faults>>

-----------------------------------------------------------------------------
(* Reconciliation of the journals of the draft, by a request that holds    *)
(* the writer                                                              *)

Recovering(r) == writer = r /\ (At(r, "recover") \/ At(r, "deleting"))
Claimed(v) == v \in journals /\ v \notin Committed

Recover(r) ==
  /\ Recovering(r)
  /\ \E v \in journals :
       \/ Claimed(v) /\ \E file \in Mine(v) : files' = files \ {file} /\ UNCHANGED journals
       \/ (Claimed(v) => Mine(v) = {}) /\ journals' = journals \ {v} /\ UNCHANGED files
  /\ UNCHANGED <<draft, profileRev, versions, writer, op, edits, drawn, faults>>

\* A journal that cannot be read or a file that cannot be removed ends the request.
RecoverFails(r) ==
  /\ Recovering(r) /\ journals # {} /\ Fault /\ Release(r) /\ End(r)
  /\ UNCHANGED <<draft, profileRev, versions, files, journals, edits, drawn>>

-----------------------------------------------------------------------------
(* publish                                                                 *)

\* Everything is read and rendered before the writer is reserved.
Render(r) ==
  /\ Visible /\ drawn < MaxVersions
  /\ Start(r, "rendered", draft.rev, draft.content, profileRev)
  /\ UNCHANGED <<draft, profileRev, versions, files, journals, writer, edits, drawn, faults>>

SnapshotCurrent(r) ==
  Visible /\ draft.rev = op[r].rev /\ profileRev = op[r].profile

\* Fault: the snapshot is not compared again.
LockPublishState_Unchecked(r) ==
  /\ At(r, "rendered") /\ draft.exists /\ Reserve(r) /\ Go(r, "recover")
  /\ UNCHANGED <<draft, profileRev, versions, files, journals, edits, drawn, faults>>

LockPublishState(r) ==
  /\ At(r, "rendered")
  /\ IF SnapshotCurrent(r) /\ drawn < MaxVersions
     THEN Reserve(r) /\ Go(r, "recover")
     ELSE writer = None /\ UNCHANGED writer /\ End(r)
  /\ UNCHANGED <<draft, profileRev, versions, files, journals, edits, drawn, faults>>

\* The row is flushed and both paths claimed before either file is written; the
\* write of the journal may fail, after it was published even.
WriteJournal(r) ==
  /\ At(r, "recover") /\ journals = {}
  /\ drawn' = drawn + 1
  /\ \/ /\ journals' = journals \cup {drawn'} /\ UNCHANGED <<writer, faults>>
        /\ op' = [op EXCEPT ![r].at = "storing", ![r].version = drawn',
                            ![r].claimed = TRUE, ![r].todo = Formats]
     \/ /\ Fault /\ Release(r) /\ journals' \in {journals, journals \cup {drawn'}}
        /\ op' = [op EXCEPT ![r].at = "failed", ![r].version = drawn']
  /\ UNCHANGED <<draft, profileRev, versions, files, edits>>

Store(r) ==
  /\ At(r, "storing")
  /\ \E f \in op[r].todo : /\ f = "pdf" \/ "pdf" \notin op[r].todo
                           /\ files' = files \cup {<<op[r].version, f>>}
                           /\ op' = [op EXCEPT ![r].todo = @ \ {f}]
  /\ UNCHANGED <<draft, profileRev, versions, journals, writer, edits, drawn, faults>>

StoreFails(r) ==
  /\ At(r, "storing") /\ op[r].todo # {} /\ Fault /\ Release(r) /\ Go(r, "failed")
  /\ UNCHANGED <<draft, profileRev, versions, files, journals, edits, drawn>>

NewRow(r) == [id |-> op[r].version, rev |-> op[r].rev, content |-> op[r].content,
              profile |-> op[r].profile]

\* The normalised canvas that was rendered is written to the draft as well.  The
\* commit succeeds, fails, or succeeds and reports a failure.
Commit(r) ==
  /\ At(r, "storing") /\ op[r].todo = {} /\ Release(r)
  /\ \/ UNCHANGED faults /\ Go(r, "committed")
     \/ Fault /\ Go(r, "failed")
  /\ \/ /\ versions' = versions \cup {NewRow(r)}
        /\ draft' = [draft EXCEPT !.content = op[r].content]
     \/ /\ op'[r].at = "failed" /\ UNCHANGED <<versions, draft>>
  /\ UNCHANGED <<profileRev, files, journals, edits, drawn>>

\* Fault: an error at the commit is taken for a rollback.
Examine_Trusting(r) ==
  /\ At(r, "failed") /\ op' = [op EXCEPT ![r].at = "clean", ![r].todo = Formats]
  /\ UNCHANGED <<draft, profileRev, versions, files, journals, writer, edits, drawn, faults>>

\* A new transaction tells whether the row is there; if it cannot, everything stays.
Examine(r) ==
  /\ At(r, "failed")
  /\ \/ /\ UNCHANGED faults
        /\ IF op[r].version \in Committed
           THEN Go(r, "committed")
           ELSE op' = [op EXCEPT ![r].at = "clean", ![r].todo = Formats]
     \/ Fault /\ End(r)
  /\ UNCHANGED <<draft, profileRev, versions, files, journals, writer, edits, drawn>>

\* Cleanup holds no writer; one file that stays does not keep the other.
CleanFile(r) ==
  /\ At(r, "clean")
  /\ \E f \in op[r].todo :
       \/ /\ files' = files \ {<<op[r].version, f>>} /\ UNCHANGED faults
          /\ op' = [op EXCEPT ![r].todo = @ \ {f}]
       \/ /\ Fault /\ UNCHANGED files
          /\ op' = [op EXCEPT ![r].todo = @ \ {f}, ![r].dirty = TRUE]
  /\ UNCHANGED <<draft, profileRev, versions, journals, writer, edits, drawn>>

\* Fault: the claim is dropped though a file could not be removed.
DropJournal_Always(r) ==
  /\ At(r, "committed") \/ (At(r, "clean") /\ op[r].todo = {})
  /\ End(r) /\ UNCHANGED faults /\ journals' = journals \ {op[r].version}
  /\ UNCHANGED <<draft, profileRev, versions, files, writer, edits, drawn>>

\* The claim goes last; a failure to remove it is left to the next reconciliation.
DropJournal(r) ==
  /\ At(r, "committed") \/ (At(r, "clean") /\ op[r].todo = {})
  /\ End(r)
  /\ IF op[r].claimed /\ ~op[r].dirty
     THEN \/ UNCHANGED faults /\ journals' = journals \ {op[r].version}
          \/ Fault /\ UNCHANGED journals
     ELSE UNCHANGED <<faults, journals>>
  /\ UNCHANGED <<draft, profileRev, versions, files, writer, edits, drawn>>

-----------------------------------------------------------------------------
(* delete                                                                  *)

BeginDelete(r) ==
  /\ draft.exists /\ Reserve(r) /\ Start(r, "deleting", 1, 0, 1)
  /\ UNCHANGED <<draft, profileRev, versions, files, journals, edits, drawn, faults>>

\* The marker is committed before any file goes.
Mark(r) ==
  /\ At(r, "deleting") /\ journals = {} /\ Release(r)
  /\ \/ UNCHANGED faults /\ Go(r, "marked")
     \/ Fault /\ End(r)
  /\ \/ draft' = IF draft.marked THEN draft ELSE [draft EXCEPT !.marked = TRUE, !.rev = @ + 1]
     \/ op'[r].at = "idle" /\ UNCHANGED draft
  /\ UNCHANGED <<profileRev, versions, files, journals, edits, drawn>>

Reopen(r) ==
  /\ At(r, "marked")
  /\ IF draft.exists THEN Reserve(r) /\ Go(r, "unlinking")
                     ELSE writer = None /\ UNCHANGED writer /\ End(r)
  /\ UNCHANGED <<draft, profileRev, versions, files, journals, edits, drawn, faults>>

Unlink(r) ==
  /\ At(r, "unlinking")
  /\ \/ /\ \E v \in Committed : \E file \in Mine(v) : files' = files \ {file}
        /\ UNCHANGED <<writer, op, faults>>
     \/ Fault /\ Release(r) /\ End(r) /\ UNCHANGED files
  /\ UNCHANGED <<draft, profileRev, versions, journals, edits, drawn>>

\* The row goes, and the rows of its versions with it; an error whose commit took
\* place after all is no error.
DeleteRow(r) ==
  /\ At(r, "unlinking") /\ \A v \in Committed : Mine(v) = {}
  /\ Release(r) /\ End(r)
  /\ \/ UNCHANGED faults /\ draft' = [draft EXCEPT !.exists = FALSE] /\ versions' = {}
     \/ Fault /\ UNCHANGED <<draft, versions>>
  /\ UNCHANGED <<profileRev, files, journals, edits, drawn>>

-----------------------------------------------------------------------------
Publish(r) ==
  \/ Render(r) \/ LockPublishState(r) \/ WriteJournal(r) \/ Store(r) \/ StoreFails(r)
  \/ Commit(r) \/ Examine(r) \/ CleanFile(r) \/ DropJournal(r)
Delete(r) == BeginDelete(r) \/ Mark(r) \/ Reopen(r) \/ Unlink(r) \/ DeleteRow(r)
Synchronize(r) == ReadForSync(r) \/ WriteSync(r)
Profile(r) == ReadProfile(r) \/ SaveProfile(r)

Next ==
  \/ Update \/ Promote \/ Crash
  \/ \E r \in Requests : \/ Publish(r) \/ Delete(r) \/ Synchronize(r) \/ Profile(r)
                         \/ Recover(r) \/ RecoverFails(r) \/ Busy(r)

Spec == Init /\ [][Next]_vars

-----------------------------------------------------------------------------
(* Properties                                                              *)

\* Every artifact on disk belongs to a committed version or is claimed by a journal,
\* at any point of any publication, cleanup, deletion or crash: whoever next holds
\* the writer for this draft can tell whose it is.
NoStrayArtifact == \A file \in files : file[1] \in Committed \cup journals

\* The files of a committed version are removed by a deletion that marked the draft
\* and by nothing else: no reconciliation, no cleanup after an ambiguous commit and
\* no other publication takes them, and a version's row goes with the draft only.
VersionFilesKept ==
  [][ \A x \in versions :
        /\ FilesOf(x.id) \cap files \subseteq files' \/ \E r \in Requests : At(r, "unlinking")
        /\ x \in versions' \/ ~draft'.exists ]_vars

\* A version becomes visible with both its files, and its snapshot carries the
\* revisions that draft and profile have at that moment, however long it rendered.  It
\* also shows what the draft says then, unless a synchronisation has overwritten an edit
\* before (sync_service.py): a revision is then given twice and tells contents apart no
\* more.  What the profile says at its revision is not modelled.
PublishedCurrentAndWhole ==
  [][ \A x \in versions' \ versions :
        /\ FilesOf(x.id) \subseteq files'
        /\ Visible /\ x.rev = draft.rev /\ x.profile = profileRev
        /\ draft.overwritten \/ x.content = draft.content ]_vars
============================================================================
