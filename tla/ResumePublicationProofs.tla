---------------------- MODULE ResumePublicationProofs ----------------------
(***************************************************************************)
(* For any number of requests, versions, edits and faults: no artifact is  *)
(* without an owner, a version is published whole, with the revisions of   *)
(* that moment and what the draft says then, and only a deletion takes its *)
(* files.                                                                  *)
(***************************************************************************)
EXTENDS ResumePublication, TLAPS

(* The inductive invariant, one part per concern.                          *)

Places ==
  {"idle", "rendered", "recover", "storing", "failed", "clean", "committed", "deleting",
   "marked", "unlinking", "sync", "profile"}
Row == [id : Versions, rev : Nat, content : Contents, profile : Nat]
Request ==
  [at : Places, rev : Nat, content : Contents, profile : Nat,
   version : Versions \cup {None}, claimed : BOOLEAN, todo : SUBSET Formats, dirty : BOOLEAN]

\* The parts of TypeOK, which different steps disturb.
DraftTyped ==
  /\ draft \in [exists : BOOLEAN, rev : Nat, content : Contents, marked : BOOLEAN,
                overwritten : BOOLEAN]
  /\ profileRev \in 1..(MaxEdits + 1)
  /\ edits \in 0..MaxEdits /\ faults \in 0..MaxFaults /\ drawn \in 0..MaxVersions
RowsTyped == versions \subseteq Row /\ \A x, y \in versions : x.id = y.id => x = y
DiskTyped == files \subseteq Versions \X Formats /\ journals \subseteq Versions
RequestsTyped == op \in [Requests -> Request]
WriterInv ==
  /\ writer \in Requests \cup {None}
  /\ \A r \in Requests :
       writer = r <=> op[r].at \in {"recover", "storing", "deleting", "unlinking"}

\* Nobody has read a profile revision that the edits do not account for.
RevInv ==
  /\ profileRev <= edits + 1
  /\ \A r \in Requests : op[r].profile <= edits + 1

\* Version identifiers are drawn once, so that no two requests work on one version.
DrawnInv ==
  /\ Committed \cup journals \subseteq 1..drawn
  /\ \A file \in files : file[1] \in 1..drawn
  /\ \A r \in Requests :
       /\ op[r].version # None => op[r].version \in 1..drawn
       /\ op[r].at \in {"storing", "failed", "clean", "committed"} => op[r].version # None
       /\ op[r].at = "recover" => drawn < MaxVersions
  /\ \A q, r \in Requests :
       q # r /\ op[q].version # None => op[q].version # op[r].version

\* From the reservation to the commit the snapshot stays what the draft says.
SnapshotInv ==
  \A r \in Requests : op[r].at \in {"recover", "storing"} => SnapshotCurrent(r)

\* What is stored is claimed and not committed; what is no longer to do is on disk.
StoreInv ==
  \A r \in Requests : op[r].at = "storing" =>
    /\ op[r].version \in journals /\ op[r].version \notin Committed
    /\ \A f \in Formats \ op[r].todo : <<op[r].version, f>> \in files

\* Only the files of a version that was not committed are cleaned.
CleanInv ==
  \A r \in Requests : op[r].at = "clean" =>
    /\ op[r].version \notin Committed
    /\ ~op[r].dirty => \A f \in Formats \ op[r].todo : <<op[r].version, f>> \notin files

\* A committed version stays committed until the draft goes with all its files.
CommitInv ==
  \A r \in Requests : op[r].at = "committed" =>
    op[r].version \in Committed \/ Mine(op[r].version) = {}

IInv ==
  /\ DraftTyped /\ RowsTyped /\ DiskTyped /\ RequestsTyped /\ WriterInv
  /\ RevInv /\ DrawnInv /\ SnapshotInv /\ StoreInv /\ CleanInv /\ CommitInv
  /\ NoStrayArtifact

-----------------------------------------------------------------------------
(* What a request is doing                                                 *)

LEMMA TypeParts == TypeOK <=> DraftTyped /\ RowsTyped /\ DiskTyped /\ RequestsTyped /\ WriterInv
BY DEF TypeOK, DraftTyped, RowsTyped, DiskTyped, RequestsTyped, WriterInv, Row, Request,
   Places

LEMMA IdleTyped == Idle \in Request /\ Idle.at = "idle" /\ Idle.version = None
BY ResumeAssumption DEF Idle, Request, Places, Contents

LEMMA GoTyped ==
  ASSUME RequestsTyped, NEW r \in Requests, NEW place \in Places, Go(r, place)
  PROVE  RequestsTyped'
BY DEF RequestsTyped, Request, Go

LEMMA EndTyped ==
  ASSUME RequestsTyped, NEW r \in Requests, End(r)
  PROVE  RequestsTyped'
BY IdleTyped DEF RequestsTyped, End

LEMMA StartTyped ==
  ASSUME RequestsTyped, NEW r \in Requests, NEW place \in Places, NEW rev \in Nat,
         NEW content \in Contents, NEW profile \in Nat,
         Start(r, place, rev, content, profile)
  PROVE  RequestsTyped'
BY DEF RequestsTyped, Request, Start

\* Steps of requests that work on no version, and the end of any request.
Resting == {"idle", "rendered", "deleting", "marked", "unlinking", "sync", "profile"}

LEMMA RestStep ==
  ASSUME IInv, UNCHANGED <<versions, files, journals, drawn>>,
         \A q \in Requests : op'[q] = op[q]
           \/ (op'[q].at \in Resting /\ op'[q].version \in {None, op[q].version})
  PROVE  /\ RowsTyped' /\ DiskTyped'
         /\ DrawnInv' /\ StoreInv' /\ CleanInv' /\ CommitInv' /\ NoStrayArtifact'
<1>1. RowsTyped' /\ DiskTyped'
  BY DEF IInv, RowsTyped, DiskTyped
<1>2. DrawnInv'
  BY DEF IInv, DrawnInv, Committed, Resting
<1>3. StoreInv' /\ CleanInv' /\ CommitInv'
  BY DEF IInv, StoreInv, CleanInv, CommitInv, Committed, Mine, FilesOf, Resting
<1>4. NoStrayArtifact'
  BY DEF IInv, NoStrayArtifact, Committed
<1>. QED BY <1>1, <1>2, <1>3, <1>4

\* Without a writer there is no snapshot to keep.
LEMMA SnapshotStep ==
  ASSUME IInv, UNCHANGED <<draft, profileRev>> \/ writer = None,
         \A q \in Requests : op'[q] = op[q] \/ op'[q].at \notin {"recover", "storing"}
  PROVE  SnapshotInv'
BY ResumeAssumption DEF IInv, SnapshotInv, SnapshotCurrent, Visible, WriterInv

-----------------------------------------------------------------------------
(* Edits and deletion                                                      *)

LEMMA CrashStep ==
  ASSUME IInv, Crash
  PROVE  IInv'
<1>1. UNCHANGED <<versions, files, journals, drawn>>
  BY DEF Crash
<1>2. RequestsTyped'
  BY IdleTyped DEF Crash, RequestsTyped
<1>3. \A q \in Requests : op'[q] = op[q]
          \/ (op'[q].at \in Resting /\ op'[q].version \in {None, op[q].version})
  BY IdleTyped DEF Crash, At, IInv, RequestsTyped, Request, Resting
<1>4. DraftTyped'
  BY ResumeAssumption DEF Crash, Fault, IInv, DraftTyped, RevInv, RowsTyped, Row,
     RequestsTyped, Request, Contents
<1>5. WriterInv'
  BY ResumeAssumption, IdleTyped DEF Crash, Fault, At, IInv, WriterInv, RequestsTyped,
     Request
<1>6. RevInv'
  BY ResumeAssumption DEF Crash, Fault, Idle, IInv, RevInv, DraftTyped, RequestsTyped,
     Request, Contents
<1>7. SnapshotInv'
  BY <1>3, SnapshotStep DEF Crash, Fault, Resting
<1>. QED BY <1>1, <1>2, <1>3, <1>4, <1>5, <1>6, <1>7, RestStep DEF IInv

LEMMA BusyStep ==
  ASSUME IInv, NEW r \in Requests, Busy(r)
  PROVE  IInv'
<1>1. UNCHANGED <<versions, files, journals, drawn>>
  BY DEF Busy
<1>2. RequestsTyped'
  BY EndTyped DEF Busy, IInv
<1>3. \A q \in Requests : op'[q] = op[q]
          \/ (op'[q].at \in Resting /\ op'[q].version \in {None, op[q].version})
  BY IdleTyped DEF Busy, End, At, IInv, RequestsTyped, Request, Resting
<1>4. DraftTyped'
  BY ResumeAssumption DEF Busy, IInv, DraftTyped, RevInv, RowsTyped, Row, RequestsTyped,
     Request, Contents
<1>5. WriterInv'
  BY ResumeAssumption, IdleTyped DEF Busy, End, At, IInv, WriterInv, RequestsTyped, Request
<1>6. RevInv'
  BY ResumeAssumption DEF Busy, End, Idle, IInv, RevInv, DraftTyped, RequestsTyped,
     Request, Contents
<1>7. SnapshotInv'
  BY <1>3, SnapshotStep DEF Busy, Resting
<1>. QED BY <1>1, <1>2, <1>3, <1>4, <1>5, <1>6, <1>7, RestStep DEF IInv

LEMMA UpdateStep ==
  ASSUME IInv, Update
  PROVE  IInv'
<1>1. UNCHANGED <<versions, files, journals, drawn>>
  BY DEF Update
<1>2. RequestsTyped'
  BY DEF Update, IInv, RequestsTyped
<1>3. \A q \in Requests : op'[q] = op[q]
  BY IdleTyped DEF Update, At, IInv, RequestsTyped, Request, Resting
<1>4. DraftTyped'
  <2>1. PICK content \in {edits'} \cup {x.content : x \in versions} :
          draft' = [draft EXCEPT !.rev = @ + 1, !.content = content]
    BY DEF Update
  <2>2. content \in Contents /\ edits' \in 0..MaxEdits
    BY <2>1, ResumeAssumption DEF Update, Edit, IInv, DraftTyped, RowsTyped, Row, Contents
  <2>3. draft' = [exists |-> draft.exists, rev |-> draft.rev + 1, content |-> content,
                  marked |-> draft.marked, overwritten |-> draft.overwritten]
    BY <2>1 DEF IInv, DraftTyped
  <2>. QED BY <2>2, <2>3 DEF Update, IInv, DraftTyped
<1>5. WriterInv'
  BY ResumeAssumption, IdleTyped DEF Update, Edit, Visible, At, IInv, WriterInv,
     RequestsTyped, Request
<1>6. RevInv'
  BY ResumeAssumption DEF Update, Edit, Visible, Idle, IInv, RevInv, DraftTyped,
     RequestsTyped, Request, Contents
<1>7. SnapshotInv'
  BY <1>3, SnapshotStep DEF Update, Edit, Visible, Resting
<1>. QED BY <1>1, <1>2, <1>3, <1>4, <1>5, <1>6, <1>7, RestStep DEF IInv

LEMMA PromoteStep ==
  ASSUME IInv, Promote
  PROVE  IInv'
<1>1. UNCHANGED <<versions, files, journals, drawn>>
  BY DEF Promote
<1>2. RequestsTyped'
  BY DEF Promote, IInv, RequestsTyped
<1>3. \A q \in Requests : op'[q] = op[q]
  BY IdleTyped DEF Promote, At, IInv, RequestsTyped, Request, Resting
<1>4. DraftTyped'
  <2>1. edits' \in 0..MaxEdits /\ profileRev' \in 1..(MaxEdits + 1)
    BY ResumeAssumption DEF Promote, Edit, IInv, DraftTyped, RevInv
  <2>2. draft' = [exists |-> draft.exists, rev |-> draft.rev + 1, content |-> edits',
                  marked |-> draft.marked, overwritten |-> draft.overwritten]
    BY DEF Promote, IInv, DraftTyped
  <2>. QED BY <2>1, <2>2 DEF Promote, IInv, DraftTyped, Contents
<1>5. WriterInv'
  BY ResumeAssumption, IdleTyped DEF Promote, Edit, Visible, At, IInv, WriterInv,
     RequestsTyped, Request
<1>6. RevInv'
  BY ResumeAssumption DEF Promote, Edit, Visible, Idle, IInv, RevInv, DraftTyped,
     RequestsTyped, Request, Contents
<1>7. SnapshotInv'
  BY <1>3, SnapshotStep DEF Promote, Edit, Visible, Resting
<1>. QED BY <1>1, <1>2, <1>3, <1>4, <1>5, <1>6, <1>7, RestStep DEF IInv

LEMMA ReadForSyncStep ==
  ASSUME IInv, NEW r \in Requests, ReadForSync(r)
  PROVE  IInv'
<1>1. UNCHANGED <<versions, files, journals, drawn>>
  BY DEF ReadForSync
<1>2. RequestsTyped'
  BY StartTyped, ResumeAssumption DEF ReadForSync, IInv, Places, DraftTyped, Contents
<1>3. \A q \in Requests : op'[q] = op[q]
          \/ (op'[q].at \in Resting /\ op'[q].version \in {None, op[q].version})
  BY IdleTyped DEF ReadForSync, Start, At, IInv, RequestsTyped, Request, Resting
<1>4. DraftTyped'
  BY ResumeAssumption DEF ReadForSync, IInv, DraftTyped, RevInv, RowsTyped, Row,
     RequestsTyped, Request, Contents
<1>5. WriterInv'
  BY ResumeAssumption, IdleTyped DEF ReadForSync, Start, At, IInv, WriterInv,
     RequestsTyped, Request
<1>6. RevInv'
  BY ResumeAssumption DEF ReadForSync, Start, Idle, IInv, RevInv, DraftTyped,
     RequestsTyped, Request, Contents
<1>7. SnapshotInv'
  BY <1>3, SnapshotStep DEF ReadForSync, Resting
<1>. QED BY <1>1, <1>2, <1>3, <1>4, <1>5, <1>6, <1>7, RestStep DEF IInv

LEMMA WriteSyncStep ==
  ASSUME IInv, NEW r \in Requests, WriteSync(r)
  PROVE  IInv'
<1>1. UNCHANGED <<versions, files, journals, drawn>>
  BY DEF WriteSync
<1>2. RequestsTyped'
  BY EndTyped DEF WriteSync, IInv
<1>3. \A q \in Requests : op'[q] = op[q]
          \/ (op'[q].at \in Resting /\ op'[q].version \in {None, op[q].version})
  BY IdleTyped DEF WriteSync, End, At, IInv, RequestsTyped, Request, Resting
<1>4. DraftTyped'
  <2>1. CASE UNCHANGED <<draft, edits>>
    BY <2>1 DEF WriteSync, IInv, DraftTyped
  <2>2. CASE Edit /\ \E context \in {draft.marked, FALSE} :
               draft' = [draft EXCEPT !.rev = op[r].rev + 1, !.content = edits',
                                      !.marked = context,
                                      !.overwritten = @ \/ draft.rev # op[r].rev]
    <3>1. PICK context \in {draft.marked, FALSE} :
            draft' = [draft EXCEPT !.rev = op[r].rev + 1, !.content = edits',
                                   !.marked = context,
                                   !.overwritten = @ \/ draft.rev # op[r].rev]
      BY <2>2
    <3>2. edits' \in 0..MaxEdits /\ op[r].rev + 1 \in Nat
      BY <2>2, ResumeAssumption DEF Edit, IInv, DraftTyped, RequestsTyped, Request
    <3>3. draft' = [exists |-> draft.exists, rev |-> op[r].rev + 1, content |-> edits',
                    marked |-> context,
                    overwritten |-> draft.overwritten \/ draft.rev # op[r].rev]
      BY <3>1 DEF IInv, DraftTyped
    <3>. QED BY <3>2, <3>3 DEF WriteSync, IInv, DraftTyped, Contents
  <2>. QED BY <2>1, <2>2 DEF WriteSync
<1>5. WriterInv'
  BY ResumeAssumption, IdleTyped DEF WriteSync, End, Edit, At, IInv, WriterInv,
     RequestsTyped, Request
<1>6. RevInv'
  BY ResumeAssumption DEF WriteSync, End, Edit, Idle, IInv, RevInv, DraftTyped,
     RequestsTyped, Request, Contents
<1>7. SnapshotInv'
  BY <1>3, SnapshotStep DEF WriteSync, Edit, Resting
<1>. QED BY <1>1, <1>2, <1>3, <1>4, <1>5, <1>6, <1>7, RestStep DEF IInv

LEMMA ReadProfileStep ==
  ASSUME IInv, NEW r \in Requests, ReadProfile(r)
  PROVE  IInv'
<1>1. UNCHANGED <<versions, files, journals, drawn>>
  BY DEF ReadProfile
<1>2. RequestsTyped'
  BY StartTyped, ResumeAssumption DEF ReadProfile, IInv, Places, DraftTyped, Contents
<1>3. \A q \in Requests : op'[q] = op[q]
          \/ (op'[q].at \in Resting /\ op'[q].version \in {None, op[q].version})
  BY IdleTyped DEF ReadProfile, Start, At, IInv, RequestsTyped, Request, Resting
<1>4. DraftTyped'
  BY ResumeAssumption DEF ReadProfile, IInv, DraftTyped, RevInv, RowsTyped, Row,
     RequestsTyped, Request, Contents
<1>5. WriterInv'
  BY ResumeAssumption, IdleTyped DEF ReadProfile, Start, At, IInv, WriterInv,
     RequestsTyped, Request
<1>6. RevInv'
  BY ResumeAssumption DEF ReadProfile, Start, Idle, IInv, RevInv, DraftTyped,
     RequestsTyped, Request, Contents
<1>7. SnapshotInv'
  BY <1>3, SnapshotStep DEF ReadProfile, Resting
<1>. QED BY <1>1, <1>2, <1>3, <1>4, <1>5, <1>6, <1>7, RestStep DEF IInv

LEMMA SaveProfileStep ==
  ASSUME IInv, NEW r \in Requests, SaveProfile(r)
  PROVE  IInv'
<1>1. UNCHANGED <<versions, files, journals, drawn>>
  BY DEF SaveProfile
<1>2. RequestsTyped'
  BY EndTyped DEF SaveProfile, IInv
<1>3. \A q \in Requests : op'[q] = op[q]
          \/ (op'[q].at \in Resting /\ op'[q].version \in {None, op[q].version})
  BY IdleTyped DEF SaveProfile, End, At, IInv, RequestsTyped, Request, Resting
<1>4. DraftTyped'
  BY ResumeAssumption DEF SaveProfile, Edit, IInv, DraftTyped, RevInv, RowsTyped, Row,
     RequestsTyped, Request, Contents
<1>5. WriterInv'
  BY ResumeAssumption, IdleTyped DEF SaveProfile, End, Edit, At, IInv, WriterInv,
     RequestsTyped, Request
<1>6. RevInv'
  BY ResumeAssumption DEF SaveProfile, End, Edit, Idle, IInv, RevInv, DraftTyped,
     RequestsTyped, Request, Contents
<1>7. SnapshotInv'
  BY <1>3, SnapshotStep DEF SaveProfile, Edit, Resting
<1>. QED BY <1>1, <1>2, <1>3, <1>4, <1>5, <1>6, <1>7, RestStep DEF IInv

LEMMA RecoverFailsStep ==
  ASSUME IInv, NEW r \in Requests, RecoverFails(r)
  PROVE  IInv'
<1>1. UNCHANGED <<versions, files, journals, drawn>>
  BY DEF RecoverFails
<1>2. RequestsTyped'
  BY EndTyped DEF RecoverFails, IInv
<1>3. \A q \in Requests : op'[q] = op[q]
          \/ (op'[q].at \in Resting /\ op'[q].version \in {None, op[q].version})
  BY IdleTyped DEF RecoverFails, End, At, IInv, RequestsTyped, Request, Resting
<1>4. DraftTyped'
  BY ResumeAssumption DEF RecoverFails, Recovering, Release, Fault, IInv, DraftTyped,
     RevInv, RowsTyped, Row, RequestsTyped, Request, Contents
<1>5. WriterInv'
  BY ResumeAssumption, IdleTyped DEF RecoverFails, End, Recovering, Release, Fault, At,
     IInv, WriterInv, RequestsTyped, Request
<1>6. RevInv'
  BY ResumeAssumption DEF RecoverFails, End, Recovering, Release, Fault, Idle, IInv,
     RevInv, DraftTyped, RequestsTyped, Request, Contents
<1>7. SnapshotInv'
  BY <1>3, SnapshotStep DEF RecoverFails, Recovering, Release, Fault, Resting
<1>. QED BY <1>1, <1>2, <1>3, <1>4, <1>5, <1>6, <1>7, RestStep DEF IInv

LEMMA RenderStep ==
  ASSUME IInv, NEW r \in Requests, Render(r)
  PROVE  IInv'
<1>1. UNCHANGED <<versions, files, journals, drawn>>
  BY DEF Render
<1>2. RequestsTyped'
  BY StartTyped, ResumeAssumption DEF Render, IInv, Places, DraftTyped, Contents
<1>3. \A q \in Requests : op'[q] = op[q]
          \/ (op'[q].at \in Resting /\ op'[q].version \in {None, op[q].version})
  BY IdleTyped DEF Render, Start, At, IInv, RequestsTyped, Request, Resting
<1>4. DraftTyped'
  BY ResumeAssumption DEF Render, IInv, DraftTyped, RevInv, RowsTyped, Row, RequestsTyped,
     Request, Contents
<1>5. WriterInv'
  BY ResumeAssumption, IdleTyped DEF Render, Start, At, IInv, WriterInv, RequestsTyped,
     Request
<1>6. RevInv'
  BY ResumeAssumption DEF Render, Start, Idle, IInv, RevInv, DraftTyped, RequestsTyped,
     Request, Contents
<1>7. SnapshotInv'
  BY <1>3, SnapshotStep DEF Render, Resting
<1>. QED BY <1>1, <1>2, <1>3, <1>4, <1>5, <1>6, <1>7, RestStep DEF IInv

LEMMA BeginDeleteStep ==
  ASSUME IInv, NEW r \in Requests, BeginDelete(r)
  PROVE  IInv'
<1>1. UNCHANGED <<versions, files, journals, drawn>>
  BY DEF BeginDelete
<1>2. RequestsTyped'
  BY StartTyped, ResumeAssumption DEF BeginDelete, IInv, Places, DraftTyped, Contents
<1>3. \A q \in Requests : op'[q] = op[q]
          \/ (op'[q].at \in Resting /\ op'[q].version \in {None, op[q].version})
  BY IdleTyped DEF BeginDelete, Start, At, IInv, RequestsTyped, Request, Resting
<1>4. DraftTyped'
  BY ResumeAssumption DEF BeginDelete, Reserve, IInv, DraftTyped, RevInv, RowsTyped, Row,
     RequestsTyped, Request, Contents
<1>5. WriterInv'
  BY ResumeAssumption, IdleTyped DEF BeginDelete, Start, Reserve, At, IInv, WriterInv,
     RequestsTyped, Request
<1>6. RevInv'
  BY ResumeAssumption DEF BeginDelete, Start, Reserve, Idle, IInv, RevInv, DraftTyped,
     RequestsTyped, Request, Contents
<1>7. SnapshotInv'
  BY <1>3, SnapshotStep DEF BeginDelete, Reserve, Resting
<1>. QED BY <1>1, <1>2, <1>3, <1>4, <1>5, <1>6, <1>7, RestStep DEF IInv

LEMMA MarkStep ==
  ASSUME IInv, NEW r \in Requests, Mark(r)
  PROVE  IInv'
<1>1. UNCHANGED <<versions, files, journals, drawn>>
  BY DEF Mark
<1>2. RequestsTyped'
  BY GoTyped, EndTyped DEF Mark, IInv, Places
<1>3. \A q \in Requests : op'[q] = op[q]
          \/ (op'[q].at \in Resting /\ op'[q].version \in {None, op[q].version})
  BY IdleTyped DEF Mark, Go, End, At, IInv, RequestsTyped, Request, Resting
<1>4. DraftTyped'
  <2>1. CASE UNCHANGED draft
    BY <2>1, ResumeAssumption DEF Mark, Fault, IInv, DraftTyped
  <2>2. CASE draft' = [draft EXCEPT !.marked = TRUE, !.rev = @ + 1]
    <3>1. draft' = [exists |-> draft.exists, rev |-> draft.rev + 1,
                    content |-> draft.content, marked |-> TRUE,
                    overwritten |-> draft.overwritten]
      BY <2>2 DEF IInv, DraftTyped
    <3>. QED BY <3>1, ResumeAssumption DEF Mark, Fault, IInv, DraftTyped
  <2>. QED BY <2>1, <2>2 DEF Mark
<1>5. WriterInv'
  BY ResumeAssumption, IdleTyped DEF Mark, Go, End, Release, Fault, At, IInv, WriterInv,
     RequestsTyped, Request
<1>6. RevInv'
  BY ResumeAssumption DEF Mark, Go, End, Release, Fault, Idle, IInv, RevInv, DraftTyped,
     RequestsTyped, Request, Contents
<1>7. SnapshotInv'
  BY <1>3 DEF Mark, Release, Fault, Resting, At, IInv, SnapshotInv, SnapshotCurrent,
     Visible, WriterInv
<1>. QED BY <1>1, <1>2, <1>3, <1>4, <1>5, <1>6, <1>7, RestStep DEF IInv

LEMMA ReopenStep ==
  ASSUME IInv, NEW r \in Requests, Reopen(r)
  PROVE  IInv'
<1>1. UNCHANGED <<versions, files, journals, drawn>>
  BY DEF Reopen
<1>2. RequestsTyped'
  BY GoTyped, EndTyped DEF Reopen, IInv, Places
<1>3. \A q \in Requests : op'[q] = op[q]
          \/ (op'[q].at \in Resting /\ op'[q].version \in {None, op[q].version})
  BY IdleTyped DEF Reopen, Go, End, At, IInv, RequestsTyped, Request, Resting
<1>4. DraftTyped'
  BY ResumeAssumption DEF Reopen, Reserve, IInv, DraftTyped, RevInv, RowsTyped, Row,
     RequestsTyped, Request, Contents
<1>5. WriterInv'
  BY ResumeAssumption, IdleTyped DEF Reopen, Go, End, Reserve, At, IInv, WriterInv,
     RequestsTyped, Request
<1>6. RevInv'
  BY ResumeAssumption DEF Reopen, Go, End, Reserve, Idle, IInv, RevInv, DraftTyped,
     RequestsTyped, Request, Contents
<1>7. SnapshotInv'
  BY <1>3, SnapshotStep DEF Reopen, Reserve, Resting
<1>. QED BY <1>1, <1>2, <1>3, <1>4, <1>5, <1>6, <1>7, RestStep DEF IInv

-----------------------------------------------------------------------------
(* Publication, reconciliation and the removal of files                    *)

LEMMA RecoverStep ==
  ASSUME IInv, NEW r \in Requests, Recover(r)
  PROVE  IInv'
<1>1. DraftTyped' /\ RowsTyped' /\ RequestsTyped' /\ WriterInv' /\ RevInv' /\ SnapshotInv'
  BY DEF Recover, IInv, DraftTyped, RowsTyped, RequestsTyped, WriterInv, RevInv,
     SnapshotInv, SnapshotCurrent, Visible
<1>2. DiskTyped'
  BY ResumeAssumption DEF IInv, Recover, Recovering, Claimed, Mine, FilesOf, At,
     DiskTyped, Versions, RequestsTyped, Request, DrawnInv, DraftTyped
<1>3. DrawnInv'
  BY ResumeAssumption DEF IInv, Recover, Recovering, Claimed, Mine, FilesOf, At,
     DraftTyped, RequestsTyped, Request, WriterInv, DrawnInv, Committed, Versions
<1>4. StoreInv'
  BY ResumeAssumption DEF IInv, Recover, Recovering, Claimed, Mine, FilesOf, At,
     RequestsTyped, Request, WriterInv, StoreInv, DrawnInv, DraftTyped, Committed,
     Formats, Versions
<1>5. CleanInv'
  BY ResumeAssumption DEF IInv, Recover, Recovering, Claimed, Mine, FilesOf, At,
     RequestsTyped, Request, CleanInv, StoreInv, DrawnInv, DraftTyped, Committed, Formats,
     Versions, WriterInv
<1>6. CommitInv'
  BY ResumeAssumption DEF IInv, Recover, Recovering, Claimed, Mine, FilesOf, At,
     RequestsTyped, Request, CommitInv, StoreInv, DrawnInv, DraftTyped, Committed,
     Formats, Versions, WriterInv
<1>7. NoStrayArtifact'
  BY ResumeAssumption DEF IInv, Recover, Recovering, Claimed, Mine, FilesOf, At,
     RequestsTyped, Request, DiskTyped, NoStrayArtifact, StoreInv, CleanInv, CommitInv,
     DrawnInv, DraftTyped, Committed, Formats, Versions
<1>. QED BY <1>1, <1>2, <1>3, <1>4, <1>5, <1>6, <1>7 DEF IInv

LEMMA LockPublishStateStep ==
  ASSUME IInv, NEW r \in Requests, LockPublishState(r)
  PROVE  IInv'
<1>1. DraftTyped' /\ RowsTyped' /\ DiskTyped'
  BY DEF LockPublishState, IInv, DraftTyped, RowsTyped, DiskTyped
<1>2. RequestsTyped'
  BY ResumeAssumption, GoTyped, EndTyped DEF IInv, LockPublishState, Reserve,
     SnapshotCurrent, Visible, At, RequestsTyped, Request, Places, Contents, Versions,
     DraftTyped, Formats, DrawnInv
<1>3. WriterInv'
  BY ResumeAssumption, IdleTyped DEF IInv, LockPublishState, Go, End, Reserve,
     SnapshotCurrent, Visible, At, WriterInv, RequestsTyped, Request
<1>4. RevInv'
  BY ResumeAssumption, IdleTyped DEF IInv, LockPublishState, Go, End, Reserve,
     SnapshotCurrent, Visible, At, DraftTyped, RequestsTyped, Request, RevInv, Idle
<1>5. DrawnInv'
  BY ResumeAssumption, IdleTyped DEF IInv, LockPublishState, Go, End, Reserve,
     SnapshotCurrent, Visible, At, DraftTyped, RequestsTyped, Request, WriterInv,
     DrawnInv, Committed, Versions
<1>6. SnapshotInv'
  BY ResumeAssumption, IdleTyped DEF IInv, LockPublishState, Go, End, Reserve,
     SnapshotCurrent, Visible, At, RequestsTyped, Request, DraftTyped, WriterInv,
     SnapshotInv
<1>7. StoreInv'
  BY ResumeAssumption, IdleTyped DEF IInv, LockPublishState, Go, End, Reserve,
     SnapshotCurrent, Visible, At, RequestsTyped, Request, WriterInv, StoreInv, DrawnInv,
     DraftTyped, Committed, Formats, Versions
<1>8. CleanInv'
  BY ResumeAssumption, IdleTyped DEF IInv, LockPublishState, Go, End, Reserve,
     SnapshotCurrent, Visible, At, RequestsTyped, Request, CleanInv, StoreInv, DrawnInv,
     DraftTyped, Committed, Formats, Versions, WriterInv
<1>9. CommitInv'
  BY ResumeAssumption, IdleTyped DEF IInv, LockPublishState, Go, End, Reserve,
     SnapshotCurrent, Visible, At, RequestsTyped, Request, CommitInv, StoreInv, DrawnInv,
     DraftTyped, Committed, Mine, FilesOf, Formats, Versions, WriterInv
<1>10. NoStrayArtifact'
  BY ResumeAssumption, IdleTyped DEF IInv, LockPublishState, Go, End, Reserve,
     SnapshotCurrent, Visible, At, RequestsTyped, Request, DiskTyped, NoStrayArtifact,
     StoreInv, CleanInv, CommitInv, DrawnInv, DraftTyped, Committed, Mine, FilesOf,
     Formats, Versions
<1>. QED BY <1>1, <1>2, <1>3, <1>4, <1>5, <1>6, <1>7, <1>8, <1>9, <1>10 DEF IInv

LEMMA WriteJournalStep ==
  ASSUME IInv, NEW r \in Requests, WriteJournal(r)
  PROVE  IInv'
<1>1. RowsTyped'
  BY DEF WriteJournal, IInv, RowsTyped
<1>2. DraftTyped'
  BY ResumeAssumption DEF IInv, WriteJournal, Fault, Release, At, DraftTyped, RowsTyped,
     Row, RequestsTyped, Request, DrawnInv, Contents
<1>3. DiskTyped'
  BY ResumeAssumption DEF IInv, WriteJournal, Fault, Release, At, DiskTyped, Versions,
     RequestsTyped, Request, DrawnInv, DraftTyped
<1>4. RequestsTyped'
  BY ResumeAssumption DEF IInv, WriteJournal, Fault, Release, At, RequestsTyped, Request,
     Places, Contents, Versions, DraftTyped, Formats, DrawnInv
<1>5. WriterInv'
  BY ResumeAssumption DEF IInv, WriteJournal, Fault, Release, At, WriterInv,
     RequestsTyped, Request
<1>6. RevInv'
  BY ResumeAssumption DEF IInv, WriteJournal, Fault, Release, At, DraftTyped,
     RequestsTyped, Request, RevInv, Idle
<1>7. DrawnInv'
  <2>1. drawn \in Nat /\ drawn' = drawn + 1 /\ drawn' # None /\ At(r, "recover")
    BY ResumeAssumption DEF WriteJournal, IInv, DraftTyped
  <2>2. UNCHANGED <<versions, files>> /\ journals' \subseteq journals \cup {drawn'}
    BY DEF WriteJournal
  <2>3. \A q \in Requests \ {r} : op'[q] = op[q]
    BY DEF WriteJournal, IInv, RequestsTyped
  <2>4. op'[r].version = drawn' /\ op'[r].at \in {"storing", "failed"}
    BY DEF WriteJournal, IInv, RequestsTyped, Request
  <2>5. \A q \in Requests \ {r} : op[q].at # "recover"
    BY <2>1 DEF At, IInv, WriterInv
  <2>6. /\ Committed' \cup journals' \subseteq 1..drawn'
        /\ \A file \in files' : file[1] \in 1..drawn'
    BY <2>1, <2>2 DEF IInv, DrawnInv, Committed
  <2>7. \A q \in Requests \ {r} :
          /\ op'[q].version # None => op'[q].version \in 1..drawn'
          /\ op'[q].version # op'[r].version
    BY <2>1, <2>3, <2>4 DEF IInv, DrawnInv
  <2>. QED BY <2>1, <2>3, <2>4, <2>5, <2>6, <2>7 DEF IInv, DrawnInv
<1>8. SnapshotInv'
  BY ResumeAssumption DEF IInv, WriteJournal, Fault, Release, At, RequestsTyped, Request,
     DraftTyped, WriterInv, SnapshotInv, SnapshotCurrent, Visible
<1>9. StoreInv'
  BY ResumeAssumption DEF IInv, WriteJournal, Fault, Release, At, RequestsTyped, Request,
     WriterInv, StoreInv, DrawnInv, DraftTyped, Committed, Formats, Versions
<1>10. CleanInv'
  BY ResumeAssumption DEF IInv, WriteJournal, Fault, Release, At, RequestsTyped, Request,
     CleanInv, StoreInv, DrawnInv, DraftTyped, Committed, Formats, Versions, WriterInv
<1>11. CommitInv'
  BY ResumeAssumption DEF IInv, WriteJournal, Fault, Release, At, RequestsTyped, Request,
     CommitInv, StoreInv, DrawnInv, DraftTyped, Committed, Mine, FilesOf, Formats,
     Versions, WriterInv
<1>12. NoStrayArtifact'
  BY ResumeAssumption DEF IInv, WriteJournal, Fault, Release, At, RequestsTyped, Request,
     DiskTyped, NoStrayArtifact, StoreInv, CleanInv, CommitInv, DrawnInv, DraftTyped,
     Committed, Mine, FilesOf, Formats, Versions
<1>. QED BY <1>1, <1>2, <1>3, <1>4, <1>5, <1>6, <1>7, <1>8, <1>9, <1>10, <1>11, <1>12
   DEF IInv

LEMMA StoreStep ==
  ASSUME IInv, NEW r \in Requests, Store(r)
  PROVE  IInv'
<1>1. DraftTyped' /\ RowsTyped'
  BY DEF Store, IInv, DraftTyped, RowsTyped
<1>2. DiskTyped'
  BY ResumeAssumption DEF IInv, Store, At, DiskTyped, Versions, RequestsTyped, Request,
     DrawnInv, DraftTyped
<1>3. RequestsTyped'
  BY ResumeAssumption DEF IInv, Store, At, RequestsTyped, Request, Places, Contents,
     Versions, DraftTyped, Formats, DrawnInv
<1>4. WriterInv'
  BY ResumeAssumption DEF IInv, Store, At, WriterInv, RequestsTyped, Request
<1>5. RevInv'
  BY ResumeAssumption DEF IInv, Store, At, DraftTyped, RequestsTyped, Request, RevInv, Idle
<1>6. DrawnInv'
  BY ResumeAssumption DEF IInv, Store, At, DraftTyped, RequestsTyped, Request, WriterInv,
     DrawnInv, Committed, Versions
<1>7. SnapshotInv'
  BY ResumeAssumption DEF IInv, Store, At, RequestsTyped, Request, DraftTyped, WriterInv,
     SnapshotInv, SnapshotCurrent, Visible
<1>8. StoreInv'
  BY ResumeAssumption DEF IInv, Store, At, RequestsTyped, Request, WriterInv, StoreInv,
     DrawnInv, DraftTyped, Committed, Formats, Versions
<1>9. CleanInv'
  BY ResumeAssumption DEF IInv, Store, At, RequestsTyped, Request, CleanInv, StoreInv,
     DrawnInv, DraftTyped, Committed, Formats, Versions, WriterInv
<1>10. CommitInv'
  BY ResumeAssumption DEF IInv, Store, At, RequestsTyped, Request, CommitInv, StoreInv,
     DrawnInv, DraftTyped, Committed, Mine, FilesOf, Formats, Versions, WriterInv
<1>11. NoStrayArtifact'
  BY ResumeAssumption DEF IInv, Store, At, RequestsTyped, Request, DiskTyped,
     NoStrayArtifact, StoreInv, CleanInv, CommitInv, DrawnInv, DraftTyped, Committed,
     Mine, FilesOf, Formats, Versions
<1>. QED BY <1>1, <1>2, <1>3, <1>4, <1>5, <1>6, <1>7, <1>8, <1>9, <1>10, <1>11 DEF IInv

LEMMA StoreFailsStep ==
  ASSUME IInv, NEW r \in Requests, StoreFails(r)
  PROVE  IInv'
<1>1. RowsTyped' /\ DiskTyped'
  BY DEF StoreFails, IInv, RowsTyped, DiskTyped
<1>2. DraftTyped'
  BY ResumeAssumption DEF IInv, StoreFails, Go, Fault, Release, At, DraftTyped, RowsTyped,
     Row, RequestsTyped, Request, DrawnInv, Contents
<1>3. RequestsTyped'
  BY ResumeAssumption, GoTyped DEF IInv, StoreFails, Fault, Release, At, RequestsTyped,
     Request, Places, Contents, Versions, DraftTyped, Formats, DrawnInv
<1>4. WriterInv'
  BY ResumeAssumption DEF IInv, StoreFails, Go, Fault, Release, At, WriterInv,
     RequestsTyped, Request
<1>5. RevInv'
  BY ResumeAssumption DEF IInv, StoreFails, Go, Fault, Release, At, DraftTyped,
     RequestsTyped, Request, RevInv, Idle
<1>6. DrawnInv'
  BY ResumeAssumption DEF IInv, StoreFails, Go, Fault, Release, At, DraftTyped,
     RequestsTyped, Request, WriterInv, DrawnInv, Committed, Versions
<1>7. SnapshotInv'
  BY ResumeAssumption DEF IInv, StoreFails, Go, Fault, Release, At, RequestsTyped,
     Request, DraftTyped, WriterInv, SnapshotInv, SnapshotCurrent, Visible
<1>8. StoreInv'
  BY ResumeAssumption DEF IInv, StoreFails, Go, Fault, Release, At, RequestsTyped,
     Request, WriterInv, StoreInv, DrawnInv, DraftTyped, Committed, Formats, Versions
<1>9. CleanInv'
  BY ResumeAssumption DEF IInv, StoreFails, Go, Fault, Release, At, RequestsTyped,
     Request, CleanInv, StoreInv, DrawnInv, DraftTyped, Committed, Formats, Versions,
     WriterInv
<1>10. CommitInv'
  BY ResumeAssumption DEF IInv, StoreFails, Go, Fault, Release, At, RequestsTyped,
     Request, CommitInv, StoreInv, DrawnInv, DraftTyped, Committed, Mine, FilesOf,
     Formats, Versions, WriterInv
<1>11. NoStrayArtifact'
  BY ResumeAssumption DEF IInv, StoreFails, Go, Fault, Release, At, RequestsTyped,
     Request, DiskTyped, NoStrayArtifact, StoreInv, CleanInv, CommitInv, DrawnInv,
     DraftTyped, Committed, Mine, FilesOf, Formats, Versions
<1>. QED BY <1>1, <1>2, <1>3, <1>4, <1>5, <1>6, <1>7, <1>8, <1>9, <1>10, <1>11 DEF IInv

LEMMA CommitStep ==
  ASSUME IInv, NEW r \in Requests, Commit(r)
  PROVE  IInv'
<1>1. DiskTyped'
  BY DEF Commit, IInv, DiskTyped
<1>2. DraftTyped'
  BY ResumeAssumption DEF IInv, Commit, Go, Fault, Release, NewRow, At, DraftTyped,
     RowsTyped, Row, RequestsTyped, Request, DrawnInv, Contents
<1>3. RowsTyped'
  BY ResumeAssumption DEF IInv, Commit, Go, Fault, Release, NewRow, At, RowsTyped, Row,
     RequestsTyped, Request, StoreInv, DrawnInv, Committed
<1>4. RequestsTyped'
  BY ResumeAssumption, GoTyped DEF IInv, Commit, Fault, Release, NewRow, At,
     RequestsTyped, Request, Places, Contents, Versions, DraftTyped, Formats, DrawnInv
<1>5. WriterInv'
  BY ResumeAssumption DEF IInv, Commit, Go, Fault, Release, NewRow, At, WriterInv,
     RequestsTyped, Request
<1>6. RevInv'
  <2>1. \A q \in Requests : op'[q].profile = op[q].profile
    BY DEF Commit, Go, IInv, RequestsTyped, Request
  <2>. QED BY <2>1 DEF Commit, IInv, RevInv
<1>7. DrawnInv'
  BY ResumeAssumption DEF IInv, Commit, Go, Fault, Release, NewRow, At, DraftTyped,
     RequestsTyped, Request, WriterInv, DrawnInv, Committed, Versions
<1>8. SnapshotInv'
  BY ResumeAssumption DEF IInv, Commit, Go, Fault, Release, NewRow, At, RequestsTyped,
     Request, DraftTyped, WriterInv, SnapshotInv, SnapshotCurrent, Visible
<1>9. StoreInv'
  BY ResumeAssumption DEF IInv, Commit, Go, Fault, Release, NewRow, At, RequestsTyped,
     Request, WriterInv, StoreInv, DrawnInv, DraftTyped, Committed, Formats, Versions
<1>10. CleanInv'
  BY ResumeAssumption DEF IInv, Commit, Go, Fault, Release, NewRow, At, RequestsTyped,
     Request, CleanInv, StoreInv, DrawnInv, DraftTyped, Committed, Formats, Versions,
     WriterInv
<1>11. CommitInv'
  <2>1. op[r].version \in Nat /\ op[r].version \notin Committed /\ At(r, "storing")
    BY DEF Commit, At, IInv, StoreInv, DrawnInv, DraftTyped
  <2>2. UNCHANGED files /\ Committed \subseteq Committed'
    BY DEF Commit, Committed
  <2>3. \A q \in Requests \ {r} : op'[q] = op[q]
    BY DEF Commit, Go, IInv, RequestsTyped
  <2>4. ASSUME op'[r].at = "committed" PROVE op'[r].version \in Committed'
    <3>1. versions' = versions \cup {NewRow(r)}
      BY <2>4 DEF Commit
    <3>2. op'[r].version = op[r].version /\ NewRow(r).id = op[r].version
      BY DEF Commit, Go, NewRow, IInv, RequestsTyped, Request
    <3>. QED BY <3>1, <3>2 DEF Committed
  <2>. QED BY <2>2, <2>3, <2>4 DEF IInv, CommitInv, Mine
<1>12. NoStrayArtifact'
  BY ResumeAssumption DEF IInv, Commit, Go, Fault, Release, NewRow, At, RequestsTyped,
     Request, DiskTyped, NoStrayArtifact, StoreInv, CleanInv, CommitInv, DrawnInv,
     DraftTyped, Committed, Mine, FilesOf, Formats, Versions
<1>. QED BY <1>1, <1>2, <1>3, <1>4, <1>5, <1>6, <1>7, <1>8, <1>9, <1>10, <1>11, <1>12
   DEF IInv

LEMMA ExamineStep ==
  ASSUME IInv, NEW r \in Requests, Examine(r)
  PROVE  IInv'
<1>1. RowsTyped' /\ DiskTyped'
  BY DEF Examine, IInv, RowsTyped, DiskTyped
<1>2. DraftTyped'
  BY ResumeAssumption, IdleTyped DEF IInv, Examine, Go, End, Fault, At, DraftTyped,
     RowsTyped, Row, RequestsTyped, Request, DrawnInv, Contents
<1>3. RequestsTyped'
  BY ResumeAssumption, GoTyped, EndTyped DEF IInv, Examine, Fault, At, RequestsTyped,
     Request, Places, Contents, Versions, DraftTyped, Formats, DrawnInv
<1>4. WriterInv'
  BY ResumeAssumption, IdleTyped DEF IInv, Examine, Go, End, Fault, At, WriterInv,
     RequestsTyped, Request
<1>5. RevInv'
  BY ResumeAssumption, IdleTyped DEF IInv, Examine, Go, End, Fault, At, DraftTyped,
     RequestsTyped, Request, RevInv, Idle
<1>6. DrawnInv'
  BY ResumeAssumption, IdleTyped DEF IInv, Examine, Go, End, Fault, At, DraftTyped,
     RequestsTyped, Request, WriterInv, DrawnInv, Committed, Versions
<1>7. SnapshotInv'
  BY ResumeAssumption, IdleTyped DEF IInv, Examine, Go, End, Fault, At, RequestsTyped,
     Request, DraftTyped, WriterInv, SnapshotInv, SnapshotCurrent, Visible
<1>8. StoreInv'
  BY ResumeAssumption, IdleTyped DEF IInv, Examine, Go, End, Fault, At, RequestsTyped,
     Request, WriterInv, StoreInv, DrawnInv, DraftTyped, Committed, Formats, Versions
<1>9. CleanInv'
  BY ResumeAssumption, IdleTyped DEF IInv, Examine, Go, End, Fault, At, RequestsTyped,
     Request, CleanInv, StoreInv, DrawnInv, DraftTyped, Committed, Formats, Versions,
     WriterInv
<1>10. CommitInv'
  BY ResumeAssumption, IdleTyped DEF IInv, Examine, Go, End, Fault, At, RequestsTyped,
     Request, CommitInv, StoreInv, DrawnInv, DraftTyped, Committed, Mine, FilesOf,
     Formats, Versions, WriterInv
<1>11. NoStrayArtifact'
  BY ResumeAssumption, IdleTyped DEF IInv, Examine, Go, End, Fault, At, RequestsTyped,
     Request, DiskTyped, NoStrayArtifact, StoreInv, CleanInv, CommitInv, DrawnInv,
     DraftTyped, Committed, Mine, FilesOf, Formats, Versions
<1>. QED BY <1>1, <1>2, <1>3, <1>4, <1>5, <1>6, <1>7, <1>8, <1>9, <1>10, <1>11 DEF IInv

LEMMA CleanFileStep ==
  ASSUME IInv, NEW r \in Requests, CleanFile(r)
  PROVE  IInv'
<1>1. RowsTyped'
  BY DEF CleanFile, IInv, RowsTyped
<1>2. DraftTyped'
  BY ResumeAssumption DEF IInv, CleanFile, Fault, At, DraftTyped, RowsTyped, Row,
     RequestsTyped, Request, DrawnInv, Contents
<1>3. DiskTyped'
  BY ResumeAssumption DEF IInv, CleanFile, Fault, At, DiskTyped, Versions, RequestsTyped,
     Request, DrawnInv, DraftTyped
<1>4. RequestsTyped'
  BY ResumeAssumption DEF IInv, CleanFile, Fault, At, RequestsTyped, Request, Places,
     Contents, Versions, DraftTyped, Formats, DrawnInv
<1>5. WriterInv'
  BY ResumeAssumption DEF IInv, CleanFile, Fault, At, WriterInv, RequestsTyped, Request
<1>6. RevInv'
  BY ResumeAssumption DEF IInv, CleanFile, Fault, At, DraftTyped, RequestsTyped, Request,
     RevInv, Idle
<1>7. DrawnInv'
  BY ResumeAssumption DEF IInv, CleanFile, Fault, At, DraftTyped, RequestsTyped, Request,
     WriterInv, DrawnInv, Committed, Versions
<1>8. SnapshotInv'
  BY ResumeAssumption DEF IInv, CleanFile, Fault, At, RequestsTyped, Request, DraftTyped,
     WriterInv, SnapshotInv, SnapshotCurrent, Visible
<1>9. StoreInv'
  BY ResumeAssumption DEF IInv, CleanFile, Fault, At, RequestsTyped, Request, WriterInv,
     StoreInv, DrawnInv, DraftTyped, Committed, Formats, Versions
<1>10. CleanInv'
  BY ResumeAssumption DEF IInv, CleanFile, Fault, At, RequestsTyped, Request, CleanInv,
     StoreInv, DrawnInv, DraftTyped, Committed, Formats, Versions, WriterInv
<1>11. CommitInv'
  BY ResumeAssumption DEF IInv, CleanFile, Fault, At, RequestsTyped, Request, CommitInv,
     StoreInv, DrawnInv, DraftTyped, Committed, Mine, FilesOf, Formats, Versions,
     WriterInv
<1>12. NoStrayArtifact'
  BY ResumeAssumption DEF IInv, CleanFile, Fault, At, RequestsTyped, Request, DiskTyped,
     NoStrayArtifact, StoreInv, CleanInv, CommitInv, DrawnInv, DraftTyped, Committed,
     Mine, FilesOf, Formats, Versions
<1>. QED BY <1>1, <1>2, <1>3, <1>4, <1>5, <1>6, <1>7, <1>8, <1>9, <1>10, <1>11, <1>12
   DEF IInv

LEMMA DropJournalStep ==
  ASSUME IInv, NEW r \in Requests, DropJournal(r)
  PROVE  IInv'
<1>1. RowsTyped'
  BY DEF DropJournal, IInv, RowsTyped
<1>2. DraftTyped'
  BY ResumeAssumption, IdleTyped DEF IInv, DropJournal, End, Fault, At, DraftTyped,
     RowsTyped, Row, RequestsTyped, Request, DrawnInv, Contents
<1>3. DiskTyped'
  BY ResumeAssumption, IdleTyped DEF IInv, DropJournal, End, Fault, At, DiskTyped,
     Versions, RequestsTyped, Request, DrawnInv, DraftTyped
<1>4. RequestsTyped'
  BY ResumeAssumption, EndTyped DEF IInv, DropJournal, Fault, At, RequestsTyped, Request,
     Places, Contents, Versions, DraftTyped, Formats, DrawnInv
<1>5. WriterInv'
  BY ResumeAssumption, IdleTyped DEF IInv, DropJournal, End, Fault, At, WriterInv,
     RequestsTyped, Request
<1>6. RevInv'
  BY ResumeAssumption, IdleTyped DEF IInv, DropJournal, End, Fault, At, DraftTyped,
     RequestsTyped, Request, RevInv, Idle
<1>7. DrawnInv'
  BY ResumeAssumption, IdleTyped DEF IInv, DropJournal, End, Fault, At, DraftTyped,
     RequestsTyped, Request, WriterInv, DrawnInv, Committed, Versions
<1>8. SnapshotInv'
  BY ResumeAssumption, IdleTyped DEF IInv, DropJournal, End, Fault, At, RequestsTyped,
     Request, DraftTyped, WriterInv, SnapshotInv, SnapshotCurrent, Visible
<1>9. StoreInv'
  BY ResumeAssumption, IdleTyped DEF IInv, DropJournal, End, Fault, At, RequestsTyped,
     Request, WriterInv, StoreInv, DrawnInv, DraftTyped, Committed, Formats, Versions
<1>10. CleanInv'
  BY ResumeAssumption, IdleTyped DEF IInv, DropJournal, End, Fault, At, RequestsTyped,
     Request, CleanInv, StoreInv, DrawnInv, DraftTyped, Committed, Formats, Versions,
     WriterInv
<1>11. CommitInv'
  BY ResumeAssumption, IdleTyped DEF IInv, DropJournal, End, Fault, At, RequestsTyped,
     Request, CommitInv, StoreInv, DrawnInv, DraftTyped, Committed, Mine, FilesOf,
     Formats, Versions, WriterInv
<1>12. NoStrayArtifact'
  BY ResumeAssumption, IdleTyped DEF IInv, DropJournal, End, Fault, At, RequestsTyped,
     Request, DiskTyped, NoStrayArtifact, StoreInv, CleanInv, CommitInv, DrawnInv,
     DraftTyped, Committed, Mine, FilesOf, Formats, Versions
<1>. QED BY <1>1, <1>2, <1>3, <1>4, <1>5, <1>6, <1>7, <1>8, <1>9, <1>10, <1>11, <1>12
   DEF IInv

LEMMA UnlinkStep ==
  ASSUME IInv, NEW r \in Requests, Unlink(r)
  PROVE  IInv'
<1>1. RowsTyped'
  BY DEF Unlink, IInv, RowsTyped
<1>2. DraftTyped'
  BY ResumeAssumption, IdleTyped DEF IInv, Unlink, End, Mine, FilesOf, Fault, Release, At,
     DraftTyped, RowsTyped, Row, RequestsTyped, Request, DrawnInv, Contents
<1>3. DiskTyped'
  BY ResumeAssumption, IdleTyped DEF IInv, Unlink, End, Mine, FilesOf, Fault, Release, At,
     DiskTyped, Versions, RequestsTyped, Request, DrawnInv, DraftTyped
<1>4. RequestsTyped'
  BY ResumeAssumption, EndTyped DEF IInv, Unlink, Mine, FilesOf, Fault, Release, At,
     RequestsTyped, Request, Places, Contents, Versions, DraftTyped, Formats, DrawnInv
<1>5. WriterInv'
  BY ResumeAssumption, IdleTyped DEF IInv, Unlink, End, Mine, FilesOf, Fault, Release, At,
     WriterInv, RequestsTyped, Request
<1>6. RevInv'
  BY ResumeAssumption, IdleTyped DEF IInv, Unlink, End, Mine, FilesOf, Fault, Release, At,
     DraftTyped, RequestsTyped, Request, RevInv, Idle
<1>7. DrawnInv'
  BY ResumeAssumption, IdleTyped DEF IInv, Unlink, End, Mine, FilesOf, Fault, Release, At,
     DraftTyped, RequestsTyped, Request, WriterInv, DrawnInv, Committed, Versions
<1>8. SnapshotInv'
  BY ResumeAssumption, IdleTyped DEF IInv, Unlink, End, Mine, FilesOf, Fault, Release, At,
     RequestsTyped, Request, DraftTyped, WriterInv, SnapshotInv, SnapshotCurrent, Visible
<1>9. StoreInv'
  BY ResumeAssumption, IdleTyped DEF IInv, Unlink, End, Mine, FilesOf, Fault, Release, At,
     RequestsTyped, Request, WriterInv, StoreInv, DrawnInv, DraftTyped, Committed,
     Formats, Versions
<1>10. CleanInv'
  BY ResumeAssumption, IdleTyped DEF IInv, Unlink, End, Mine, FilesOf, Fault, Release, At,
     RequestsTyped, Request, CleanInv, StoreInv, DrawnInv, DraftTyped, Committed, Formats,
     Versions, WriterInv
<1>11. CommitInv'
  BY ResumeAssumption, IdleTyped DEF IInv, Unlink, End, Mine, FilesOf, Fault, Release, At,
     RequestsTyped, Request, CommitInv, StoreInv, DrawnInv, DraftTyped, Committed,
     Formats, Versions, WriterInv
<1>12. NoStrayArtifact'
  BY ResumeAssumption, IdleTyped DEF IInv, Unlink, End, Mine, FilesOf, Fault, Release, At,
     RequestsTyped, Request, DiskTyped, NoStrayArtifact, StoreInv, CleanInv, CommitInv,
     DrawnInv, DraftTyped, Committed, Formats, Versions
<1>. QED BY <1>1, <1>2, <1>3, <1>4, <1>5, <1>6, <1>7, <1>8, <1>9, <1>10, <1>11, <1>12
   DEF IInv

LEMMA DeleteRowStep ==
  ASSUME IInv, NEW r \in Requests, DeleteRow(r)
  PROVE  IInv'
<1>1. DiskTyped'
  BY DEF DeleteRow, IInv, DiskTyped
<1>2. DraftTyped'
  <2>1. draft' \in [exists : BOOLEAN, rev : Nat, content : Contents, marked : BOOLEAN,
                    overwritten : BOOLEAN]
    BY DEF DeleteRow, IInv, DraftTyped
  <2>. QED BY <2>1, ResumeAssumption DEF DeleteRow, Fault, IInv, DraftTyped
<1>3. RowsTyped'
  BY ResumeAssumption, IdleTyped DEF IInv, DeleteRow, End, Release, Fault, Mine, FilesOf,
     At, RowsTyped, Row, RequestsTyped, Request, StoreInv, DrawnInv, Committed
<1>4. RequestsTyped'
  BY ResumeAssumption, EndTyped DEF IInv, DeleteRow, Release, Fault, Mine, FilesOf, At,
     RequestsTyped, Request, Places, Contents, Versions, DraftTyped, Formats, DrawnInv
<1>5. WriterInv'
  BY ResumeAssumption, IdleTyped DEF IInv, DeleteRow, End, Release, Fault, Mine, FilesOf,
     At, WriterInv, RequestsTyped, Request
<1>6. RevInv'
  BY ResumeAssumption, IdleTyped DEF IInv, DeleteRow, End, Release, Fault, Mine, FilesOf,
     At, DraftTyped, RequestsTyped, Request, RevInv, Idle
<1>7. DrawnInv'
  BY ResumeAssumption, IdleTyped DEF IInv, DeleteRow, End, Release, Fault, Mine, FilesOf,
     At, DraftTyped, RequestsTyped, Request, WriterInv, DrawnInv, Committed, Versions
<1>8. SnapshotInv'
  BY ResumeAssumption, IdleTyped DEF IInv, DeleteRow, End, Release, Fault, Mine, FilesOf,
     At, RequestsTyped, Request, DraftTyped, WriterInv, SnapshotInv, SnapshotCurrent,
     Visible
<1>9. StoreInv'
  BY ResumeAssumption, IdleTyped DEF IInv, DeleteRow, End, Release, Fault, Mine, FilesOf,
     At, RequestsTyped, Request, WriterInv, StoreInv, DrawnInv, DraftTyped, Committed,
     Formats, Versions
<1>10. CleanInv'
  <2>1. \A q \in Requests : op'[q] = op[q] \/ op'[q].at = "idle"
    BY IdleTyped DEF DeleteRow, End, IInv, RequestsTyped
  <2>2. Committed' \subseteq Committed /\ UNCHANGED files
    BY DEF DeleteRow, Committed
  <2>. QED BY <2>1, <2>2 DEF IInv, CleanInv
<1>11. CommitInv'
  <2>1. \A q \in Requests : op'[q] = op[q] \/ op'[q].at = "idle"
    BY IdleTyped DEF DeleteRow, End, IInv, RequestsTyped
  <2>2. \A v \in Committed : Mine(v) = {}
    BY DEF DeleteRow
  <2>3. ASSUME NEW v, v \in Committed \/ Mine(v) = {}
        PROVE  v \in Committed' \/ Mine(v)' = {}
    <3>1. UNCHANGED files /\ (UNCHANGED versions \/ versions' = {})
      BY DEF DeleteRow
    <3>2. CASE UNCHANGED versions
      BY <2>3, <3>1, <3>2 DEF Mine, Committed
    <3>3. CASE versions' = {}
      BY <2>2, <2>3, <3>1 DEF Mine
    <3>. QED BY <3>1, <3>2, <3>3
  <2>. QED BY <2>1, <2>3 DEF IInv, CommitInv
<1>12. NoStrayArtifact'
  <2>1. CASE UNCHANGED versions
    BY <2>1 DEF DeleteRow, IInv, NoStrayArtifact, Committed
  <2>2. CASE versions' = {}
    <3>1. ASSUME NEW file \in files PROVE file[1] \in journals
      <4>1. file = <<file[1], file[2]>> /\ file[2] \in Formats
        BY DEF IInv, DiskTyped
      <4>2. file \in FilesOf(file[1])
        BY <4>1 DEF FilesOf
      <4>. QED BY <4>2 DEF DeleteRow, IInv, NoStrayArtifact, Mine
    <3>. QED BY <3>1 DEF DeleteRow, NoStrayArtifact
  <2>. QED BY <2>1, <2>2 DEF DeleteRow
<1>. QED BY <1>1, <1>2, <1>3, <1>4, <1>5, <1>6, <1>7, <1>8, <1>9, <1>10, <1>11, <1>12
   DEF IInv

-----------------------------------------------------------------------------
(* The invariant and the properties                                        *)

LEMMA InitInv ==
  ASSUME Init
  PROVE  IInv
<1>1. DraftTyped /\ RowsTyped /\ DiskTyped
  BY ResumeAssumption DEF Init, DraftTyped, RowsTyped, DiskTyped, Contents
<1>2. RequestsTyped
  BY IdleTyped DEF Init, RequestsTyped
<1>3. WriterInv
  BY ResumeAssumption, IdleTyped DEF Init, WriterInv
<1>4. RevInv /\ DrawnInv
  BY ResumeAssumption, IdleTyped DEF Init, RevInv, DrawnInv, Committed, Idle
<1>5. SnapshotInv /\ StoreInv /\ CleanInv /\ CommitInv /\ NoStrayArtifact
  BY IdleTyped DEF Init, SnapshotInv, StoreInv, CleanInv, CommitInv, NoStrayArtifact
<1>. QED BY <1>1, <1>2, <1>3, <1>4, <1>5 DEF IInv

LEMMA StepInv ==
  ASSUME IInv, [Next]_vars
  PROVE  IInv'
<1>1. CASE UNCHANGED vars
  <2>1. UNCHANGED <<draft, profileRev, versions, files, journals, writer, op, edits, drawn, faults>>
    BY <1>1 DEF vars
  <2>2. DraftTyped' /\ RequestsTyped' /\ WriterInv' /\ RevInv' /\ SnapshotInv'
    BY <2>1 DEF IInv, DraftTyped, RequestsTyped, WriterInv, RevInv, SnapshotInv,
       SnapshotCurrent, Visible
  <2>. QED BY <2>1, <2>2, RestStep DEF IInv
<1>2. ASSUME NEW r \in Requests, Publish(r) PROVE IInv'
  BY <1>2, RenderStep, LockPublishStateStep, WriteJournalStep, StoreStep, StoreFailsStep,
     CommitStep, ExamineStep, CleanFileStep, DropJournalStep DEF Publish
<1>3. ASSUME NEW r \in Requests, Delete(r) PROVE IInv'
  BY <1>3, BeginDeleteStep, MarkStep, ReopenStep, UnlinkStep, DeleteRowStep DEF Delete
<1>4. ASSUME NEW r \in Requests, Synchronize(r) \/ Profile(r) PROVE IInv'
  BY <1>4, ReadForSyncStep, WriteSyncStep, ReadProfileStep, SaveProfileStep
     DEF Synchronize, Profile
<1>5. ASSUME NEW r \in Requests, Recover(r) \/ RecoverFails(r) \/ Busy(r) PROVE IInv'
  BY <1>5, RecoverStep, RecoverFailsStep, BusyStep
<1>. QED BY <1>1, <1>2, <1>3, <1>4, <1>5, UpdateStep, PromoteStep, CrashStep DEF Next

LEMMA SpecInv == Spec => []IInv
<1>1. Init => IInv
  BY InitInv
<1>2. IInv /\ [Next]_vars => IInv'
  BY StepInv
<1>. QED BY <1>1, <1>2, PTL DEF Spec

-----------------------------------------------------------------------------
(* What was rendered, and what the draft says                              *)

\* Where a request carries what it rendered of the draft.
Renders == {"rendered", "recover", "storing"}

\* Until a synchronisation overwrites an edit no revision is given twice: nobody has
\* read a later one than the draft's, and who rendered that one rendered its content.
ContentInv ==
  ~draft.overwritten =>
    \A r \in Requests :
      /\ op[r].at \in Renders \cup {"sync"} => op[r].rev <= draft.rev
      /\ op[r].at \in Renders /\ op[r].rev = draft.rev => op[r].content = draft.content

\* A request keeps what it read, or carries it no more.
Carries(q) ==
  \/ op'[q] = op[q]
  \/ op'[q].at \notin Renders \cup {"sync"}
  \/ /\ op[q].at \in Renders /\ op'[q].at \in Renders
     /\ op'[q].rev = op[q].rev /\ op'[q].content = op[q].content

LEMMA SameRevision ==
  ASSUME ContentInv, \A q \in Requests : Carries(q),
         draft'.rev = draft.rev, draft'.content = draft.content,
         draft'.overwritten = draft.overwritten
  PROVE  ContentInv'
BY DEF ContentInv, Carries, Renders

LEMMA NextRevision ==
  ASSUME IInv, ContentInv, \A q \in Requests : Carries(q),
         ~draft'.overwritten => ~draft.overwritten /\ draft'.rev = draft.rev + 1
  PROVE  ContentInv'
<1>1. draft.rev \in Nat /\ \A q \in Requests : op[q].rev \in Nat
  BY DEF IInv, DraftTyped, RequestsTyped, Request
<1>. QED BY <1>1 DEF ContentInv, Carries, Renders

\* The draft and the request itself are what a rendering or a synchronisation reads.
LEMMA ReadContent ==
  ASSUME IInv, ContentInv, NEW r \in Requests, ReadForSync(r) \/ Render(r)
  PROVE  ContentInv'
<1>1. UNCHANGED draft /\ \A q \in Requests \ {r} : op'[q] = op[q]
  BY DEF ReadForSync, Render, Start, IInv, RequestsTyped
<1>2. op'[r].rev = draft.rev /\ (op'[r].at = "sync" \/ op'[r].content = draft.content)
  BY DEF ReadForSync, Render, Start, IInv, RequestsTyped
<1>3. draft.rev \in Nat
  BY DEF IInv, DraftTyped
<1>. QED BY <1>1, <1>2, <1>3 DEF ContentInv, Renders

\* The normalised canvas written at the commit is the content the draft has already.
LEMMA CommitContent ==
  ASSUME IInv, ContentInv, NEW r \in Requests, Commit(r)
  PROVE  ContentInv'
<1>1. op[r].at = "storing" /\ op[r].rev = draft.rev
  BY DEF Commit, At, IInv, SnapshotInv, SnapshotCurrent
<1>2. \A q \in Requests : Carries(q)
  BY DEF Commit, Go, IInv, RequestsTyped, Request, Carries, Renders
<1>3. CASE UNCHANGED draft
  BY <1>2, <1>3, SameRevision
<1>4. CASE draft' = [draft EXCEPT !.content = op[r].content]
  <2>1. draft'.rev = draft.rev /\ draft'.overwritten = draft.overwritten
        /\ draft'.content = op[r].content
    BY <1>4 DEF IInv, DraftTyped
  <2>2. CASE draft.overwritten
    BY <2>1, <2>2 DEF ContentInv
  <2>3. CASE ~draft.overwritten
    <3>1. op[r].content = draft.content
      BY <1>1, <2>3 DEF ContentInv, Renders
    <3>. QED BY <1>2, <2>1, <3>1, SameRevision
  <2>. QED BY <2>2, <2>3
<1>. QED BY <1>3, <1>4 DEF Commit

LEMMA EditContent ==
  ASSUME IInv, ContentInv, Update \/ Promote
  PROVE  ContentInv'
<1>1. \A q \in Requests : Carries(q)
  BY DEF Update, Promote, Carries
<1>2. draft'.overwritten = draft.overwritten /\ draft'.rev = draft.rev + 1
  BY DEF Update, Promote, IInv, DraftTyped
<1>. QED BY <1>1, <1>2, NextRevision

LEMMA SyncContent ==
  ASSUME IInv, ContentInv, NEW r \in Requests, WriteSync(r)
  PROVE  ContentInv'
<1>1. \A q \in Requests : Carries(q)
  BY IdleTyped DEF WriteSync, End, IInv, RequestsTyped, Carries, Renders
<1>2. CASE UNCHANGED draft
  BY <1>1, <1>2, SameRevision
<1>3. CASE ~UNCHANGED draft
  <2>1. PICK context \in {draft.marked, FALSE} :
          draft' = [draft EXCEPT !.rev = op[r].rev + 1, !.content = edits',
                                 !.marked = context,
                                 !.overwritten = @ \/ draft.rev # op[r].rev]
    BY <1>3 DEF WriteSync
  <2>2. /\ draft'.rev = op[r].rev + 1
        /\ draft'.overwritten = (draft.overwritten \/ draft.rev # op[r].rev)
    BY <2>1 DEF IInv, DraftTyped
  <2>. QED BY <1>1, <2>2, NextRevision
<1>. QED BY <1>2, <1>3

LEMMA DeleteContent ==
  ASSUME IInv, ContentInv, NEW r \in Requests, Delete(r)
  PROVE  ContentInv'
<1>1. \A q \in Requests : Carries(q)
  <2>1. CASE BeginDelete(r) \/ Reopen(r) \/ Mark(r)
    <3>1. \A q \in Requests \ {r} : op'[q] = op[q]
      BY <2>1 DEF BeginDelete, Reopen, Mark, Start, Go, End, IInv, RequestsTyped
    <3>2. op'[r].at \in {"deleting", "unlinking", "marked", "idle"}
      BY <2>1, IdleTyped DEF BeginDelete, Reopen, Mark, Start, Go, End, IInv,
         RequestsTyped, Request
    <3>. QED BY <3>1, <3>2 DEF Carries, Renders
  <2>2. CASE Unlink(r) \/ DeleteRow(r)
    BY <2>2, IdleTyped DEF Unlink, DeleteRow, End, IInv, RequestsTyped, Carries, Renders
  <2>. QED BY <2>1, <2>2 DEF Delete
<1>2. CASE draft' = [draft EXCEPT !.marked = TRUE, !.rev = @ + 1]
  <2>1. draft'.overwritten = draft.overwritten /\ draft'.rev = draft.rev + 1
    BY <1>2 DEF IInv, DraftTyped
  <2>. QED BY <1>1, <2>1, NextRevision
<1>3. CASE UNCHANGED draft \/ draft' = [draft EXCEPT !.exists = FALSE]
  <2>1. /\ draft'.rev = draft.rev /\ draft'.content = draft.content
        /\ draft'.overwritten = draft.overwritten
    BY <1>3 DEF IInv, DraftTyped
  <2>. QED BY <1>1, <2>1, SameRevision
<1>. QED BY <1>2, <1>3 DEF Delete, BeginDelete, Mark, Reopen, Unlink, DeleteRow

LEMMA PublishContent ==
  ASSUME IInv, ContentInv, NEW r \in Requests, Publish(r)
  PROVE  ContentInv'
<1>1. CASE Render(r) \/ Commit(r)
  BY <1>1, ReadContent, CommitContent
<1>2. CASE ~Render(r) /\ ~Commit(r)
  <2>1. UNCHANGED draft
    BY <1>2 DEF Publish, LockPublishState, WriteJournal, Store, StoreFails, Examine,
       CleanFile, DropJournal
  <2>2. \A q \in Requests \ {r} : op'[q] = op[q]
    BY <1>2 DEF Publish, LockPublishState, WriteJournal, Store, StoreFails, Examine,
       CleanFile, DropJournal, Go, End, IInv, RequestsTyped
  <2>3. Carries(r)
    <3>1. CASE LockPublishState(r) \/ WriteJournal(r) \/ Store(r)
      BY <3>1, IdleTyped DEF LockPublishState, WriteJournal, Store, At, Go, End, IInv,
         RequestsTyped, Request, Carries, Renders
    <3>2. CASE StoreFails(r) \/ Examine(r) \/ DropJournal(r)
      BY <3>2, IdleTyped DEF StoreFails, Examine, DropJournal, Go, End, IInv, RequestsTyped,
         Request, Carries, Renders
    <3>3. CASE CleanFile(r)
      <4>1. op'[r].at = "clean"
        BY <3>3 DEF CleanFile, At, IInv, RequestsTyped, Request
      <4>. QED BY <4>1 DEF Carries, Renders
    <3>. QED BY <1>2, <3>1, <3>2, <3>3 DEF Publish
  <2>. QED BY <2>1, <2>2, <2>3, SameRevision DEF Carries
<1>. QED BY <1>1, <1>2

LEMMA ContentStep ==
  ASSUME IInv, ContentInv, [Next]_vars
  PROVE  ContentInv'
<1>1. CASE UNCHANGED vars
  BY <1>1, SameRevision DEF vars, Carries
<1>2. CASE Crash
  BY <1>2, IdleTyped, SameRevision DEF Crash, Carries, Renders
<1>3. ASSUME NEW r \in Requests,
             Profile(r) \/ Recover(r) \/ RecoverFails(r) \/ Busy(r)
      PROVE  ContentInv'
  <2>1. UNCHANGED draft
    BY <1>3 DEF Profile, ReadProfile, SaveProfile, Recover, RecoverFails, Busy
  <2>2. \A q \in Requests : Carries(q)
    BY <1>3, IdleTyped DEF Profile, ReadProfile, SaveProfile, Recover, RecoverFails, Busy,
       Start, End, IInv, RequestsTyped, Carries, Renders
  <2>. QED BY <2>1, <2>2, SameRevision
<1>. QED BY <1>1, <1>2, <1>3, EditContent, PublishContent, DeleteContent, ReadContent,
            SyncContent DEF Next, Synchronize

LEMMA SpecContent == Spec => []ContentInv
<1>1. Init => ContentInv
  BY IdleTyped DEF Init, ContentInv, Renders
<1>2. IInv /\ ContentInv /\ [Next]_vars => ContentInv'
  BY ContentStep
<1>. QED BY <1>1, <1>2, SpecInv, PTL DEF Spec

-----------------------------------------------------------------------------
(* The theorems                                                            *)

\* Draft, rows, files, journals and requests stay well typed, and SQLite's writer is
\* held by exactly the request that stands between its reservation and its end.
THEOREM ResumeTypeCorrect == Spec => []TypeOK
<1>1. IInv => TypeOK
  BY TypeParts DEF IInv
<1>. QED BY <1>1, SpecInv, PTL

\* Every artifact on disk belongs to a committed version or is claimed by a journal,
\* through crashes, failed cleanups and commits that report a failure.
THEOREM ArtifactsAreOwned == Spec => []NoStrayArtifact
<1>1. IInv => NoStrayArtifact
  BY DEF IInv
<1>. QED BY <1>1, SpecInv, PTL

\* Who removes a file: a reconciliation or a cleanup of a version that is not
\* committed, or a deletion.
LEMMA WhoRemoves ==
  ASSUME IInv, [Next]_vars, ~(files \subseteq files')
  PROVE  \/ \E r \in Requests : At(r, "unlinking")
         \/ \E v \in Versions : v \notin Committed /\ files \ files' \subseteq FilesOf(v)
<1>1. CASE UNCHANGED vars
  BY <1>1 DEF vars
<1>2. ASSUME NEW r \in Requests, Recover(r)
      PROVE  \E v \in Versions : v \notin Committed /\ files \ files' \subseteq FilesOf(v)
  BY <1>2 DEF Recover, Claimed, Mine, IInv, DiskTyped
<1>3. ASSUME NEW r \in Requests, CleanFile(r)
      PROVE  \E v \in Versions : v \notin Committed /\ files \ files' \subseteq FilesOf(v)
  <2>1. op[r].version \in Versions /\ op[r].version \notin Committed
    BY <1>3 DEF CleanFile, At, IInv, CleanInv, DrawnInv, RequestsTyped, Request
  <2>2. op[r].todo \subseteq Formats
    BY DEF IInv, RequestsTyped, Request
  <2>. QED BY <1>3, <2>1, <2>2 DEF CleanFile, FilesOf
<1>4. ASSUME NEW r \in Requests, Publish(r), ~CleanFile(r) PROVE FALSE
  BY <1>4 DEF Publish, Render, LockPublishState, WriteJournal, Store, StoreFails, Commit,
     Examine, DropJournal
<1>5. ASSUME NEW r \in Requests, Delete(r) PROVE At(r, "unlinking")
  BY <1>5 DEF Delete, BeginDelete, Mark, Reopen, Unlink, DeleteRow
<1>6. ASSUME NEW r \in Requests,
             Synchronize(r) \/ Profile(r) \/ RecoverFails(r) \/ Busy(r)
      PROVE  FALSE
  BY <1>6 DEF Synchronize, Profile, ReadForSync, WriteSync, ReadProfile, SaveProfile,
     RecoverFails, Busy
<1>7. ASSUME Update \/ Promote \/ Crash PROVE FALSE
  BY <1>7 DEF Update, Promote, Crash
<1>. QED BY <1>1, <1>2, <1>3, <1>4, <1>5, <1>6, <1>7 DEF Next

\* Rows of versions come from a commit and go with the draft.
LEMMA WhoWrites ==
  ASSUME IInv, [Next]_vars, versions' # versions
  PROVE  \E r \in Requests :
           \/ Commit(r) /\ versions' = versions \cup {NewRow(r)}
           \/ DeleteRow(r) /\ versions' = {} /\ ~draft'.exists
<1>1. CASE UNCHANGED vars
  BY <1>1 DEF vars
<1>2. ASSUME NEW r \in Requests, Publish(r)
      PROVE  Commit(r) /\ versions' = versions \cup {NewRow(r)}
  BY <1>2 DEF Publish, Render, LockPublishState, WriteJournal, Store, StoreFails, Commit,
     Examine, CleanFile, DropJournal
<1>3. ASSUME NEW r \in Requests, Delete(r)
      PROVE  DeleteRow(r) /\ versions' = {} /\ ~draft'.exists
  BY <1>3 DEF Delete, BeginDelete, Mark, Reopen, Unlink, DeleteRow, IInv, DraftTyped
<1>4. ASSUME NEW r \in Requests,
             Synchronize(r) \/ Profile(r) \/ Recover(r) \/ RecoverFails(r) \/ Busy(r)
      PROVE  FALSE
  BY <1>4 DEF Synchronize, Profile, ReadForSync, WriteSync, ReadProfile, SaveProfile,
     Recover, RecoverFails, Busy
<1>5. ASSUME Update \/ Promote \/ Crash PROVE FALSE
  BY <1>5 DEF Update, Promote, Crash
<1>. QED BY <1>1, <1>2, <1>3, <1>4, <1>5 DEF Next

\* No reconciliation, cleanup after an ambiguous commit or other publication takes a
\* file of a committed version, and its row goes with the draft only.
THEOREM CommittedVersionsKept == Spec => VersionFilesKept
<1>1. ASSUME IInv, [Next]_vars, NEW x \in versions
      PROVE  /\ FilesOf(x.id) \cap files \subseteq files' \/ \E r \in Requests : At(r, "unlinking")
             /\ x \in versions' \/ ~draft'.exists
  <2>1. ASSUME NEW v, v \notin Committed PROVE FilesOf(v) \cap FilesOf(x.id) = {}
    BY <2>1 DEF Committed, FilesOf
  <2>2. FilesOf(x.id) \cap files \subseteq files' \/ \E r \in Requests : At(r, "unlinking")
    BY <1>1, <2>1, WhoRemoves
  <2>3. x \in versions' \/ ~draft'.exists
    BY <1>1, WhoWrites
  <2>. QED BY <2>2, <2>3
<1>2. IInv /\ [Next]_vars =>
        [\A x \in versions :
           /\ FilesOf(x.id) \cap files \subseteq files' \/ \E r \in Requests : At(r, "unlinking")
           /\ x \in versions' \/ ~draft'.exists]_vars
  BY <1>1
<1>. QED BY <1>2, SpecInv, PTL DEF Spec, VersionFilesKept

\* A version appears with both its files, carries the revisions that draft and profile
\* have at the commit, however long it rendered, and shows what the draft says then
\* unless a synchronisation had overwritten an edit and given a revision twice.
THEOREM PublishedWhole == Spec => PublishedCurrentAndWhole
<1>1. ASSUME IInv, ContentInv, [Next]_vars, NEW x \in versions' \ versions
      PROVE  /\ FilesOf(x.id) \subseteq files'
             /\ Visible /\ x.rev = draft.rev /\ x.profile = profileRev
             /\ draft.overwritten \/ x.content = draft.content
  <2>1. PICK r \in Requests : Commit(r) /\ versions' = versions \cup {NewRow(r)}
    BY <1>1, WhoWrites
  <2>2. x = NewRow(r) /\ At(r, "storing") /\ op[r].todo = {} /\ UNCHANGED files
    BY <2>1 DEF Commit
  <2>3. FilesOf(x.id) \subseteq files'
    BY <1>1, <2>2 DEF At, NewRow, FilesOf, IInv, StoreInv
  <2>4. SnapshotCurrent(r)
    BY <1>1, <2>2 DEF At, IInv, SnapshotInv
  <2>5. draft.overwritten \/ op[r].content = draft.content
    BY <1>1, <2>2, <2>4 DEF At, ContentInv, Renders, SnapshotCurrent
  <2>. QED BY <2>2, <2>3, <2>4, <2>5 DEF SnapshotCurrent, NewRow
<1>2. IInv /\ ContentInv /\ [Next]_vars =>
        [\A x \in versions' \ versions :
           /\ FilesOf(x.id) \subseteq files'
           /\ Visible /\ x.rev = draft.rev /\ x.profile = profileRev
           /\ draft.overwritten \/ x.content = draft.content]_vars
  BY <1>1
<1>. QED BY <1>2, SpecInv, SpecContent, PTL DEF Spec, PublishedCurrentAndWhole

=============================================================================
