---------------------------- MODULE Applications ----------------------------
(***************************************************************************)
(* One job application: an append-only timeline of events, the row that    *)
(* projects it onto the board, the dossier draft bound to a resume, and    *)
(* the packets published from it (backend/applications/service.py,         *)
(* dossier_drafts.py, dossier_publication.py, packet_storage.py).          *)
(* Requests that edit the timeline read the row, then the events, and then *)
(* write under a compare-and-swap of the revision; nothing is locked in    *)
(* between.  A publication holds the vault lock throughout and SQLite's    *)
(* writer until its commit; its file is claimed by a journal first.        *)
(***************************************************************************)
EXTENDS Naturals, Sequences, FiniteSets

CONSTANTS Requests,    \* requests in progress at a time
          Stages,      \* the stages in play
          Contents,    \* what a dossier draft may say
          MaxSteps,    \* events, edits and faults together
          MaxRank,     \* due dates and priorities of tasks
          None

ASSUME ApplicationsAssumption ==
  /\ None \notin Requests \cup Stages \cup Contents
  /\ "saved" \in Stages
  /\ {MaxRank, MaxSteps} \subseteq Nat

VARIABLES
  app,       \* the Application row; rev = 0 while there is none
  log,       \* its ApplicationEvent rows, in the order they were committed
  draft,     \* the ApplicationDossierDraft row, or None
  packets,   \* the ApplicationPacketArtifact rows
  files,     \* packet files on disk, by dossier
  journals,  \* packet journals on disk, by dossier
  resume,    \* the resume draft: its revision and the profile revision it follows
  profile,   \* CandidateProfile.revision
  published, \* the committed versions of the resume: <<revision, profile revision>>
  op,        \* what each request is doing
  edits, faults

resumeVars == <<resume, profile, published>>
diskVars == <<files, journals>>
vars == <<app, log, draft, packets, files, journals, resume, profile, published, op,
          edits, faults>>

Dossiers == 1..MaxSteps
Ranks == 1..MaxRank

TRANSITIONS ==
  [saved     |-> {"preparing", "applied", "withdrawn", "archived"},
   preparing |-> {"saved", "applied", "withdrawn", "archived"},
   applied   |-> {"screening", "interview", "rejected", "withdrawn", "archived"},
   screening |-> {"interview", "offer", "rejected", "withdrawn", "archived"},
   interview |-> {"interview", "offer", "rejected", "withdrawn", "archived"},
   offer     |-> {"accepted", "rejected", "withdrawn", "archived"},
   accepted  |-> {"archived"}, rejected |-> {"archived"}, withdrawn |-> {"archived"},
   archived  |-> {}]

-----------------------------------------------------------------------------
(* Tasks, as their events tell them                                        *)

\* A task is born in one event and carries its whole state, with the next revision,
\* in every later one; the last revision is the task.
Tasks(events) ==
  LET told == {events[i].task : i \in {j \in DOMAIN events : events[j].kind = "task"}}
  IN  {t \in told : \A u \in told : u.id = t.id => u.rev =< t.rev}

\* Pending tasks by due date and priority, then by age.
Before(t, u) == t.rank < u.rank \/ (t.rank = u.rank /\ t.id =< u.id)
NextAction(tasks) ==
  LET pending == {t \in tasks : t.status = "pending"}
  IN  IF pending = {} THEN None
      ELSE LET t == CHOOSE t \in pending : \A u \in pending : Before(t, u)
           IN  [id |-> t.id, rank |-> t.rank]

StageEvent(stage) == [kind |-> "stage", stage |-> stage]
TaskEvent(task) == [kind |-> "task", task |-> task]
DossierEvent(d, number) == [kind |-> "dossier", dossier |-> d, number |-> number]
Note == [kind |-> "note"]

\* The events of publications, and the dossiers that have a packet.
Numbered(events) == {i \in DOMAIN events : events[i].kind = "dossier"}
Packed == {p.dossier : p \in packets}

-----------------------------------------------------------------------------
\* What a request is doing, and what it has read, decided or claimed for that.
Doing(place, rev, seen, drafted, content, version, dossier) ==
  [at |-> place, rev |-> rev, seen |-> seen, draft |-> drafted, content |-> content,
   version |-> version, dossier |-> dossier]
Idle == Doing("idle", 0, 0, 0, None, None, 0)

Versions == Nat \X Nat
Task == [id : Dossiers, rev : Dossiers, status : {"pending", "closed"}, rank : Ranks]

TypeOK ==
  /\ app \in [rev : 0..MaxSteps, stage : Stages, next : {None} \cup [id : Dossiers, rank : Ranks],
              version : Versions \cup {None}]
  /\ \A i \in DOMAIN log :
       \/ log[i] = Note
       \/ \E stage \in Stages : log[i] = StageEvent(stage)
       \/ log[i].kind = "task" /\ log[i].task \in Task
       \/ \E d, number \in Dossiers : log[i] = DossierEvent(d, number)
  /\ draft \in {None} \cup [rev : Dossiers, app : Dossiers, content : Contents,
                            to : {"version", "resume"}, version : Versions]
  /\ packets \subseteq [dossier : Dossiers, content : Contents]
  /\ files \cup journals \subseteq Dossiers
  /\ resume \in [rev : Nat, profile : Nat] /\ profile \in Nat /\ published \subseteq Versions
  /\ op \in [Requests -> [at : {"idle", "row", "events", "decided", "recover", "claimed",
                               "stored", "unknown", "committed", "abort", "again"},
                         rev : 0..MaxSteps, seen : 0..MaxSteps, draft : 0..MaxSteps,
                         content : Contents \cup {None}, version : Versions \cup {None},
                         dossier : Dossiers \cup {0}]]
  /\ {edits, faults} \subseteq 0..MaxSteps

Init ==
  /\ app = [rev |-> 0, stage |-> "saved", next |-> None, version |-> None]
  /\ log = <<>> /\ draft = None /\ packets = {} /\ files = {} /\ journals = {}
  /\ resume = [rev |-> 1, profile |-> 1] /\ profile = 1 /\ published = {}
  /\ op = [r \in Requests |-> Idle] /\ edits = 0 /\ faults = 0

At(r, place) == op[r].at = place
Go(r, place) == op' = [op EXCEPT ![r].at = place]
End(r) == op' = [op EXCEPT ![r] = Idle]
Retreat(r) == op' = [op EXCEPT ![r] = Doing("abort", 0, 0, 0, None, None, 0)]
Leave(r, place) == op' = [op EXCEPT ![r] = Doing(place, 0, 0, 0, None, None, op[r].dossier)]

\* Events, saves and changes, failed steps and crashes are counted together.
Room == Len(log) + edits + faults < MaxSteps
Fault == Room /\ faults' = faults + 1

\* SQLite's writer is reserved by a publication between BEGIN IMMEDIATE and its end.
Writing(r) == op[r].at \in {"recover", "claimed", "stored", "again"}
Publishing(r) == Writing(r) \/ op[r].at \in {"unknown", "committed", "abort"}
WriterFree == \A r \in Requests : ~Writing(r)
VaultFree == \A r \in Requests : ~Publishing(r)

\* A row's revision counts its events: whoever appends one moves it on.
Append1(event, row) == log' = Append(log, event) /\ app' = [row EXCEPT !.rev = app.rev + 1]

-----------------------------------------------------------------------------
(* The timeline                                                            *)

\* The unique keys of the row let one creation through; a reviewed discovery of an
\* agent creates "saved" applications in the same way.
Create ==
  /\ WriterFree /\ app.rev = 0 /\ Room
  /\ \E stage \in Stages \cap {"saved", "preparing", "applied"}, v \in published \cup {None} :
       Append1(StageEvent(stage), [rev |-> 0, stage |-> stage, next |-> None, version |-> v])
  /\ UNCHANGED <<draft, packets, diskVars, resumeVars, op, edits, faults>>

\* An agent's discovery that meets the vacancy again notes it, in one transaction.
Observe ==
  /\ WriterFree /\ app.rev > 0 /\ Room /\ Append1(Note, app)
  /\ UNCHANGED <<draft, packets, diskVars, resumeVars, op, edits, faults>>

\* The row that the request edits, as shown to its author.
ReadRow(r) ==
  /\ At(r, "idle") /\ app.rev > 0 /\ Room
  /\ op' = [op EXCEPT ![r] = Doing("row", app.rev, 0, 0, None, None, 0)]
  /\ UNCHANGED <<app, log, draft, packets, diskVars, resumeVars, edits, faults>>

\* The events are a second read, of what is committed by then.
ReadEvents(r) ==
  /\ At(r, "row")
  /\ op' = [op EXCEPT ![r] = Doing("events", op[r].rev, Len(log), 0, None, None, 0)]
  /\ UNCHANGED <<app, log, draft, packets, diskVars, resumeVars, edits, faults>>

\* Fault: the update does not compare the revision.
Wins_Always(r) == WriterFree /\ At(r, "events")

\* UPDATE ... WHERE revision = the revision that was read.
Wins(r) == WriterFree /\ At(r, "events") /\ app.rev = op[r].rev

\* The revision moved on, or the writer stayed busy: the request is refused.
Refused(r) ==
  /\ op[r].at \in {"row", "events"} /\ (app.rev # op[r].rev \/ ~WriterFree) /\ End(r)
  /\ UNCHANGED <<app, log, draft, packets, diskVars, resumeVars, edits, faults>>

Seen(r) == SubSeq(log, 1, op[r].seen)

AppendEvent(r) ==
  /\ Wins(r) /\ Room /\ End(r)
  /\ \/ Append1(Note, app)
     \/ \E stage \in Stages : /\ stage = app.stage \/ stage \in TRANSITIONS[app.stage]
                              /\ Append1(StageEvent(stage), [app EXCEPT !.stage = stage])
  /\ UNCHANGED <<draft, packets, diskVars, resumeVars, edits, faults>>

\* The snapshot of the job, or the linked resume, is edited.
UpdatePreparation(r) ==
  /\ Wins(r) /\ Room /\ End(r)
  /\ \E v \in published \cup {None, app.version} : Append1(Note, [app EXCEPT !.version = v])
  /\ UNCHANGED <<draft, packets, diskVars, resumeVars, edits, faults>>

CreateTask(r) ==
  /\ Wins(r) /\ Room /\ End(r)
  /\ \E rank \in Ranks :
       LET tasks == Tasks(Seen(r))
           task == [id |-> op[r].seen + 1, rev |-> 1, status |-> "pending", rank |-> rank]
       IN  Append1(TaskEvent(task), [app EXCEPT !.next = NextAction(tasks \cup {task})])
  /\ UNCHANGED <<draft, packets, diskVars, resumeVars, edits, faults>>

\* Fault: the projection is made of the tasks as they were before the change.
UpdateTask_Stale(r) ==
  /\ Wins(r) /\ Room /\ End(r)
  /\ \E task \in Tasks(Seen(r)), status \in {"pending", "closed"}, rank \in Ranks :
       LET changed == [task EXCEPT !.rev = @ + 1, !.status = status, !.rank = rank]
       IN  /\ status # task.status \/ rank # task.rank
           /\ Append1(TaskEvent(changed), [app EXCEPT !.next = NextAction(Tasks(Seen(r)))])
  /\ UNCHANGED <<draft, packets, diskVars, resumeVars, edits, faults>>

\* Completed, cancelled, reopened, or given another date or priority.
UpdateTask(r) ==
  /\ Wins(r) /\ Room /\ End(r)
  /\ \E task \in Tasks(Seen(r)), status \in {"pending", "closed"}, rank \in Ranks :
       LET changed == [task EXCEPT !.rev = @ + 1, !.status = status, !.rank = rank]
       IN  /\ status # task.status \/ rank # task.rank
           /\ Append1(TaskEvent(changed),
                [app EXCEPT !.next = NextAction((Tasks(Seen(r)) \ {task}) \cup {changed})])
  /\ UNCHANGED <<draft, packets, diskVars, resumeVars, edits, faults>>

-----------------------------------------------------------------------------
(* The resume the application uses                                         *)

Change == Room /\ edits' = edits + 1
ResumeExists == resume.rev > 0

\* An edit compares the revision.  A synchronisation compares nothing: it writes the
\* row back with the revision after the one it read, and the profile's of that time.
EditResume ==
  /\ WriterFree /\ ResumeExists /\ Change
  /\ \/ resume' = [resume EXCEPT !.rev = @ + 1]
     \/ \E read \in 1..resume.rev, follows \in 1..profile :
          resume' = [rev |-> read + 1, profile |-> follows]
  /\ UNCHANGED <<app, log, draft, packets, diskVars, profile, published, op, faults>>

\* The profile is saved in the same way.
EditProfile ==
  /\ WriterFree /\ Change /\ \E read \in 1..profile : profile' = read + 1
  /\ UNCHANGED <<app, log, draft, packets, diskVars, resume, published, op, faults>>

PublishResume ==
  /\ WriterFree /\ ResumeExists /\ published' = published \cup {<<resume.rev, profile>>}
  /\ UNCHANGED <<app, log, draft, packets, diskVars, resume, profile, op, edits, faults>>

\* The versions go with the resume, the dossier draft bound to either goes as well,
\* and the application keeps its revision while its link is cleared.
DeleteResume ==
  /\ WriterFree /\ ResumeExists /\ Change
  /\ resume' = [rev |-> 0, profile |-> 0] /\ published' = {} /\ draft' = None
  /\ app' = [app EXCEPT !.version = None]
  /\ UNCHANGED <<log, packets, diskVars, profile, op, faults>>

-----------------------------------------------------------------------------
(* The dossier draft                                                       *)

Saved(content, to, version) ==
  [rev |-> IF draft = None THEN 1 ELSE draft.rev + 1, app |-> app.rev, content |-> content,
   to |-> to, version |-> version]

\* Under the writer, against the current row and the current draft; anything else the
\* editor was shown is refused.
PutDraft ==
  /\ WriterFree /\ app.rev > 0 /\ Change
  /\ \E content \in Contents :
       \/ \E v \in published : app.version = v /\ draft' = Saved(content, "version", v)
       \/ /\ ResumeExists
          /\ draft' = Saved(content, "resume", <<resume.rev, resume.profile>>)
  /\ UNCHANGED <<app, log, packets, diskVars, resumeVars, op, faults>>

\* The owner accepts an agent's materials: resume and dossier draft in one transaction.
AcceptMaterials ==
  /\ WriterFree /\ app.rev > 0 /\ ResumeExists /\ Change
  /\ resume' = [rev |-> resume.rev + 1, profile |-> profile]
  /\ \E content \in Contents : draft' = Saved(content, "resume", <<resume'.rev, profile>>)
  /\ UNCHANGED <<app, log, packets, diskVars, profile, published, op, faults>>

DeleteDraft ==
  /\ WriterFree /\ draft # None /\ draft' = None
  /\ UNCHANGED <<app, log, packets, diskVars, resumeVars, op, edits, faults>>

-----------------------------------------------------------------------------
(* publish_dossier                                                         *)

\* The author decides on what the screen shows: the revision, the draft, a version.
Decide(r) ==
  /\ At(r, "idle") /\ app.rev > 0 /\ Room
  /\ \E v \in published \cup {None},
        content \in IF draft = None THEN Contents ELSE {draft.content} :
       op' = [op EXCEPT ![r] = Doing("decided", app.rev, 0,
                                   IF draft = None THEN 0 ELSE draft.rev, content, v, 0)]
  /\ UNCHANGED <<app, log, draft, packets, diskVars, resumeVars, edits, faults>>

\* The vault lock, then BEGIN IMMEDIATE; a vault or a writer that stays busy refuses.
Begin(r) ==
  /\ At(r, "decided")
  /\ (VaultFree /\ Go(r, "recover")) \/ End(r)
  /\ UNCHANGED <<app, log, draft, packets, diskVars, resumeVars, edits, faults>>

\* Fault: rows of committed packets are not looked up.
Reconcile_Blind(r) ==
  /\ At(r, "recover") \/ At(r, "again")
  /\ \E d \in journals :
       IF d \in files THEN files' = files \ {d} /\ UNCHANGED journals
                      ELSE journals' = journals \ {d} /\ UNCHANGED files
  /\ UNCHANGED <<app, log, draft, packets, resumeVars, op, edits, faults>>

\* One journal at a time: an uncommitted file goes before its journal does.
Reconciled ==
  \E d \in journals :
    IF d \in files /\ d \notin Packed
    THEN files' = files \ {d} /\ UNCHANGED journals
    ELSE journals' = journals \ {d} /\ UNCHANGED files

Reconcile(r) ==
  /\ At(r, "recover") \/ At(r, "again")
  /\ Reconciled
  /\ UNCHANGED <<app, log, draft, packets, resumeVars, op, edits, faults>>

ReconcileFails(r) ==
  /\ Fault /\ journals # {}
  /\ \/ At(r, "recover") /\ Retreat(r)
     \/ At(r, "again") /\ End(r)
  /\ UNCHANGED <<app, log, draft, packets, diskVars, resumeVars, edits>>

\* Backup, restore and erasure reconcile as well, under the vault lock and the writer.
OtherReconcile ==
  /\ VaultFree /\ Reconciled
  /\ UNCHANGED <<app, log, draft, packets, resumeVars, op, edits, faults>>

\* What is published is what was saved, for the application and the resume of now:
\* a draft bound to the resume draft needs a version of that very revision.
Chosen(r) ==
  IF draft = None THEN IF op[r].version # None THEN op[r].version ELSE app.version
  ELSE IF draft.to = "resume" THEN op[r].version ELSE draft.version

\* Fault: the application may have moved on since the draft was saved.
Publishable_OldDraft(r) ==
  /\ app.rev = op[r].rev /\ (draft = None <=> op[r].draft = 0)
  /\ Chosen(r) \in published
  /\ draft # None =>
       /\ draft.rev = op[r].draft /\ draft.content = op[r].content
       /\ IF draft.to = "resume"
          THEN Chosen(r) = <<draft.version[1], profile>> /\ resume = [rev |-> draft.version[1],
                                                                      profile |-> profile]
          ELSE op[r].version \in {None, draft.version} /\ draft.version = app.version

Publishable(r) ==
  /\ app.rev = op[r].rev /\ (draft = None <=> op[r].draft = 0)
  /\ Chosen(r) \in published
  /\ draft # None =>
       /\ draft.rev = op[r].draft /\ draft.app = app.rev
       /\ draft.content = op[r].content
       /\ IF draft.to = "resume"
          THEN Chosen(r) = <<draft.version[1], profile>> /\ resume = [rev |-> draft.version[1],
                                                                      profile |-> profile]
          ELSE op[r].version \in {None, draft.version} /\ draft.version = app.version

NewDossier == CHOOSE d \in Dossiers : d \notin files \cup journals \cup Packed

\* Readiness, quality and the materials may refuse what the revisions allow.
Claim(r) ==
  /\ At(r, "recover") /\ journals = {}
  /\ \/ /\ Publishable(r) /\ Room
        /\ journals' = {NewDossier}
        /\ op' = [op EXCEPT ![r] = Doing("claimed", op[r].rev, 0, op[r].draft, op[r].content,
                                         Chosen(r), NewDossier)]
     \/ Retreat(r) /\ UNCHANGED journals
  /\ UNCHANGED <<app, log, draft, packets, files, resumeVars, edits, faults>>

Store(r) ==
  /\ At(r, "claimed")
  /\ \/ Go(r, "stored") /\ files' = files \cup {op[r].dossier} /\ UNCHANGED faults
     \/ Fault /\ Retreat(r) /\ UNCHANGED files
  /\ UNCHANGED <<app, log, draft, packets, journals, resumeVars, edits>>

\* The draft is consumed, the packet recorded, the row linked and moved on, the event
\* appended: one commit, which may fail or go through and report a failure.
Commit(r) ==
  /\ At(r, "stored")
  /\ \/ Leave(r, "committed") /\ UNCHANGED faults
     \/ Leave(r, "unknown") /\ Fault
  /\ \/ /\ packets' = packets \cup {[dossier |-> op[r].dossier, content |-> op[r].content]}
        /\ Append1(DossierEvent(op[r].dossier, 1 + Cardinality(Numbered(log))),
                   [app EXCEPT !.version = op[r].version])
        /\ draft' = None
     \/ op'[r].at = "unknown" /\ UNCHANGED <<app, log, draft, packets>>
  /\ UNCHANGED <<diskVars, resumeVars, edits>>

\* The rows tell, in a transaction of its own, which of the two it was.  That
\* transaction, or the verification of the file, may fail.
Examine(r) ==
  /\ At(r, "unknown") /\ WriterFree
  /\ \/ /\ IF op[r].dossier \in Packed THEN Leave(r, "committed") ELSE Retreat(r)
        /\ UNCHANGED faults
     \/ Fault /\ Retreat(r)
  /\ UNCHANGED <<app, log, draft, packets, diskVars, resumeVars, edits>>

\* The journal of a committed packet may stay behind for the next reconciliation.
Finish(r) ==
  /\ At(r, "committed") /\ End(r)
  /\ \/ journals' = journals \ {op[r].dossier} /\ UNCHANGED faults
     \/ Fault /\ UNCHANGED journals
  /\ UNCHANGED <<app, log, draft, packets, files, resumeVars, edits>>

\* Every error reconciles once more under a new reservation, where that succeeds, and
\* is raised.
Abort(r) ==
  /\ \/ At(r, "abort") /\ WriterFree /\ Go(r, "again") /\ UNCHANGED faults
     \/ At(r, "abort") /\ Fault /\ End(r)
     \/ At(r, "again") /\ journals = {} /\ End(r) /\ UNCHANGED faults
  /\ UNCHANGED <<app, log, draft, packets, diskVars, resumeVars, edits>>

\* The process dies.
Crash ==
  /\ Fault /\ op # [r \in Requests |-> Idle] /\ op' = [r \in Requests |-> Idle]
  /\ UNCHANGED <<app, log, draft, packets, diskVars, resumeVars, edits>>

-----------------------------------------------------------------------------
Track(r) ==
  \/ ReadRow(r) \/ ReadEvents(r) \/ Refused(r) \/ AppendEvent(r) \/ UpdatePreparation(r)
  \/ CreateTask(r) \/ UpdateTask(r)
PublishDossier(r) ==
  \/ Decide(r) \/ Begin(r) \/ Reconcile(r) \/ ReconcileFails(r) \/ Claim(r) \/ Store(r)
  \/ Commit(r) \/ Examine(r) \/ Finish(r) \/ Abort(r)
Resume == EditResume \/ EditProfile \/ PublishResume \/ DeleteResume
Dossier == PutDraft \/ AcceptMaterials \/ DeleteDraft \/ OtherReconcile

Next == Create \/ Observe \/ Crash \/ Resume \/ Dossier
        \/ \E r \in Requests : Track(r) \/ PublishDossier(r)

Spec == Init /\ [][Next]_vars

-----------------------------------------------------------------------------
(* Properties                                                              *)

\* The row is the projection of the timeline: its revision counts the events, its
\* stage is that of the last stage event, its next action the first of the pending
\* tasks the events tell, whoever wrote in between what a request read.
BoardExact ==
  /\ app.rev = Len(log) /\ app.next = NextAction(Tasks(log))
  /\ \A i \in DOMAIN log :
       log[i].kind = "stage" =>
         app.stage = log[i].stage \/ \E j \in DOMAIN log : j > i /\ log[j].kind = "stage"

\* No event is lost or told twice: a task's revisions follow each other without a gap
\* and dossiers are numbered in the order of their publication.
TimelineWhole ==
  /\ \A i \in DOMAIN log : log[i].kind = "task" =>
       LET earlier == {j \in 1..(i - 1) : log[j].kind = "task" /\ log[j].task.id = log[i].task.id}
       IN  {log[j].task.rev : j \in earlier} = 1..(log[i].task.rev - 1)
  /\ \A i \in Numbered(log) : log[i].number = 1 + Cardinality({j \in Numbered(log) : j < i})

\* Each packet has its event, its row and its file, and a file without a row is claimed
\* by a journal: no cleanup takes a packet whose commit went through unacknowledged.
PacketsKept ==
  /\ Packed = {log[i].dossier : i \in Numbered(log)}
  /\ Packed \subseteq files /\ files \subseteq Packed \cup journals

\* A packet says what its author saved for the application as it was at that moment,
\* with the version published from the resume draft the author bound, still current,
\* and takes the draft with it.
PacketFromSavedDraft ==
  [][ \A p \in packets' \ packets :
        /\ app'.version \in published /\ draft' = None
        /\ draft # None =>
             /\ p.content = draft.content /\ draft.app = app.rev
             /\ draft.to = "resume" => /\ app'.version = <<draft.version[1], profile>>
                                       /\ resume.rev = draft.version[1]
             /\ draft.to = "version" => app'.version = draft.version ]_vars
============================================================================
