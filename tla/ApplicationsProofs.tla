------------------------- MODULE ApplicationsProofs -------------------------
(***************************************************************************)
(* For any number of requests, events and faults: the row is the           *)
(* projection of its timeline, no event is lost or told twice, and every   *)
(* packet has its event, its row, its file and its author's words.         *)
(***************************************************************************)
EXTENDS Applications, FiniteSetTheorems, SequenceTheorems, WellFoundedInduction, TLAPS

(* The inductive invariant, one part per concern.                          *)

Places ==
  {"idle", "row", "events", "decided", "recover", "claimed", "stored", "unknown",
   "committed", "abort", "again"}
Request ==
  [at : Places, rev : 0..MaxSteps, seen : 0..MaxSteps, draft : 0..MaxSteps,
   content : Contents \cup {None}, version : Versions \cup {None}, dossier : Dossiers \cup {0}]
Row ==
  [rev : 0..MaxSteps, stage : Stages, next : {None} \cup [id : Dossiers, rank : Ranks],
   version : Versions \cup {None}]
Event ==
  {Note} \cup {StageEvent(stage) : stage \in Stages} \cup {TaskEvent(task) : task \in Task}
  \cup {DossierEvent(d, number) : d \in Dossiers, number \in Dossiers}
DossierDraft ==
  [rev : Dossiers, app : Dossiers, content : Contents, to : {"version", "resume"},
   version : Versions]

\* A failed acknowledgement counts as a fault and an event: one more than there is room for.
Total == Len(log) + edits + faults
CountInv ==
  /\ edits \in Nat /\ faults \in Nat
  /\ Total \in 0..MaxSteps \/ (Total = MaxSteps + 1 /\ faults > 0 /\ Len(log) > 0)

RowTyped == app \in Row
LogTyped == log \in Seq(Event)
OpTyped == op \in [Requests -> Request]
ResumeTyped ==
  resume \in [rev : Nat, profile : Nat] /\ profile \in Nat /\ published \subseteq Versions
PacketsTyped ==
  packets \subseteq [dossier : Dossiers, content : Contents] /\ files \cup journals \subseteq Dossiers
DraftInv ==
  /\ draft \in {None} \cup DossierDraft
  /\ draft # None => draft.rev =< edits /\ draft.app =< Len(log)

\* A task is named by the event it was born in; its revisions come one per event.
TaskInv ==
  \A i \in DOMAIN log : log[i].kind = "task" => log[i].task.id =< i /\ log[i].task.rev =< i

\* Who has read the events has read those of the revision it compares, at least.
ReaderInv ==
  \A r \in Requests :
    /\ At(r, "row") \/ At(r, "events") => op[r].rev =< Len(log)
    /\ At(r, "events") => op[r].rev =< op[r].seen /\ op[r].seen =< Len(log)

\* The vault lock: one publication at a time.
VaultInv == \A q, r \in Requests : Publishing(q) /\ Publishing(r) => q = r

\* From the claim to the commit a publication keeps what it was allowed to publish.
Allowed(r) ==
  /\ op[r].version \in published
  /\ draft # None =>
       /\ op[r].content = draft.content /\ draft.app = app.rev
       /\ draft.to = "resume" => /\ op[r].version = <<draft.version[1], profile>>
                                 /\ resume.rev = draft.version[1]
       /\ draft.to = "version" => op[r].version = draft.version

ClaimInv ==
  \A r \in Requests :
    /\ op[r].at \in {"decided", "recover", "claimed", "stored"} => op[r].content \in Contents
    /\ op[r].at \in {"claimed", "stored"} =>
         /\ Total < MaxSteps /\ Allowed(r)
         /\ op[r].dossier \in Dossiers \cap journals /\ op[r].dossier \notin Packed
    /\ At(r, "stored") => op[r].dossier \in files
    /\ At(r, "committed") => op[r].dossier \in Packed

\* Row and timeline, which are written together.
TimelineInv == RowTyped /\ LogTyped /\ TaskInv /\ BoardExact /\ TimelineWhole

IInv ==
  /\ CountInv /\ TimelineInv /\ OpTyped /\ ResumeTyped /\ PacketsTyped /\ DraftInv
  /\ ReaderInv /\ VaultInv /\ ClaimInv /\ PacketsKept

-----------------------------------------------------------------------------
(* Events and tasks                                                        *)

LEMMA EventKinds ==
  /\ Note \in Event /\ Note.kind = "note"
  /\ \A stage \in Stages : /\ StageEvent(stage) \in Event
                           /\ StageEvent(stage).kind = "stage" /\ StageEvent(stage).stage = stage
  /\ \A task \in Task : /\ TaskEvent(task) \in Event
                        /\ TaskEvent(task).kind = "task" /\ TaskEvent(task).task = task
  /\ \A d, number \in Dossiers :
       /\ DossierEvent(d, number) \in Event /\ DossierEvent(d, number).kind = "dossier"
       /\ DossierEvent(d, number).dossier = d /\ DossierEvent(d, number).number = number
<1>1. Note \in Event /\ Note.kind = "note"
  BY DEF Event, Note
<1>2. ASSUME NEW stage \in Stages
      PROVE  /\ StageEvent(stage) \in Event
             /\ StageEvent(stage).kind = "stage" /\ StageEvent(stage).stage = stage
  <2>1. StageEvent(stage) \in Event
    BY DEF Event
  <2>. QED BY <2>1 DEF StageEvent
<1>3. ASSUME NEW task \in Task
      PROVE  /\ TaskEvent(task) \in Event
             /\ TaskEvent(task).kind = "task" /\ TaskEvent(task).task = task
  <2>1. TaskEvent(task) \in Event
    BY DEF Event
  <2>. QED BY <2>1 DEF TaskEvent
<1>4. ASSUME NEW d \in Dossiers, NEW number \in Dossiers
      PROVE  /\ DossierEvent(d, number) \in Event /\ DossierEvent(d, number).kind = "dossier"
             /\ DossierEvent(d, number).dossier = d /\ DossierEvent(d, number).number = number
  <2>1. DossierEvent(d, number) \in Event
    BY DEF Event
  <2>. QED BY <2>1 DEF DossierEvent
<1>. QED BY <1>1, <1>2, <1>3, <1>4

LEMMA EventTyped ==
  ASSUME NEW e \in Event
  PROVE  /\ e.kind = "task" => e.task \in Task
         /\ e.kind = "stage" => e.stage \in Stages
BY DEF Event, Note, StageEvent, TaskEvent, DossierEvent

LEMMA AppendLog ==
  ASSUME LogTyped, NEW e \in Event
  PROVE  /\ Append(log, e) \in Seq(Event) /\ Len(log) \in Nat
         /\ Len(Append(log, e)) = Len(log) + 1
         /\ DOMAIN log = 1..Len(log) /\ DOMAIN Append(log, e) = 1..(Len(log) + 1)
         /\ \A i \in DOMAIN log : Append(log, e)[i] = log[i]
         /\ Append(log, e)[Len(log) + 1] = e
BY DEF LogTyped

LEMMA LogEvents ==
  ASSUME LogTyped
  PROVE  /\ Len(log) \in Nat /\ DOMAIN log = 1..Len(log)
         /\ \A i \in DOMAIN log : log[i] \in Event
BY DEF LogTyped

\* All revisions of all tasks.
Told(events) == {events[i].task : i \in {j \in DOMAIN events : events[j].kind = "task"}}

LEMMA TasksTold ==
  ASSUME NEW events
  PROVE  Tasks(events) = {t \in Told(events) : \A u \in Told(events) : u.id = t.id => u.rev =< t.rev}
BY DEF Tasks, Told

LEMMA ToldTyped ==
  ASSUME LogTyped
  PROVE  Told(log) \subseteq Task /\ Tasks(log) \subseteq Told(log)
BY LogEvents, EventTyped, TasksTold DEF Told

LEMMA ToldAppended ==
  ASSUME LogTyped, NEW e \in Event
  PROVE  Told(Append(log, e)) = Told(log) \cup (IF e.kind = "task" THEN {e.task} ELSE {})
<1>1. CASE e.kind = "task"
  BY <1>1, AppendLog DEF Told
<1>2. CASE e.kind # "task"
  BY <1>2, AppendLog DEF Told
<1>. QED BY <1>1, <1>2

LEMMA TasksKept ==
  ASSUME LogTyped, NEW e \in Event, e.kind # "task"
  PROVE  Tasks(Append(log, e)) = Tasks(log)
BY ToldAppended, TasksTold

LEMMA OneRevision ==
  ASSUME LogTyped, TimelineWhole, NEW t \in Told(log), NEW u \in Told(log),
         t.id = u.id, t.rev = u.rev
  PROVE  t = u
<1>1. PICK i \in DOMAIN log : log[i].kind = "task" /\ log[i].task = t
  BY DEF Told
<1>2. PICK j \in DOMAIN log : log[j].kind = "task" /\ log[j].task = u
  BY DEF Told
<1>3. ASSUME NEW k \in DOMAIN log, NEW l \in DOMAIN log, l < k,
             log[k].kind = "task", log[l].kind = "task", log[k].task.id = log[l].task.id
      PROVE  log[k].task.rev # log[l].task.rev
  <2>1. log[k].task.rev \in Nat /\ l \in 1..(k - 1)
    BY <1>3, LogEvents, EventTyped DEF Task, Dossiers
  <2>2. log[l].task.rev \in 1..(log[k].task.rev - 1)
    BY <1>3, <2>1 DEF TimelineWhole
  <2>. QED BY <2>1, <2>2
<1>4. i = j
  BY <1>1, <1>2, <1>3, LogEvents
<1>. QED BY <1>1, <1>2, <1>4

\* A task that was just born is one task more.
LEMMA TasksBorn ==
  ASSUME LogTyped, TaskInv, NEW task \in Task, task.id = Len(log) + 1
  PROVE  Tasks(Append(log, TaskEvent(task))) = Tasks(log) \cup {task}
<1>1. Told(Append(log, TaskEvent(task))) = Told(log) \cup {task}
  BY ToldAppended, EventKinds
<1>2. \A t \in Told(log) : t.id # task.id
  BY LogEvents DEF TaskInv, Told
<1>3. task.rev =< task.rev
  BY DEF Task, Dossiers
<1>. QED BY <1>1, <1>2, <1>3, TasksTold

\* A change replaces the task.
LEMMA TasksChanged ==
  ASSUME LogTyped, TimelineWhole, NEW task \in Tasks(log), NEW changed \in Task,
         changed.id = task.id, changed.rev = task.rev + 1
  PROVE  Tasks(Append(log, TaskEvent(changed))) = (Tasks(log) \ {task}) \cup {changed}
<1>1. Told(Append(log, TaskEvent(changed))) = Told(log) \cup {changed}
  BY ToldAppended, EventKinds
<1>2. task \in Told(log) /\ \A u \in Told(log) : u.id = task.id => u.rev =< task.rev
  BY TasksTold
<1>3. \A t \in Told(log) : t.rev \in Nat
  BY ToldTyped DEF Task, Dossiers
<1>4. \A t \in Tasks(log) : t.id = task.id => t = task
  <2>. SUFFICES ASSUME NEW t \in Tasks(log), t.id = task.id PROVE t = task
    OBVIOUS
  <2>1. t \in Told(log) /\ task.rev =< t.rev /\ t.rev =< task.rev
    BY <1>2, TasksTold
  <2>. QED BY <1>2, <1>3, <2>1, OneRevision
<1>5. \A t \in Told(log) : t.id = task.id => t.rev =< changed.rev /\ ~(changed.rev =< t.rev)
  BY <1>2, <1>3
<1>6. changed.rev =< changed.rev
  BY <1>2, <1>3
<1>. QED BY <1>1, <1>2, <1>4, <1>5, <1>6, TasksTold

-----------------------------------------------------------------------------
(* The next action                                                         *)

\* Of a set of numbers that is not empty, one is least.
LEMMA LeastNumber ==
  ASSUME NEW S \in SUBSET Nat, S # {}
  PROVE  \E n \in S : \A m \in S : n =< m
<1>. DEFINE less == {ss \in Nat \X Nat : ss[1] < ss[2]}
<1>1. IsWellFoundedOn(less, Nat)
  BY NatLessThanWellFounded DEF OpToRel
<1>2. PICK n \in S : \A m \in S : <<m, n>> \notin less
  BY <1>1, WFMin
<1>3. \A m \in S : ~(m < n)
  BY <1>2
<1>. QED BY <1>3

LEMMA NextActionTyped ==
  ASSUME NEW tasks \in SUBSET Task
  PROVE  NextAction(tasks) \in {None} \cup [id : Dossiers, rank : Ranks]
<1>. DEFINE pending == {t \in tasks : t.status = "pending"}
            ranks == {t.rank : t \in pending}
<1>1. CASE pending = {}
  BY <1>1 DEF NextAction
<1>2. CASE pending # {}
  <2>1. PICK rank \in ranks : \A other \in ranks : rank =< other
    <3>1. ranks \in SUBSET Nat /\ ranks # {}
      BY <1>2 DEF Task, Ranks
    <3>. QED BY <3>1, LeastNumber
  <2>. DEFINE ids == {t.id : t \in {u \in pending : u.rank = rank}}
  <2>2. PICK id \in ids : \A other \in ids : id =< other
    <3>1. ids \in SUBSET Nat /\ ids # {}
      BY <2>1 DEF Task, Dossiers
    <3>. QED BY <3>1, LeastNumber
  <2>3. PICK t \in pending : t.rank = rank /\ t.id = id
    BY <2>2
  <2>4. ASSUME NEW u \in pending PROVE Before(t, u)
    <3>1. rank =< u.rank /\ (u.rank = rank => id =< u.id)
      BY <2>1, <2>2
    <3>. QED BY <2>3, <3>1 DEF Before, Task, Ranks
  <2>5. \E v \in pending : \A u \in pending : Before(v, u)
    BY <2>4
  <2>6. (CHOOSE v \in pending : \A u \in pending : Before(v, u)) \in pending
    BY <2>5
  <2>. QED BY <1>2, <2>6 DEF NextAction, Task
<1>. QED BY <1>1, <1>2

-----------------------------------------------------------------------------
(* Row and timeline                                                        *)

\* A row and an event that belong together extend both.
Fits(e, row) ==
  /\ row \in Row /\ row.next = NextAction(Tasks(Append(log, e)))
  /\ e.kind = "stage" => row.stage = e.stage
  /\ e.kind # "stage" => row.stage = app.stage
  /\ e.kind = "task" =>
       /\ e.task.id =< Len(log) + 1 /\ e.task.rev =< Len(log) + 1
       /\ {t.rev : t \in {u \in Told(log) : u.id = e.task.id}} = 1..(e.task.rev - 1)
  /\ e.kind = "dossier" => e.number = 1 + Cardinality(Numbered(log))

LEMMA Timeline ==
  ASSUME TimelineInv, NEW e \in Event, NEW row, Fits(e, row), Append1(e, row),
         Len(log) < MaxSteps
  PROVE  TimelineInv'
<1>1. log' = Append(log, e) /\ Len(log) \in Nat /\ app.rev = Len(log)
  BY LogEvents DEF TimelineInv, Append1, BoardExact
<1>2. /\ LogTyped' /\ Len(log') = Len(log) + 1
      /\ DOMAIN log = 1..Len(log) /\ DOMAIN log' = 1..(Len(log) + 1)
      /\ \A i \in DOMAIN log : log'[i] = log[i]
      /\ log'[Len(log) + 1] = e
  BY <1>1, AppendLog DEF TimelineInv, LogTyped
<1>3. app' = [rev |-> Len(log) + 1, stage |-> row.stage, next |-> row.next,
              version |-> row.version]
  BY <1>1 DEF Append1, Fits, Row
<1>4. RowTyped'
  BY <1>1, <1>3, ApplicationsAssumption DEF RowTyped, Fits, Row
<1>5. TaskInv'
  BY <1>1, <1>2 DEF TimelineInv, TaskInv, Fits
<1>6. BoardExact'
  <2>1. app'.next = NextAction(Tasks(log'))
    BY <1>1, <1>3 DEF Fits
  <2>2. ASSUME NEW i \in DOMAIN log', log'[i].kind = "stage"
        PROVE  app'.stage = log'[i].stage \/ \E j \in DOMAIN log' : j > i /\ log'[j].kind = "stage"
    <3>1. CASE i = Len(log) + 1
      BY <1>2, <1>3, <2>2, <3>1 DEF Fits
    <3>2. CASE i \in DOMAIN log
      <4>1. app.stage = log[i].stage \/ \E j \in DOMAIN log : j > i /\ log[j].kind = "stage"
        BY <1>2, <2>2, <3>2 DEF TimelineInv, BoardExact
      <4>2. CASE e.kind = "stage"
        BY <1>1, <1>2, <3>2, <4>2
      <4>3. CASE e.kind # "stage"
        BY <1>1, <1>2, <1>3, <3>2, <4>1, <4>3 DEF Fits
      <4>. QED BY <4>2, <4>3
    <3>. QED BY <1>2, <3>1, <3>2
  <2>. QED BY <1>2, <1>3, <2>1, <2>2 DEF BoardExact
<1>7. ASSUME NEW i \in DOMAIN log', log'[i].kind = "task"
      PROVE  {log'[j].task.rev : j \in {j \in 1..(i - 1) :
                log'[j].kind = "task" /\ log'[j].task.id = log'[i].task.id}}
             = 1..(log'[i].task.rev - 1)
  <2>1. CASE i = Len(log) + 1
    <3>1. {log'[j].task.rev : j \in {j \in 1..(i - 1) :
             log'[j].kind = "task" /\ log'[j].task.id = e.task.id}}
          = {t.rev : t \in {u \in Told(log) : u.id = e.task.id}}
      BY <1>1, <1>2, <2>1 DEF Told
    <3>. QED BY <1>2, <1>7, <2>1, <3>1 DEF Fits
  <2>2. CASE i \in DOMAIN log
    <3>1. {log'[j].task.rev : j \in {j \in 1..(i - 1) :
             log'[j].kind = "task" /\ log'[j].task.id = log'[i].task.id}}
          = {log[j].task.rev : j \in {j \in 1..(i - 1) :
             log[j].kind = "task" /\ log[j].task.id = log[i].task.id}}
      BY <1>1, <1>2, <2>2
    <3>. QED BY <1>2, <1>7, <2>2, <3>1 DEF TimelineInv, TimelineWhole
  <2>. QED BY <1>2, <2>1, <2>2
<1>8. ASSUME NEW i \in Numbered(log')
      PROVE  log'[i].number = 1 + Cardinality({j \in Numbered(log') : j < i})
  <2>1. CASE i = Len(log) + 1
    <3>1. {j \in Numbered(log') : j < i} = Numbered(log)
      BY <1>1, <1>2, <2>1 DEF Numbered
    <3>. QED BY <1>2, <1>8, <2>1, <3>1 DEF Fits, Numbered
  <2>2. CASE i \in DOMAIN log
    <3>1. {j \in Numbered(log') : j < i} = {j \in Numbered(log) : j < i}
      BY <1>1, <1>2, <2>2 DEF Numbered
    <3>2. i \in Numbered(log)
      BY <1>2, <1>8, <2>2 DEF Numbered
    <3>. QED BY <1>2, <2>2, <3>1, <3>2 DEF TimelineInv, TimelineWhole
  <2>. QED BY <1>2, <1>8, <2>1, <2>2 DEF Numbered
<1>9. TimelineWhole'
  BY <1>7, <1>8 DEF TimelineWhole
<1>. QED BY <1>2, <1>4, <1>5, <1>6, <1>9 DEF TimelineInv

\* An event of no task leaves the next action alone.
LEMMA PlainFits ==
  ASSUME TimelineInv, NEW e \in Event, e.kind # "task", NEW row \in Row,
         row.next = app.next,
         e.kind = "stage" => row.stage = e.stage,
         e.kind # "stage" => row.stage = app.stage,
         e.kind = "dossier" => e.number = 1 + Cardinality(Numbered(log))
  PROVE  Fits(e, row)
BY TasksKept DEF Fits, TimelineInv, BoardExact

LEMMA BornFits ==
  ASSUME TimelineInv, Len(log) < MaxSteps, NEW rank \in Ranks, NEW task,
         task = [id |-> Len(log) + 1, rev |-> 1, status |-> "pending", rank |-> rank]
  PROVE  /\ TaskEvent(task) \in Event
         /\ Fits(TaskEvent(task), [app EXCEPT !.next = NextAction(Tasks(log) \cup {task})])
<1>1. Len(log) \in Nat
  BY LogEvents DEF TimelineInv
<1>2. task \in Task /\ TaskEvent(task) \in Event
  BY <1>1, EventKinds, ApplicationsAssumption DEF Task, Dossiers
<1>3. Tasks(Append(log, TaskEvent(task))) = Tasks(log) \cup {task}
  BY <1>2, TasksBorn DEF TimelineInv
<1>4. Tasks(log) \cup {task} \in SUBSET Task
  BY <1>2, ToldTyped DEF TimelineInv
<1>5. {t.rev : t \in {u \in Told(log) : u.id = task.id}} = 1..(task.rev - 1)
  <2>1. \A u \in Told(log) : u.id # task.id
    BY <1>1, LogEvents DEF TimelineInv, TaskInv, Told
  <2>. QED BY <2>1
<1>6. [app EXCEPT !.next = NextAction(Tasks(log) \cup {task})] \in Row
  BY <1>4, NextActionTyped DEF TimelineInv, RowTyped, Row
<1>. DEFINE next == NextAction(Tasks(log) \cup {task})
            row == [app EXCEPT !.next = next]
<1>7. row \in Row /\ row.next = next /\ row.stage = app.stage
  BY <1>6 DEF TimelineInv, RowTyped, Row
<1>8. TaskEvent(task).kind = "task" /\ TaskEvent(task).task = task
  BY <1>2, EventKinds
<1>. HIDE DEF next, row
<1>9. task.id =< Len(log) + 1 /\ task.rev =< Len(log) + 1
  BY <1>1
<1>10. Fits(TaskEvent(task), row)
  BY <1>3, <1>5, <1>7, <1>8, <1>9 DEF Fits, next
<1>. QED BY <1>2, <1>10 DEF row, next

LEMMA ChangedFits ==
  ASSUME TimelineInv, Len(log) < MaxSteps, NEW task \in Tasks(log),
         NEW status \in {"pending", "closed"}, NEW rank \in Ranks, NEW changed,
         changed = [task EXCEPT !.rev = @ + 1, !.status = status, !.rank = rank]
  PROVE  /\ TaskEvent(changed) \in Event
         /\ Fits(TaskEvent(changed),
                 [app EXCEPT !.next = NextAction((Tasks(log) \ {task}) \cup {changed})])
<1>1. /\ task \in Task /\ task \in Told(log)
      /\ \A u \in Told(log) : u.id = task.id => u.rev =< task.rev
  BY ToldTyped, TasksTold DEF TimelineInv
<1>2. PICK i \in DOMAIN log : log[i].kind = "task" /\ log[i].task = task
  BY <1>1 DEF Told
<1>3. task.id =< i /\ task.rev =< i /\ i =< Len(log) /\ i \in Nat /\ Len(log) \in Nat
  BY <1>2, LogEvents DEF TimelineInv, TaskInv
<1>4. changed = [id |-> task.id, rev |-> task.rev + 1, status |-> status, rank |-> rank]
  BY <1>1 DEF Task
<1>5. changed \in Task /\ TaskEvent(changed) \in Event
  <2>1. task.rev + 1 \in Dossiers /\ task.id \in Dossiers
    BY <1>1, <1>3, ApplicationsAssumption DEF Task, Dossiers
  <2>2. changed \in Task
    BY <1>4, <2>1 DEF Task
  <2>. QED BY <2>2, EventKinds
<1>6. Tasks(Append(log, TaskEvent(changed))) = (Tasks(log) \ {task}) \cup {changed}
  BY <1>4, <1>5, TasksChanged DEF TimelineInv
<1>7. [app EXCEPT !.next = NextAction((Tasks(log) \ {task}) \cup {changed})] \in Row
  <2>1. (Tasks(log) \ {task}) \cup {changed} \in SUBSET Task
    BY <1>5, ToldTyped DEF TimelineInv
  <2>. QED BY <2>1, NextActionTyped DEF TimelineInv, RowTyped, Row
<1>8. {t.rev : t \in {u \in Told(log) : u.id = changed.id}} = 1..(changed.rev - 1)
  <2>. DEFINE revs == {t.rev : t \in {u \in Told(log) : u.id = task.id}}
  <2>1. \A u \in Told(log) : u.id = task.id => u.rev \in 1..task.rev
    BY <1>1, ToldTyped DEF TimelineInv, Task, Dossiers
  <2>2. 1..(task.rev - 1) \subseteq revs
    <3>1. {log[j].task.rev : j \in {j \in 1..(i - 1) :
             log[j].kind = "task" /\ log[j].task.id = log[i].task.id}} = 1..(log[i].task.rev - 1)
      BY <1>2 DEF TimelineInv, TimelineWhole
    <3>2. \A j \in 1..(i - 1) : j \in DOMAIN log
      BY <1>3, LogEvents DEF TimelineInv
    <3>. QED BY <1>2, <3>1, <3>2 DEF Told
  <2>3. task.rev \in revs
    BY <1>1
  <2>4. 1..task.rev = 1..(task.rev - 1) \cup {task.rev}
    BY <1>1 DEF Task, Dossiers
  <2>5. revs = 1..task.rev
    BY <2>1, <2>2, <2>3, <2>4
  <2>6. changed.rev - 1 = task.rev /\ changed.id = task.id
    BY <1>1, <1>4 DEF Task, Dossiers
  <2>. QED BY <2>5, <2>6
<1>9. changed.id =< Len(log) + 1 /\ changed.rev =< Len(log) + 1
  BY <1>1, <1>3, <1>4 DEF Task, Dossiers
<1>. DEFINE next == NextAction((Tasks(log) \ {task}) \cup {changed})
            row == [app EXCEPT !.next = next]
<1>10. row \in Row /\ row.next = next /\ row.stage = app.stage
  BY <1>7 DEF TimelineInv, RowTyped, Row
<1>11. TaskEvent(changed).kind = "task" /\ TaskEvent(changed).task = changed
  BY <1>5, EventKinds
<1>. HIDE DEF next, row
<1>12. Fits(TaskEvent(changed), row)
  BY <1>6, <1>8, <1>9, <1>10, <1>11 DEF Fits, next
<1>. QED BY <1>5, <1>12 DEF row, next

-----------------------------------------------------------------------------
(* What steps leave alone                                                  *)

\* The dossiers that the events tell of.
Announced(events) == {events[i].dossier : i \in Numbered(events)}

LEMMA Unlogged ==
  ASSUME TimelineInv, UNCHANGED <<app, log>>
  PROVE  TimelineInv'
BY DEF TimelineInv, RowTyped, LogTyped, TaskInv, BoardExact, TimelineWhole, Numbered

LEMMA AnnouncedAppended ==
  ASSUME LogTyped, NEW e \in Event
  PROVE  /\ Announced(Append(log, e)) =
              Announced(log) \cup (IF e.kind = "dossier" THEN {e.dossier} ELSE {})
         /\ Len(Append(log, e)) = Len(log) + 1 /\ Len(log) \in Nat
<1>1. CASE e.kind = "dossier"
  BY <1>1, AppendLog DEF Announced, Numbered
<1>2. CASE e.kind # "dossier"
  BY <1>2, AppendLog DEF Announced, Numbered
<1>. QED BY <1>1, <1>2, AppendLog

LEMMA IdleTyped == Idle \in Request /\ Idle.at = "idle"
BY ApplicationsAssumption DEF Idle, Doing, Request, Places

LEMMA EndTyped ==
  ASSUME OpTyped, NEW r \in Requests, End(r)
  PROVE  /\ OpTyped' /\ op'[r] = Idle
         /\ \A q \in Requests \ {r} : op'[q] = op[q]
BY IdleTyped DEF OpTyped, End

LEMMA GoTyped ==
  ASSUME OpTyped, NEW r \in Requests, NEW place \in Places, Go(r, place)
  PROVE  /\ OpTyped' /\ op'[r] = [op[r] EXCEPT !.at = place]
         /\ \A q \in Requests \ {r} : op'[q] = op[q]
<1>1. [op[r] EXCEPT !.at = place] \in Request
  BY DEF OpTyped, Request
<1>. QED BY <1>1 DEF OpTyped, Go

LEMMA RetreatTyped ==
  ASSUME OpTyped, NEW r \in Requests, Retreat(r)
  PROVE  /\ OpTyped' /\ op'[r].at = "abort"
         /\ \A q \in Requests \ {r} : op'[q] = op[q]
<1>1. Doing("abort", 0, 0, 0, None, None, 0) \in Request
  BY ApplicationsAssumption DEF Doing, Request, Places
<1>2. Doing("abort", 0, 0, 0, None, None, 0).at = "abort"
  BY DEF Doing
<1>. QED BY <1>1, <1>2 DEF OpTyped, Retreat

LEMMA LeaveTyped ==
  ASSUME OpTyped, NEW r \in Requests, NEW place \in Places, Leave(r, place)
  PROVE  /\ OpTyped' /\ op'[r].at = place /\ op'[r].dossier = op[r].dossier
         /\ \A q \in Requests \ {r} : op'[q] = op[q]
<1>1. op[r].dossier \in Dossiers \cup {0}
  BY DEF OpTyped, Request
<1>2. Doing(place, 0, 0, 0, None, None, op[r].dossier) \in Request
  BY <1>1, ApplicationsAssumption DEF Doing, Request
<1>. QED BY <1>2 DEF OpTyped, Leave, Doing

\* While nobody writes, no publication relies on row, draft, resume and profile; so what
\* is written then disturbs none, if no packet and no announcement of one is touched.
LEMMA FreeStep ==
  ASSUME IInv, WriterFree, UNCHANGED <<packets, diskVars>>,
         Announced(log') = Announced(log), Len(log) =< Len(log'), Len(log') \in Nat,
         \A q \in Requests : op'[q] = op[q] \/ op'[q] = Idle
  PROVE  PacketsTyped' /\ ReaderInv' /\ VaultInv' /\ ClaimInv' /\ PacketsKept'
<1>1. PacketsTyped'
  BY DEF IInv, PacketsTyped, diskVars
<1>2. ReaderInv'
  BY IdleTyped, LogEvents DEF IInv, TimelineInv, ReaderInv, At, OpTyped, Request
<1>3. VaultInv'
  BY IdleTyped DEF IInv, VaultInv, Publishing, Writing
<1>4. ClaimInv'
  BY IdleTyped DEF IInv, ClaimInv, WriterFree, Writing, At, Packed
<1>5. PacketsKept'
  BY DEF IInv, PacketsKept, Packed, Announced, diskVars
<1>. QED BY <1>1, <1>2, <1>3, <1>4, <1>5

\* Steps of one request that leave the rows alone.
LEMMA ReadStep ==
  ASSUME IInv, UNCHANGED <<app, log, draft, packets, resumeVars, edits>>
  PROVE  /\ TimelineInv' /\ ResumeTyped'
         /\ (UNCHANGED faults \/ Fault) => CountInv' /\ DraftInv'
<1>1. TimelineInv'
  BY Unlogged DEF IInv
<1>2. ResumeTyped'
  BY DEF IInv, ResumeTyped, resumeVars
<1>3. DraftInv'
  BY DEF IInv, DraftInv
<1>4. ASSUME UNCHANGED faults \/ Fault PROVE CountInv'
  BY <1>4, LogEvents, ApplicationsAssumption DEF IInv, TimelineInv, CountInv, Total,
     Fault, Room
<1>. QED BY <1>1, <1>2, <1>3, <1>4

\* An event is appended, with the row that fits it, while nobody publishes.
LEMMA AppendStep ==
  ASSUME IInv, WriterFree, Room, NEW e \in Event, e.kind # "dossier",
         NEW row, Fits(e, row), Append1(e, row),
         UNCHANGED <<draft, packets, diskVars, resumeVars, edits, faults>>,
         OpTyped', \A q \in Requests : op'[q] = op[q] \/ op'[q] = Idle
  PROVE  IInv'
<1>1. LogTyped /\ log' = Append(log, e)
  BY DEF IInv, TimelineInv, Append1
<1>2. Announced(log') = Announced(log) /\ Len(log') = Len(log) + 1 /\ Len(log) \in Nat
  BY <1>1, AnnouncedAppended
<1>3. Len(log) < MaxSteps
  BY <1>2, ApplicationsAssumption DEF Room, IInv, CountInv
<1>4. TimelineInv'
  BY <1>3, Timeline DEF IInv
<1>5. CountInv'
  BY <1>2, ApplicationsAssumption DEF Room, IInv, CountInv, Total
<1>6. DraftInv'
  BY <1>2 DEF IInv, DraftInv, DossierDraft, Dossiers
<1>7. ResumeTyped'
  BY DEF IInv, ResumeTyped, resumeVars
<1>. QED BY <1>2, <1>4, <1>5, <1>6, <1>7, FreeStep DEF IInv

-----------------------------------------------------------------------------
(* The steps of the timeline                                               *)

LEMMA CreateStep ==
  ASSUME IInv, Create
  PROVE  IInv'
<1>. DEFINE row(stage, v) == [rev |-> 0, stage |-> stage, next |-> None, version |-> v]
<1>1. PICK stage \in Stages, v \in published \cup {None} :
        Append1(StageEvent(stage), row(stage, v))
  BY DEF Create
<1>2. app.next = None
  <2>1. DOMAIN log = {}
    BY LogEvents DEF Create, IInv, TimelineInv, BoardExact
  <2>. QED BY <2>1 DEF Tasks, NextAction, IInv, TimelineInv, BoardExact
<1>3. row(stage, v) \in Row
  BY ApplicationsAssumption DEF IInv, Row, ResumeTyped
<1>4. /\ StageEvent(stage) \in Event
      /\ StageEvent(stage).kind = "stage" /\ StageEvent(stage).stage = stage
  BY EventKinds
<1>5. Fits(StageEvent(stage), row(stage, v))
  BY <1>2, <1>3, <1>4, PlainFits DEF IInv
<1>. HIDE DEF row
<1>. QED BY <1>1, <1>4, <1>5, AppendStep DEF Create, IInv, OpTyped

LEMMA ObserveStep ==
  ASSUME IInv, Observe
  PROVE  IInv'
<1>1. app \in Row
  BY DEF IInv, TimelineInv, RowTyped
<1>2. Fits(Note, app)
  BY <1>1, EventKinds, PlainFits DEF IInv
<1>. QED BY <1>2, EventKinds, AppendStep DEF Observe, IInv, OpTyped

\* Whoever wins has read every event there is.
LEMMA WinnerHasRead ==
  ASSUME IInv, NEW r \in Requests, Wins(r)
  PROVE  Seen(r) = log /\ op[r].seen = Len(log)
<1>1. op[r].seen = Len(log)
  <2>1. op[r].rev = Len(log) /\ op[r].rev =< op[r].seen /\ op[r].seen =< Len(log)
    BY DEF Wins, IInv, ReaderInv, TimelineInv, BoardExact
  <2>2. op[r].seen \in Nat /\ Len(log) \in Nat
    BY LogEvents, ApplicationsAssumption DEF IInv, OpTyped, Request, TimelineInv
  <2>. QED BY <2>1, <2>2
<1>2. SubSeq(log, 1, Len(log)) = log
  BY DEF IInv, TimelineInv, LogTyped
<1>. QED BY <1>1, <1>2 DEF Seen

LEMMA AppendEventStep ==
  ASSUME IInv, NEW r \in Requests, AppendEvent(r)
  PROVE  IInv'
<1>1. OpTyped' /\ \A q \in Requests : op'[q] = op[q] \/ op'[q] = Idle
  BY EndTyped DEF AppendEvent, IInv
<1>2. app \in Row
  BY DEF IInv, TimelineInv, RowTyped
<1>3. CASE Append1(Note, app)
  <2>1. Fits(Note, app)
    BY <1>2, EventKinds, PlainFits DEF IInv
  <2>. QED BY <1>1, <1>3, <2>1, EventKinds, AppendStep DEF AppendEvent, Wins
<1>4. ASSUME NEW stage \in Stages, Append1(StageEvent(stage), [app EXCEPT !.stage = stage])
      PROVE  IInv'
  <2>1. /\ [app EXCEPT !.stage = stage] \in Row
        /\ [app EXCEPT !.stage = stage].next = app.next
        /\ [app EXCEPT !.stage = stage].stage = stage
    BY <1>2 DEF Row
  <2>2. /\ StageEvent(stage) \in Event
        /\ StageEvent(stage).kind = "stage" /\ StageEvent(stage).stage = stage
    BY EventKinds
  <2>3. Fits(StageEvent(stage), [app EXCEPT !.stage = stage])
    BY <2>1, <2>2, PlainFits DEF IInv
  <2>. QED BY <1>1, <1>4, <2>2, <2>3, AppendStep DEF AppendEvent, Wins
<1>. QED BY <1>3, <1>4 DEF AppendEvent

LEMMA UpdatePreparationStep ==
  ASSUME IInv, NEW r \in Requests, UpdatePreparation(r)
  PROVE  IInv'
<1>. DEFINE row(v) == [app EXCEPT !.version = v]
<1>1. OpTyped' /\ \A q \in Requests : op'[q] = op[q] \/ op'[q] = Idle
  BY EndTyped DEF UpdatePreparation, IInv
<1>2. PICK v \in published \cup {None, app.version} : Append1(Note, row(v))
  BY DEF UpdatePreparation
<1>3. row(v) \in Row /\ row(v).next = app.next /\ row(v).stage = app.stage
  <2>1. app \in Row /\ v \in Versions \cup {None}
    BY DEF IInv, TimelineInv, RowTyped, Row, ResumeTyped
  <2>. QED BY <2>1 DEF Row
<1>. HIDE DEF row
<1>4. Note \in Event /\ Note.kind = "note"
  BY EventKinds
<1>5. Fits(Note, row(v))
  BY <1>3, <1>4, PlainFits DEF IInv
<1>. QED BY <1>1, <1>2, <1>4, <1>5, AppendStep DEF UpdatePreparation, Wins

LEMMA CreateTaskStep ==
  ASSUME IInv, NEW r \in Requests, CreateTask(r)
  PROVE  IInv'
<1>1. OpTyped' /\ \A q \in Requests : op'[q] = op[q] \/ op'[q] = Idle
  BY EndTyped DEF CreateTask, IInv
<1>2. Len(log) < MaxSteps /\ Wins(r)
  BY LogEvents, ApplicationsAssumption DEF CreateTask, Room, IInv, TimelineInv, CountInv
<1>3. PICK rank \in Ranks :
        LET task == [id |-> Len(log) + 1, rev |-> 1, status |-> "pending", rank |-> rank]
        IN  Append1(TaskEvent(task), [app EXCEPT !.next = NextAction(Tasks(log) \cup {task})])
  BY <1>2, WinnerHasRead DEF CreateTask
<1>. DEFINE task == [id |-> Len(log) + 1, rev |-> 1, status |-> "pending", rank |-> rank]
            row == [app EXCEPT !.next = NextAction(Tasks(log) \cup {task})]
<1>4. TaskEvent(task) \in Event /\ Fits(TaskEvent(task), row)
  BY <1>2, BornFits DEF IInv
<1>5. TaskEvent(task).kind = "task" /\ Append1(TaskEvent(task), row)
  BY <1>3 DEF TaskEvent
<1>. HIDE DEF task, row
<1>. QED BY <1>1, <1>2, <1>4, <1>5, AppendStep DEF CreateTask, Wins

LEMMA UpdateTaskStep ==
  ASSUME IInv, NEW r \in Requests, UpdateTask(r)
  PROVE  IInv'
<1>1. OpTyped' /\ \A q \in Requests : op'[q] = op[q] \/ op'[q] = Idle
  BY EndTyped DEF UpdateTask, IInv
<1>2. Len(log) < MaxSteps /\ Wins(r)
  BY LogEvents, ApplicationsAssumption DEF UpdateTask, Room, IInv, TimelineInv, CountInv
<1>3. PICK task \in Tasks(log), status \in {"pending", "closed"}, rank \in Ranks :
        LET changed == [task EXCEPT !.rev = @ + 1, !.status = status, !.rank = rank]
        IN  Append1(TaskEvent(changed),
              [app EXCEPT !.next = NextAction((Tasks(log) \ {task}) \cup {changed})])
  BY <1>2, WinnerHasRead DEF UpdateTask
<1>. DEFINE changed == [task EXCEPT !.rev = @ + 1, !.status = status, !.rank = rank]
            row == [app EXCEPT !.next = NextAction((Tasks(log) \ {task}) \cup {changed})]
<1>4. TaskEvent(changed) \in Event /\ Fits(TaskEvent(changed), row)
  BY <1>2, ChangedFits DEF IInv
<1>5. TaskEvent(changed).kind = "task" /\ Append1(TaskEvent(changed), row)
  BY <1>3 DEF TaskEvent
<1>. HIDE DEF changed, row
<1>. QED BY <1>1, <1>2, <1>4, <1>5, AppendStep DEF UpdateTask, Wins

\* Reading, and being refused.
LEMMA ReaderStep ==
  ASSUME IInv, NEW r \in Requests, ReadRow(r) \/ ReadEvents(r) \/ Refused(r)
  PROVE  IInv'
<1>1. UNCHANGED <<app, log, draft, packets, diskVars, resumeVars, edits, faults>>
  BY DEF ReadRow, ReadEvents, Refused
<1>2. Len(log) \in 0..MaxSteps /\ app.rev = Len(log)
  BY LogEvents DEF IInv, TimelineInv, BoardExact, RowTyped, Row
<1>3. OpTyped' /\ \A q \in Requests \ {r} : op'[q] = op[q]
  <2>1. CASE ReadRow(r)
    <3>1. Doing("row", app.rev, 0, 0, None, None, 0) \in Request
      BY <1>2, ApplicationsAssumption DEF Doing, Request, Places
    <3>. QED BY <2>1, <3>1 DEF ReadRow, IInv, OpTyped
  <2>2. CASE ReadEvents(r)
    <3>1. Doing("events", op[r].rev, Len(log), 0, None, None, 0) \in Request
      BY <1>2, ApplicationsAssumption DEF Doing, Request, Places, IInv, OpTyped
    <3>. QED BY <2>2, <3>1 DEF ReadEvents, IInv, OpTyped
  <2>3. CASE Refused(r)
    BY <2>3, EndTyped DEF Refused, IInv
  <2>. QED BY <2>1, <2>2, <2>3
<1>4. /\ op[r].at \in {"idle", "row", "events"} /\ op'[r].at \in {"idle", "row", "events"}
      /\ op'[r].at = "row" => op'[r].rev = Len(log)
      /\ op'[r].at = "events" => /\ op'[r].rev = op[r].rev /\ op[r].at = "row"
                                 /\ op'[r].seen = Len(log)
  BY <1>2, IdleTyped DEF ReadRow, ReadEvents, Refused, At, End, Doing, IInv, OpTyped,
     Request
<1>5. ReaderInv'
  BY <1>1, <1>2, <1>3, <1>4 DEF IInv, ReaderInv, At
<1>6. VaultInv'
  BY <1>3, <1>4 DEF IInv, VaultInv, Publishing, Writing
<1>7. ClaimInv'
  BY <1>1, <1>3, <1>4 DEF IInv, ClaimInv, At, Allowed, Total, Packed, diskVars, resumeVars
<1>8. PacketsTyped' /\ PacketsKept'
  BY <1>1 DEF IInv, PacketsTyped, PacketsKept, Packed, Numbered, diskVars
<1>. QED BY <1>1, <1>3, <1>5, <1>6, <1>7, <1>8, ReadStep DEF IInv

-----------------------------------------------------------------------------
(* The resume and the dossier draft                                        *)

\* Edits are counted, and happen while nobody publishes.
LEMMA EditStep ==
  ASSUME IInv, WriterFree, UNCHANGED <<log, packets, diskVars, op, faults>>,
         Change \/ UNCHANGED edits
  PROVE  /\ CountInv' /\ OpTyped'
         /\ PacketsTyped' /\ ReaderInv' /\ VaultInv' /\ ClaimInv' /\ PacketsKept'
<1>1. Len(log) \in Nat
  BY LogEvents DEF IInv, TimelineInv
<1>2. CountInv'
  BY <1>1, ApplicationsAssumption DEF IInv, CountInv, Total, Change, Room
<1>3. OpTyped'
  BY DEF IInv, OpTyped
<1>. QED BY <1>1, <1>2, <1>3, FreeStep

LEMMA ResumeStep ==
  ASSUME IInv, Resume
  PROVE  IInv'
<1>1. /\ WriterFree /\ UNCHANGED <<log, packets, diskVars, op, faults>>
      /\ Change \/ UNCHANGED edits
  BY DEF Resume, EditResume, EditProfile, PublishResume, DeleteResume
<1>2. ResumeTyped'
  BY DEF Resume, EditResume, EditProfile, PublishResume, DeleteResume, IInv, ResumeTyped,
     ResumeExists, Versions
<1>3. TimelineInv'
  <2>1. CASE UNCHANGED <<app, log>>
    BY <2>1, Unlogged DEF IInv
  <2>2. CASE DeleteResume
    <3>1. app' = [app EXCEPT !.version = None] /\ UNCHANGED log
      BY <2>2 DEF DeleteResume
    <3>2. RowTyped' /\ app'.rev = app.rev /\ app'.next = app.next /\ app'.stage = app.stage
      BY <3>1 DEF IInv, TimelineInv, RowTyped, Row
    <3>. QED BY <3>1, <3>2 DEF IInv, TimelineInv, LogTyped, TaskInv, BoardExact,
                TimelineWhole, Numbered
  <2>. QED BY <2>1, <2>2 DEF Resume, EditResume, EditProfile, PublishResume
<1>4. DraftInv'
  <2>1. edits =< edits'
    BY DEF Resume, EditResume, EditProfile, PublishResume, DeleteResume, Change, IInv,
       CountInv
  <2>2. edits \in Nat /\ edits' \in Nat
    BY <1>1 DEF Change, IInv, CountInv
  <2>3. draft' = draft \/ draft' = None
    BY DEF Resume, EditResume, EditProfile, PublishResume, DeleteResume
  <2>. QED BY <1>1, <2>1, <2>2, <2>3 DEF IInv, DraftInv, DossierDraft, Dossiers
<1>. QED BY <1>1, <1>2, <1>3, <1>4, EditStep DEF IInv

LEMMA SavedTyped ==
  ASSUME IInv, app.rev > 0, Change, NEW content \in Contents, NEW to \in {"version", "resume"},
         NEW v \in Versions, draft' = Saved(content, to, v), UNCHANGED log
  PROVE  DraftInv'
<1>1. Len(log) \in Dossiers /\ app.rev = Len(log)
  BY LogEvents, ApplicationsAssumption DEF IInv, TimelineInv, BoardExact, RowTyped, Row,
     Dossiers
<1>2. edits' = edits + 1 /\ edits \in Nat /\ edits < MaxSteps
  BY <1>1, ApplicationsAssumption DEF Change, Room, IInv, CountInv, Dossiers
<1>3. draft # None => draft.rev \in Nat /\ draft.rev =< edits
  BY DEF IInv, DraftInv, DossierDraft, Dossiers
<1>. DEFINE rev == IF draft = None THEN 1 ELSE draft.rev + 1
<1>4. rev \in Dossiers /\ rev =< edits'
  BY <1>2, <1>3, ApplicationsAssumption DEF Dossiers
<1>5. draft' = [rev |-> rev, app |-> app.rev, content |-> content, to |-> to, version |-> v]
  BY DEF Saved
<1>. HIDE DEF rev
<1>. QED BY <1>1, <1>4, <1>5 DEF DraftInv, DossierDraft

LEMMA DraftStep ==
  ASSUME IInv, PutDraft \/ AcceptMaterials \/ DeleteDraft
  PROVE  IInv'
<1>1. /\ WriterFree /\ UNCHANGED <<app, log, packets, diskVars, op, faults>>
      /\ Change \/ UNCHANGED edits
  BY DEF PutDraft, AcceptMaterials, DeleteDraft
<1>2. ResumeTyped'
  BY DEF PutDraft, AcceptMaterials, DeleteDraft, IInv, ResumeTyped, resumeVars
<1>3. TimelineInv'
  BY <1>1, Unlogged DEF IInv
<1>4. DraftInv'
  <2>1. CASE PutDraft
    BY <2>1, SavedTyped DEF PutDraft, IInv, ResumeTyped, Versions
  <2>2. CASE AcceptMaterials
    <3>1. PICK content \in Contents :
            draft' = Saved(content, "resume", <<resume'.rev, profile>>)
      BY <2>2 DEF AcceptMaterials
    <3>2. <<resume'.rev, profile>> \in Versions
      BY <2>2 DEF AcceptMaterials, IInv, ResumeTyped, Versions
    <3>. QED BY <2>2, <3>1, <3>2, SavedTyped DEF AcceptMaterials
  <2>3. CASE DeleteDraft
    BY <2>3 DEF DeleteDraft, DraftInv
  <2>. QED BY <2>1, <2>2, <2>3
<1>. QED BY <1>1, <1>2, <1>3, <1>4, EditStep DEF IInv

-----------------------------------------------------------------------------
(* Reconciliation                                                          *)

\* Nobody else is between a claim and a commit then.
LEMMA ReconciledStep ==
  ASSUME IInv, Reconciled, UNCHANGED <<app, log, draft, packets, resumeVars, op, edits, faults>>,
         \A q \in Requests : op[q].at \notin {"claimed", "stored"}
  PROVE  IInv'
<1>1. PacketsTyped'
  BY DEF Reconciled, IInv, PacketsTyped
<1>2. OpTyped' /\ ReaderInv' /\ VaultInv'
  BY DEF IInv, OpTyped, ReaderInv, VaultInv, Publishing, Writing, At
<1>3. ClaimInv'
  BY DEF IInv, ClaimInv, Packed, At
<1>4. PacketsKept'
  BY DEF Reconciled, IInv, PacketsKept, Packed, Numbered
<1>. QED BY <1>1, <1>2, <1>3, <1>4, ReadStep DEF IInv

LEMMA ReconcileStep ==
  ASSUME IInv, NEW r \in Requests, Reconcile(r)
  PROVE  IInv'
<1>1. \A q \in Requests : op[q].at \notin {"claimed", "stored"}
  BY DEF Reconcile, At, IInv, VaultInv, Publishing, Writing
<1>. QED BY <1>1, ReconciledStep DEF Reconcile

LEMMA OtherReconcileStep ==
  ASSUME IInv, OtherReconcile
  PROVE  IInv'
<1>1. \A q \in Requests : op[q].at \notin {"claimed", "stored"}
  BY DEF OtherReconcile, VaultFree, Publishing, Writing
<1>. QED BY <1>1, ReconciledStep DEF OtherReconcile

-----------------------------------------------------------------------------
(* Publication                                                             *)

\* Steps that touch what requests do and count a fault, at most.
LEMMA OpStep ==
  ASSUME IInv, UNCHANGED <<app, log, draft, packets, diskVars, resumeVars, edits>>,
         OpTyped', ReaderInv', VaultInv', ClaimInv', UNCHANGED faults \/ Fault
  PROVE  IInv'
<1>1. PacketsTyped' /\ PacketsKept'
  BY DEF IInv, PacketsTyped, PacketsKept, Packed, Numbered, diskVars
<1>. QED BY <1>1, ReadStep DEF IInv

LEMMA CrashStep ==
  ASSUME IInv, Crash
  PROVE  IInv'
<1>1. OpTyped' /\ \A q \in Requests : op'[q] = Idle
  BY IdleTyped DEF Crash, OpTyped
<1>2. ReaderInv' /\ VaultInv' /\ ClaimInv'
  BY <1>1, IdleTyped DEF ReaderInv, VaultInv, Publishing, Writing, ClaimInv, At
<1>. QED BY <1>1, <1>2, OpStep DEF Crash

LEMMA DecideStep ==
  ASSUME IInv, NEW r \in Requests, Decide(r)
  PROVE  IInv'
<1>. DEFINE drafted == IF draft = None THEN 0 ELSE draft.rev
<1>1. PICK v \in published \cup {None},
           content \in IF draft = None THEN Contents ELSE {draft.content} :
        op' = [op EXCEPT ![r] = Doing("decided", app.rev, 0, drafted, content, v, 0)]
  BY DEF Decide
<1>2. content \in Contents /\ drafted \in 0..MaxSteps
  BY ApplicationsAssumption DEF IInv, DraftInv, DossierDraft, Dossiers
<1>. HIDE DEF drafted
<1>3. Doing("decided", app.rev, 0, drafted, content, v, 0) \in Request
  BY <1>2, ApplicationsAssumption DEF Doing, Request, Places, IInv, TimelineInv, RowTyped,
     Row,
     ResumeTyped
<1>4. OpTyped' /\ \A q \in Requests \ {r} : op'[q] = op[q]
  BY <1>1, <1>3 DEF IInv, OpTyped
<1>5. op'[r].at = "decided" /\ op'[r].content \in Contents
  BY <1>1, <1>2 DEF Doing, IInv, OpTyped
<1>6. ReaderInv' /\ VaultInv'
  BY <1>4, <1>5 DEF Decide, IInv, ReaderInv, VaultInv, Publishing, Writing, At
<1>7. ClaimInv'
  BY <1>4, <1>5 DEF Decide, IInv, ClaimInv, At, Allowed, Total, Packed, diskVars, resumeVars
<1>. QED BY <1>4, <1>6, <1>7, OpStep DEF Decide

LEMMA BeginStep ==
  ASSUME IInv, NEW r \in Requests, Begin(r)
  PROVE  IInv'
<1>1. OpTyped' /\ \A q \in Requests \ {r} : op'[q] = op[q]
  BY GoTyped, EndTyped DEF Begin, IInv, Places
<1>2. /\ At(r, "decided")
      /\ \/ op'[r] = Idle
         \/ VaultFree /\ op'[r].at = "recover" /\ op'[r].content = op[r].content
  <2>1. CASE End(r)
    BY <2>1, EndTyped DEF Begin, IInv
  <2>2. CASE VaultFree /\ Go(r, "recover")
    <3>1. op'[r] = [op[r] EXCEPT !.at = "recover"]
      BY <2>2, GoTyped DEF IInv, Places
    <3>. QED BY <2>2, <3>1 DEF Begin, IInv, OpTyped, Request
  <2>. QED BY <2>1, <2>2 DEF Begin
<1>3. ReaderInv' /\ VaultInv'
  BY <1>1, <1>2, IdleTyped DEF Begin, IInv, ReaderInv, VaultInv, VaultFree, Publishing,
     Writing, At
<1>4. ClaimInv'
  BY <1>1, <1>2, IdleTyped DEF Begin, IInv, ClaimInv, At, Allowed, Total, Packed, diskVars,
     resumeVars
<1>. QED BY <1>1, <1>3, <1>4, OpStep DEF Begin

\* The publication that ends, is given up or learns its outcome was the only one.
LEMMA OnlyOne ==
  ASSUME IInv, NEW r \in Requests, Publishing(r)
  PROVE  \A q \in Requests \ {r} : ~Publishing(q)
BY DEF IInv, VaultInv

LEMMA EndStep ==
  ASSUME IInv, NEW r \in Requests, Publishing(r), OpTyped',
         \A q \in Requests \ {r} : op'[q] = op[q],
         op'[r].at \in {"idle", "unknown", "committed", "abort", "again"},
         Len(log) =< Len(log'), Len(log') \in Nat,
         At(r, "committed")' => op'[r].dossier \in Packed'
  PROVE  ReaderInv' /\ VaultInv' /\ ClaimInv'
<1>1. \A q \in Requests \ {r} : ~Publishing(q)
  BY OnlyOne
<1>2. ReaderInv'
  <2>1. ASSUME NEW q \in Requests, op'[q].at \in {"row", "events"}
        PROVE  op'[q] = op[q] /\ op[q].rev \in Nat /\ op[q].seen \in Nat
    <3>1. op'[q] = op[q]
      BY <2>1
    <3>2. op[q] \in Request
      BY DEF IInv, OpTyped
    <3>. QED BY <3>1, <3>2 DEF Request
  <2>2. Len(log) \in Nat
    BY LogEvents DEF IInv, TimelineInv
  <2>. QED BY <2>1, <2>2 DEF IInv, ReaderInv, At
<1>3. VaultInv'
  BY <1>1 DEF VaultInv, Publishing, Writing
<1>4. ClaimInv'
  BY <1>1 DEF IInv, ClaimInv, Publishing, Writing, At
<1>. QED BY <1>2, <1>3, <1>4

LEMMA ReconcileFailsStep ==
  ASSUME IInv, NEW r \in Requests, ReconcileFails(r)
  PROVE  IInv'
<1>1. /\ OpTyped' /\ op'[r].at \in {"idle", "abort"}
      /\ \A q \in Requests \ {r} : op'[q] = op[q]
  BY RetreatTyped, EndTyped, IdleTyped DEF ReconcileFails, IInv
<1>2. Publishing(r)
  BY DEF ReconcileFails, Publishing, Writing, At
<1>3. ReaderInv' /\ VaultInv' /\ ClaimInv'
  BY <1>1, <1>2, LogEvents, EndStep DEF ReconcileFails, At, IInv, TimelineInv
<1>. QED BY <1>1, <1>3, OpStep DEF ReconcileFails

LEMMA ExamineStep ==
  ASSUME IInv, NEW r \in Requests, Examine(r)
  PROVE  IInv'
<1>1. /\ OpTyped' /\ op'[r].at \in {"committed", "abort"}
      /\ \A q \in Requests \ {r} : op'[q] = op[q]
      /\ op'[r].at = "committed" => op'[r].dossier \in Packed
  BY RetreatTyped, LeaveTyped DEF Examine, IInv, Places
<1>2. Publishing(r) /\ UNCHANGED <<log, Packed>>
  BY DEF Examine, Publishing, At, Packed
<1>3. ReaderInv' /\ VaultInv' /\ ClaimInv'
  BY <1>1, <1>2, LogEvents, EndStep DEF At, IInv, TimelineInv
<1>. QED BY <1>1, <1>3, OpStep DEF Examine

LEMMA AbortStep ==
  ASSUME IInv, NEW r \in Requests, Abort(r)
  PROVE  IInv'
<1>1. /\ OpTyped' /\ op'[r].at \in {"idle", "again"}
      /\ \A q \in Requests \ {r} : op'[q] = op[q]
  <2>1. CASE Go(r, "again")
    BY <2>1, GoTyped DEF IInv, Places, OpTyped, Request
  <2>2. CASE End(r)
    BY <2>2, EndTyped, IdleTyped DEF IInv
  <2>. QED BY <2>1, <2>2 DEF Abort
<1>2. Publishing(r)
  BY DEF Abort, Publishing, Writing, At
<1>3. ReaderInv' /\ VaultInv' /\ ClaimInv'
  BY <1>1, <1>2, LogEvents, EndStep DEF Abort, At, IInv, TimelineInv
<1>. QED BY <1>1, <1>3, OpStep DEF Abort

LEMMA FinishStep ==
  ASSUME IInv, NEW r \in Requests, Finish(r)
  PROVE  IInv'
<1>1. /\ OpTyped' /\ op'[r].at = "idle" /\ \A q \in Requests \ {r} : op'[q] = op[q]
  BY EndTyped, IdleTyped DEF Finish, IInv
<1>2. Publishing(r) /\ op[r].dossier \in Packed
  BY DEF Finish, Publishing, At, IInv, ClaimInv
<1>3. ReaderInv' /\ VaultInv' /\ ClaimInv'
  BY <1>1, <1>2, LogEvents, EndStep DEF Finish, At, IInv, TimelineInv
<1>4. PacketsTyped' /\ PacketsKept'
  BY <1>2 DEF Finish, IInv, PacketsTyped, PacketsKept, Packed, Numbered
<1>. QED BY <1>1, <1>3, <1>4, ReadStep DEF Finish, IInv

\* There is a dossier left for whoever has room for its event.
LEMMA NumberedBound ==
  ASSUME LogTyped
  PROVE  /\ IsFiniteSet(Numbered(log)) /\ Cardinality(Numbered(log)) \in 0..Len(log)
         /\ IsFiniteSet(Announced(log)) /\ Cardinality(Announced(log)) \in 0..Len(log)
<1>1. Len(log) \in Nat /\ Numbered(log) \in SUBSET (1..Len(log))
  BY LogEvents DEF Numbered
<1>2. IsFiniteSet(1..Len(log)) /\ Cardinality(1..Len(log)) = Len(log)
  <2>1. 1 \in Int /\ Len(log) \in Int
    BY <1>1
  <2>2. Cardinality(1..Len(log)) = IF 1 > Len(log) THEN 0 ELSE Len(log) - 1 + 1
    BY <2>1, FS_Interval
  <2>3. IsFiniteSet(1..Len(log))
    BY <2>1, FS_Interval
  <2>. QED BY <1>1, <2>2, <2>3
<1>3. IsFiniteSet(Numbered(log)) /\ Cardinality(Numbered(log)) =< Len(log)
  BY <1>1, <1>2, FS_Subset
<1>. DEFINE f == [i \in Numbered(log) |-> log[i].dossier]
<1>4. f \in Surjection(Numbered(log), Announced(log))
  BY DEF Announced, Surjection
<1>5. /\ IsFiniteSet(Announced(log))
      /\ Cardinality(Announced(log)) =< Cardinality(Numbered(log))
  BY <1>3, <1>4, FS_Surjection
<1>6. Cardinality(Numbered(log)) \in Nat /\ Cardinality(Announced(log)) \in Nat
  BY <1>3, <1>5, FS_CardinalityType
<1>. QED BY <1>1, <1>3, <1>5, <1>6

LEMMA FreshDossier ==
  ASSUME IInv, Room, journals = {}
  PROVE  NewDossier \in Dossiers /\ NewDossier \notin files \cup journals \cup Packed
<1>1. Len(log) \in Nat /\ Len(log) < MaxSteps /\ LogTyped
  BY LogEvents, ApplicationsAssumption DEF IInv, TimelineInv, CountInv, Room
<1>2. files \cup journals \cup Packed \subseteq Announced(log)
  BY DEF IInv, PacketsKept, Announced
<1>3. IsFiniteSet(Announced(log)) /\ Cardinality(Announced(log)) \in 0..Len(log)
  BY <1>1, NumberedBound
<1>4. Cardinality(Dossiers) = MaxSteps
  BY <1>1, FS_Interval, ApplicationsAssumption DEF Dossiers
<1>5. ASSUME Dossiers \subseteq Announced(log) PROVE FALSE
  <2>1. Cardinality(Dossiers) =< Cardinality(Announced(log))
    BY <1>3, <1>5, FS_Subset
  <2>. QED BY <1>1, <1>3, <1>4, <2>1, ApplicationsAssumption
<1>6. \E d \in Dossiers : d \notin files \cup journals \cup Packed
  BY <1>2, <1>5
<1>. QED BY <1>6 DEF NewDossier

\* What may be published is what Allowed keeps.
LEMMA PublishableAllowed ==
  ASSUME IInv, NEW r \in Requests, Publishable(r), op'[r].version = Chosen(r),
         op'[r].content = op[r].content,
         UNCHANGED <<app, draft, resumeVars>>
  PROVE  Allowed(r)'
<1>1. draft # None => draft.to \in {"version", "resume"}
  BY DEF IInv, DraftInv, DossierDraft
<1>2. Chosen(r) \in published
  BY DEF Publishable
<1>3. draft # None =>
        /\ op[r].content = draft.content /\ draft.app = app.rev
        /\ draft.to = "resume" => /\ Chosen(r) = <<draft.version[1], profile>>
                                  /\ resume.rev = draft.version[1]
        /\ draft.to = "version" => Chosen(r) = draft.version
  BY <1>1 DEF Publishable, Chosen
<1>. QED BY <1>2, <1>3 DEF Allowed, resumeVars

LEMMA ClaimStep ==
  ASSUME IInv, NEW r \in Requests, Claim(r)
  PROVE  IInv'
<1>1. Publishing(r) /\ op[r].content \in Contents
  BY DEF Claim, Publishing, Writing, At, IInv, ClaimInv
<1>2. Len(log) \in Nat
  BY LogEvents DEF IInv, TimelineInv
<1>3. CASE Retreat(r) /\ UNCHANGED journals
  <2>1. /\ OpTyped' /\ op'[r].at = "abort" /\ \A q \in Requests \ {r} : op'[q] = op[q]
    BY <1>3, RetreatTyped DEF IInv
  <2>2. ReaderInv' /\ VaultInv' /\ ClaimInv'
    BY <1>1, <1>2, <2>1, EndStep DEF Claim, At
  <2>. QED BY <1>3, <2>1, <2>2, OpStep DEF Claim, diskVars
<1>4. CASE /\ Publishable(r) /\ Room
           /\ journals' = {NewDossier}
           /\ op' = [op EXCEPT ![r] = Doing("claimed", op[r].rev, 0, op[r].draft,
                                            op[r].content, Chosen(r), NewDossier)]
  <2>1. /\ NewDossier \in Dossiers /\ NewDossier \notin Packed /\ NewDossier \notin files
        /\ Chosen(r) \in Versions
    BY <1>4, FreshDossier DEF Claim, Publishable, IInv, ResumeTyped
  <2>2. \A q \in Requests \ {r} : op'[q] = op[q] /\ ~Publishing(q)
    BY <1>1, <1>4, OnlyOne DEF IInv, OpTyped
  <2>3. /\ OpTyped'
        /\ op'[r].at = "claimed" /\ op'[r].version = Chosen(r)
        /\ op'[r].dossier = NewDossier /\ op'[r].content = op[r].content
    <3>1. Doing("claimed", op[r].rev, 0, op[r].draft, op[r].content, Chosen(r), NewDossier)
            \in Request
      BY <2>1, ApplicationsAssumption DEF IInv, OpTyped, Doing, Request, Places
    <3>. QED BY <1>4, <3>1 DEF IInv, OpTyped, Doing
  <2>4. Allowed(r)'
    BY <1>4, <2>3, PublishableAllowed DEF Claim
  <2>5. ReaderInv' /\ VaultInv'
    BY <2>2, <2>3 DEF Claim, IInv, ReaderInv, VaultInv, Publishing, Writing, At
  <2>6. ClaimInv'
    BY <1>1, <1>4, <2>1, <2>2, <2>3, <2>4
       DEF Claim, IInv, ClaimInv, Publishing, Writing, At, Packed, Room, Total
  <2>7. PacketsTyped' /\ PacketsKept'
    BY <1>4, <2>1 DEF Claim, IInv, PacketsTyped, PacketsKept, Packed, Numbered
  <2>. QED BY <2>3, <2>5, <2>6, <2>7, ReadStep DEF Claim, IInv
<1>. QED BY <1>3, <1>4 DEF Claim

LEMMA StoreStep ==
  ASSUME IInv, NEW r \in Requests, Store(r)
  PROVE  IInv'
<1>1. Publishing(r) /\ op[r].dossier \in Dossiers \cap journals
  BY DEF Store, Publishing, Writing, At, IInv, ClaimInv
<1>2. Len(log) \in Nat
  BY LogEvents DEF IInv, TimelineInv
<1>3. CASE Fault /\ Retreat(r) /\ UNCHANGED files
  <2>1. /\ OpTyped' /\ op'[r].at = "abort" /\ \A q \in Requests \ {r} : op'[q] = op[q]
    BY <1>3, RetreatTyped DEF IInv
  <2>2. ReaderInv' /\ VaultInv' /\ ClaimInv'
    BY <1>1, <1>2, <2>1, EndStep DEF Store, At
  <2>. QED BY <1>3, <2>1, <2>2, OpStep DEF Store, diskVars
<1>4. CASE Go(r, "stored") /\ files' = files \cup {op[r].dossier} /\ UNCHANGED faults
  <2>1. /\ OpTyped' /\ op'[r] = [op[r] EXCEPT !.at = "stored"]
        /\ \A q \in Requests \ {r} : op'[q] = op[q] /\ ~Publishing(q)
    BY <1>1, <1>4, GoTyped, OnlyOne DEF IInv, Places
  <2>2. /\ op'[r].at = "stored" /\ op'[r].dossier = op[r].dossier
        /\ op'[r].content = op[r].content /\ op'[r].version = op[r].version
    BY <2>1 DEF IInv, OpTyped, Request
  <2>3. ReaderInv' /\ VaultInv'
    BY <2>1, <2>2 DEF Store, IInv, ReaderInv, VaultInv, Publishing, Writing, At
  <2>4. ClaimInv'
    <3>1. /\ op[r].content \in Contents /\ Total < MaxSteps /\ Allowed(r)
          /\ op[r].dossier \notin Packed
      BY DEF Store, At, IInv, ClaimInv
    <3>2. Allowed(r)'
      BY <2>2, <3>1 DEF Store, Allowed, resumeVars
    <3>3. Total' = Total /\ Packed' = Packed /\ journals' = journals
          /\ op[r].dossier \in files'
      BY <1>4 DEF Store, Total, Packed
    <3>4. ASSUME NEW q \in Requests \ {r}
          PROVE  /\ op'[q].at \notin {"recover", "claimed", "stored", "committed"}
                 /\ op'[q].at = "decided" => op'[q].content \in Contents
      BY <2>1 DEF IInv, ClaimInv, Publishing, Writing
    <3>5. /\ op'[r].content \in Contents
          /\ op'[r].dossier \in Dossiers \cap journals' /\ op'[r].dossier \notin Packed'
          /\ op'[r].dossier \in files' /\ Total' < MaxSteps
      BY <1>1, <2>2, <3>1, <3>3
    <3>. QED BY <2>2, <3>2, <3>4, <3>5 DEF ClaimInv, At
  <2>5. PacketsTyped' /\ PacketsKept'
    BY <1>1, <1>4 DEF Store, IInv, PacketsTyped, PacketsKept, Packed, Numbered
  <2>. QED BY <1>4, <2>1, <2>3, <2>4, <2>5, ReadStep DEF Store, IInv
<1>. QED BY <1>3, <1>4 DEF Store

\* A commit that went through, acknowledged or not.
LEMMA CommittedStep ==
  ASSUME IInv, NEW r \in Requests, Commit(r),
         packets' = packets \cup {[dossier |-> op[r].dossier, content |-> op[r].content]},
         Append1(DossierEvent(op[r].dossier, 1 + Cardinality(Numbered(log))),
                 [app EXCEPT !.version = op[r].version]),
         draft' = None
  PROVE  IInv'
<1>. DEFINE d == op[r].dossier
            number == 1 + Cardinality(Numbered(log))
            e == DossierEvent(d, number)
            row == [app EXCEPT !.version = op[r].version]
<1>1. /\ op[r].content \in Contents /\ Total < MaxSteps /\ op[r].version \in published
      /\ d \in Dossiers \cap journals /\ d \notin Packed /\ d \in files /\ Publishing(r)
  BY DEF Commit, At, IInv, ClaimInv, Allowed, Publishing, Writing
<1>2. LogTyped /\ Len(log) \in Nat /\ Len(log) < MaxSteps
  BY <1>1, LogEvents, ApplicationsAssumption DEF IInv, TimelineInv, CountInv, Total
<1>3. number \in Dossiers
  BY <1>2, NumberedBound, ApplicationsAssumption DEF Dossiers
<1>4. e \in Event /\ e.kind = "dossier" /\ e.dossier = d /\ e.number = number
  BY <1>1, <1>3, EventKinds
<1>5. row \in Row /\ row.next = app.next /\ row.stage = app.stage
  BY <1>1 DEF IInv, TimelineInv, RowTyped, Row, ResumeTyped
<1>6. log' = Append(log, e)
  BY DEF Append1
<1>. HIDE DEF e, row
<1>7. Fits(e, row)
  BY <1>4, <1>5, PlainFits DEF IInv
<1>8. TimelineInv'
  BY <1>2, <1>4, <1>7, Timeline DEF IInv, e, row
<1>9. Announced(log') = Announced(log) \cup {d} /\ Len(log') = Len(log) + 1
  BY <1>2, <1>4, <1>6, AnnouncedAppended
<1>. DEFINE packet == [dossier |-> d, content |-> op[r].content]
<1>10. Packed' = Packed \cup {d}
  <2>1. packets' = packets \cup {packet} /\ packet.dossier = d
    OBVIOUS
  <2>. HIDE DEF packet, d
  <2>. QED BY <2>1 DEF Packed
<1>11. CountInv'
  <2>1. faults' = faults \/ faults' = faults + 1
    BY DEF Commit, Fault
  <2>2. edits' = edits /\ edits \in Nat /\ faults \in Nat /\ MaxSteps \in Nat
    BY ApplicationsAssumption DEF Commit, IInv, CountInv
  <2>3. Len(log) + edits + faults < MaxSteps
    BY <1>1 DEF Total
  <2>4. Total' = Len(log) + 1 + edits + faults'
    BY <1>9, <2>2 DEF Total
  <2>5. CASE faults' = faults
    <3>1. Total' \in 0..MaxSteps
      BY <1>2, <2>2, <2>3, <2>4, <2>5
    <3>. QED BY <2>2, <2>5, <3>1 DEF CountInv
  <2>6. CASE faults' = faults + 1
    <3>1. Total' \in 0..(MaxSteps + 1) /\ faults' \in Nat /\ faults' > 0 /\ Len(log') > 0
      BY <1>2, <1>9, <2>2, <2>3, <2>4, <2>6
    <3>2. Total' \in 0..MaxSteps \/ Total' = MaxSteps + 1
      BY <2>2, <3>1
    <3>. QED BY <2>2, <3>1, <3>2 DEF CountInv
  <2>. QED BY <2>1, <2>5, <2>6
<1>12. DraftInv' /\ ResumeTyped'
  BY DEF Commit, DraftInv, IInv, ResumeTyped, resumeVars
<1>13. /\ OpTyped' /\ op'[r].at \in {"committed", "unknown"} /\ op'[r].dossier = d
       /\ \A q \in Requests \ {r} : op'[q] = op[q]
  BY LeaveTyped DEF Commit, IInv, Places
<1>14. ReaderInv' /\ VaultInv' /\ ClaimInv'
  BY <1>1, <1>2, <1>9, <1>10, <1>13, EndStep
<1>15. PacketsTyped'
  BY <1>1 DEF Commit, IInv, PacketsTyped, diskVars
<1>16. PacketsKept'
  BY <1>1, <1>9, <1>10 DEF Commit, IInv, PacketsKept, Announced, diskVars
<1>. QED BY <1>8, <1>11, <1>12, <1>13, <1>14, <1>15, <1>16 DEF IInv

LEMMA CommitStep ==
  ASSUME IInv, NEW r \in Requests, Commit(r)
  PROVE  IInv'
<1>1. CASE UNCHANGED <<app, log, draft, packets>> /\ op'[r].at = "unknown"
  <2>1. /\ OpTyped' /\ \A q \in Requests \ {r} : op'[q] = op[q]
    BY LeaveTyped DEF Commit, IInv, Places
  <2>2. Publishing(r) /\ Len(log) \in Nat
    BY LogEvents DEF Commit, Publishing, Writing, At, IInv, TimelineInv
  <2>3. ReaderInv' /\ VaultInv' /\ ClaimInv'
    BY <1>1, <2>1, <2>2, EndStep DEF At
  <2>. QED BY <1>1, <2>1, <2>3, OpStep DEF Commit
<1>. QED BY <1>1, CommittedStep DEF Commit

-----------------------------------------------------------------------------
(* The invariant and the properties                                        *)

LEMMA InitInv ==
  ASSUME Init
  PROVE  IInv
<1>1. CountInv /\ ResumeTyped /\ PacketsTyped /\ DraftInv
  BY ApplicationsAssumption DEF Init, CountInv, Total, ResumeTyped, PacketsTyped, DraftInv
<1>2. log = <<>> /\ Len(log) = 0 /\ DOMAIN log = {} /\ Numbered(log) = {}
  BY DEF Init, Numbered
<1>3. TimelineInv
  <2>1. NextAction(Tasks(log)) = None
    BY <1>2 DEF Tasks, NextAction
  <2>2. RowTyped /\ LogTyped
    BY ApplicationsAssumption DEF Init, RowTyped, Row, LogTyped
  <2>3. TaskInv /\ TimelineWhole
    BY <1>2 DEF TaskInv, TimelineWhole
  <2>4. BoardExact
    BY <1>2, <2>1 DEF Init, BoardExact
  <2>. QED BY <2>2, <2>3, <2>4 DEF TimelineInv
<1>4. OpTyped /\ ReaderInv /\ VaultInv /\ ClaimInv
  BY IdleTyped DEF Init, OpTyped, ReaderInv, VaultInv, Publishing, Writing, ClaimInv, At
<1>5. PacketsKept
  BY <1>2 DEF Init, PacketsKept, Packed
<1>. QED BY <1>1, <1>3, <1>4, <1>5 DEF IInv

LEMMA StepInv ==
  ASSUME IInv, [Next]_vars
  PROVE  IInv'
<1>1. CASE UNCHANGED vars
  <2>1. UNCHANGED <<app, log, draft, packets, diskVars, resumeVars, op, edits, faults>>
    BY <1>1 DEF vars, diskVars, resumeVars
  <2>2. OpTyped' /\ ReaderInv' /\ VaultInv'
    BY <2>1 DEF IInv, OpTyped, ReaderInv, VaultInv, Publishing, Writing, At
  <2>3. ClaimInv'
    BY <2>1 DEF IInv, ClaimInv, At, Allowed, Total, Packed, diskVars, resumeVars
  <2>. QED BY <2>1, <2>2, <2>3, OpStep
<1>2. ASSUME NEW r \in Requests, Track(r) PROVE IInv'
  BY <1>2, ReaderStep, AppendEventStep, UpdatePreparationStep, CreateTaskStep,
     UpdateTaskStep
     DEF Track
<1>3. ASSUME NEW r \in Requests, PublishDossier(r) PROVE IInv'
  BY <1>3, DecideStep, BeginStep, ReconcileStep, ReconcileFailsStep, ClaimStep, StoreStep,
     CommitStep, ExamineStep, FinishStep, AbortStep DEF PublishDossier
<1>4. ASSUME Dossier PROVE IInv'
  BY <1>4, DraftStep, OtherReconcileStep DEF Dossier
<1>. QED BY <1>1, <1>2, <1>3, <1>4, CreateStep, ObserveStep, CrashStep, ResumeStep DEF Next

LEMMA SpecInv == Spec => []IInv
<1>1. Init => IInv
  BY InitInv
<1>2. IInv /\ [Next]_vars => IInv'
  BY StepInv
<1>. QED BY <1>1, <1>2, PTL DEF Spec

\* Row, timeline, draft, packets and requests stay well typed, within the bounds.
THEOREM ApplicationTypeCorrect == Spec => []TypeOK
<1>1. ASSUME IInv PROVE TypeOK
  <2>1. Len(log) \in Nat /\ edits \in 0..MaxSteps /\ faults \in 0..MaxSteps
        /\ Len(log) \in 0..MaxSteps
    BY <1>1, LogEvents, ApplicationsAssumption DEF IInv, CountInv, Total, TimelineInv
  <2>2. app \in Row /\ op \in [Requests -> Request]
    BY <1>1 DEF IInv, TimelineInv, RowTyped, OpTyped
  <2>3. ASSUME NEW i \in DOMAIN log
        PROVE  \/ log[i] = Note
               \/ \E stage \in Stages : log[i] = StageEvent(stage)
               \/ log[i].kind = "task" /\ log[i].task \in Task
               \/ \E d, number \in Dossiers : log[i] = DossierEvent(d, number)
    <3>1. log[i] \in Event
      BY <1>1, LogEvents DEF IInv, TimelineInv
    <3>. QED BY <3>1, EventKinds DEF Event
  <2>. QED BY <1>1, <2>1, <2>2, <2>3
           DEF TypeOK, IInv, Row, Request, Places, DraftInv, DossierDraft, PacketsTyped, ResumeTyped
<1>. QED BY <1>1, SpecInv, PTL

\* The row is the projection of the timeline, whoever wrote in between what a request
\* read of either.
THEOREM BoardIsExact == Spec => []BoardExact
<1>1. IInv => BoardExact
  BY DEF IInv, TimelineInv
<1>. QED BY <1>1, SpecInv, PTL

\* No event is lost or told twice: tasks are revised without a gap, dossiers numbered in
\* the order of their publication.
THEOREM TimelineIsWhole == Spec => []TimelineWhole
<1>1. IInv => TimelineWhole
  BY DEF IInv, TimelineInv
<1>. QED BY <1>1, SpecInv, PTL

\* Every packet keeps its event, its row and its file, and every other file is claimed,
\* through crashes and commits that went through unacknowledged.
THEOREM PacketsAreKept == Spec => []PacketsKept
<1>1. IInv => PacketsKept
  BY DEF IInv
<1>. QED BY <1>1, SpecInv, PTL

\* Packets come from commits.
LEMMA WhoPacks ==
  ASSUME IInv, [Next]_vars, NEW p \in packets' \ packets
  PROVE  \E r \in Requests :
           /\ At(r, "stored") /\ p = [dossier |-> op[r].dossier, content |-> op[r].content]
           /\ app' = [[app EXCEPT !.version = op[r].version] EXCEPT !.rev = app.rev + 1]
           /\ draft' = None
<1>1. UNCHANGED packets \/ \E r \in Requests : Commit(r) /\ ~UNCHANGED packets
  BY DEF Next, vars, Create, Observe, Crash, Resume, EditResume, EditProfile, PublishResume,
     DeleteResume, Dossier, PutDraft, AcceptMaterials, DeleteDraft, OtherReconcile, Track,
     ReadRow, ReadEvents, Refused, AppendEvent, UpdatePreparation, CreateTask, UpdateTask,
     PublishDossier, Decide, Begin, Reconcile, ReconcileFails, Claim, Store, Examine, Finish,
     Abort
<1>. QED BY <1>1 DEF Commit, Append1

\* A packet says what its author saved for the application as it was at that moment, with
\* a version that is published, current where the draft is bound to the resume draft.
THEOREM PacketsAreSaved == Spec => PacketFromSavedDraft
<1>1. ASSUME IInv, [Next]_vars, NEW p \in packets' \ packets
      PROVE  /\ app'.version \in published /\ draft' = None
             /\ draft # None =>
                  /\ p.content = draft.content /\ draft.app = app.rev
                  /\ draft.to = "resume" => /\ app'.version = <<draft.version[1], profile>>
                                            /\ resume.rev = draft.version[1]
                  /\ draft.to = "version" => app'.version = draft.version
  <2>1. PICK r \in Requests :
          /\ At(r, "stored") /\ p = [dossier |-> op[r].dossier, content |-> op[r].content]
          /\ app' = [[app EXCEPT !.version = op[r].version] EXCEPT !.rev = app.rev + 1]
          /\ draft' = None
    BY <1>1, WhoPacks
  <2>2. Allowed(r)
    BY <1>1, <2>1 DEF At, IInv, ClaimInv
  <2>. DEFINE linked == [app EXCEPT !.version = op[r].version]
  <2>3. linked = [rev |-> app.rev, stage |-> app.stage, next |-> app.next,
                  version |-> op[r].version]
    BY <1>1 DEF IInv, TimelineInv, RowTyped, Row
  <2>4. app'.version = op[r].version
    BY <2>1, <2>3
  <2>. QED BY <2>1, <2>2, <2>4 DEF Allowed
<1>2. IInv /\ [Next]_vars =>
        [\A p \in packets' \ packets :
           /\ app'.version \in published /\ draft' = None
           /\ draft # None =>
                /\ p.content = draft.content /\ draft.app = app.rev
                /\ draft.to = "resume" => /\ app'.version = <<draft.version[1], profile>>
                                          /\ resume.rev = draft.version[1]
                /\ draft.to = "version" => app'.version = draft.version]_vars
  BY <1>1
<1>. QED BY <1>2, SpecInv, PTL DEF Spec, PacketFromSavedDraft
============================================================================
