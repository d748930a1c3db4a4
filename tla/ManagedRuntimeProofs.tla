------------------------ MODULE ManagedRuntimeProofs ------------------------
(***************************************************************************)
(* The safety of the managed runtime for any number of models, requests,   *)
(* restarts and faults: one child at a time, in the hands of the manager,  *)
(* and a status that always has somebody who will settle it.  The argument *)
(* is the lease: it is taken in Begin only, so a start that still holds it *)
(* has met no other spawn since, and what it found is what it left.        *)
(***************************************************************************)
EXTENDS ManagedRuntime, TLAPS

\* The starters that are not installer threads.
Resident == {"boot", "restart"}

\* Who holds the lease is past Begin, and since it took it nobody else spawned: the
\* handle it found is gone or still the same, and at the spawn there is none.  Only an
\* installation can be cancelled while it holds the lease of an application that is up.
LeaseInv ==
  \A s \in Starters :
    /\ lease = s =>
         /\ ~StartAt(s, "none") /\ ~StartAt(s, "begin")
         /\ StartAt(s, "reap") => process \in {0, start[s].old}
         /\ StartAt(s, "spawn") => process = 0
    /\ s \in Resident /\ app = "up" /\ (lease = s \/ StartAt(s, "none") \/ StartAt(s, "begin"))
         => ~start[s].cancelled

\* Nobody is about to terminate the child.
Spared(child) ==
  /\ \A t \in Starters : start[t].old # child
  /\ \A c \in Calls : call[c].old # child

\* The child whose health the owner of the lease awaits is published and its own.
ChildInv ==
  \A s \in Starters : lease = s /\ StartAt(s, "health") =>
    /\ start[s].begun /\ start[s].child # 0 /\ endpoint = start[s].child
    /\ Spared(start[s].child)
    /\ \A t \in Starters \ {s} : start[t].child # start[s].child

\* The child of a ready manager is held, published, and terminated by a stop only.
ReadyInv ==
  phase = "ready" =>
    /\ process # 0 /\ endpoint = process
    /\ Spared(process)
    /\ \A s \in Starters : start[s].child = process => StartAt(s, "ok")

\* One child runs at most: the one whose handle is held.
OneChild == alive \subseteq {process}

\* Past the quiesce no installation may start a child, and nobody else is left.
ExitInv ==
  /\ app # "up" => Drained
  /\ app \in {"join", "last_stop", "exited"} => cancelled
  /\ app \in {"last_stop", "exited"} => StartAt("boot", "none")
  /\ ExitLeavesNoServer

\* Where a thread has still something to do before or after the start it makes.
Installing == {"inspect", "fetch_runtime", "check_runtime", "unpack", "publish", "mark",
               "fetch_model", "check_model", "launch", "dropped", "failed"}

\* The thread will still report how its installation went.
Reports(k) ==
  \/ worker[k].at \in Installing
  \/ At(k, "starting") /\ ~StartAt(k, "ok")

\* An installation whose setup may yet raise is the last one, and shows its own phase.
Shows(k) == Reports(k) /\ (At(k, "inspect") => task = k /\ phase = "downloading_runtime")

\* The setup of the last installation raised, whether or not the loop knows it yet.
SetupRaised ==
  \E k \in Workers :
    /\ task = k
    /\ worker[k].at \in {"raising", "raised"} \/ (raised /\ worker[k].at = "none")

\* Progress is shown on behalf of somebody who will replace it, or of a setup that raised.
PhaseInv ==
  app = "up" /\ phase \in Busy =>
    \/ \E k \in Workers : Shows(k)
    \/ phase = "downloading_runtime" /\ SetupRaised
    \/ /\ phase = "starting"
       /\ \E s \in Resident : /\ lease = s /\ start[s].begun
                              /\ start[s].at \in {"health", "failing"}

\* An installer thread is inside start() exactly while its start is in progress.
ThreadInv == \A k \in Workers : At(k, "starting") <=> ~StartAt(k, "none")

CallInv == \A c \in Calls : call[c].op = "none" => call[c].at = "none"

IInv ==
  /\ TypeOK
  /\ LeaseInv /\ ChildInv /\ ReadyInv /\ OneChild
  /\ ExitInv /\ PhaseInv /\ ThreadInv /\ CallInv

-----------------------------------------------------------------------------
(* Types                                                                   *)

\* The least of a set of handles.
LEMMA LeastFree ==
  ASSUME NEW S \in SUBSET Children, S # {}
  PROVE  (CHOOSE c \in S : \A d \in S : c <= d) \in S
<1>1. \E c \in S : \A d \in S : c <= d
  <2>1. \A d \in S : d \in {1, 2, 3, 4}
    BY DEF Children
  <2>2. CASE 1 \in S
    BY <2>1, <2>2
  <2>3. CASE 1 \notin S /\ 2 \in S
    BY <2>1, <2>3
  <2>4. CASE 1 \notin S /\ 2 \notin S /\ 3 \in S
    BY <2>1, <2>4
  <2>5. CASE 1 \notin S /\ 2 \notin S /\ 3 \notin S
    BY <2>1, <2>5
  <2>. QED BY <2>2, <2>3, <2>4, <2>5
<1>. QED BY <1>1

LEMMA CancelInstallTyped ==
  ASSUME TypeOK, CancelInstall
  PROVE  cancelled' \in BOOLEAN /\ paused' \in BOOLEAN /\ phase' \in Phases
BY DEF TypeOK, CancelInstall, Phases

LEMMA CancelledStart ==
  ASSUME NEW x \in Startup
  PROVE  /\ Cancelled(x) \in Startup /\ Cancelled(x).cancelled
         /\ Cancelled(x).at = x.at /\ Cancelled(x).model = x.model /\ Cancelled(x).begun = x.begun
         /\ Cancelled(x).child = x.child /\ Cancelled(x).old = x.old
BY Zenon DEF Cancelled, Startup

LEMMA NewStartTyped ==
  ASSUME NEW m \in Models \cup {None}
  PROVE  NewStart("begin", m) \in Startup /\ NoStart \in Startup
BY DEF NewStart, NoStart, Startup

LEMMA StartWorkerTyped ==
  ASSUME TypeOK, NEW m \in Models \cup {None}, StartWorker(m)
  PROVE  /\ worker' \in [Workers -> Worker] /\ task' \in Workers /\ workerDone' \in BOOLEAN
         /\ raised' \in BOOLEAN /\ phase' \in Phases /\ cancelled' \in BOOLEAN /\ paused' \in BOOLEAN
<1>1. worker' \in [Workers -> Worker]
  BY DEF TypeOK, StartWorker, Slots, Worker
<1>2. task' \in Workers /\ workerDone' \in BOOLEAN /\ raised' \in BOOLEAN
  BY DEF StartWorker, Slots
<1>3. phase' \in Phases /\ cancelled' \in BOOLEAN /\ paused' \in BOOLEAN
  BY DEF StartWorker, Phases
<1>. QED BY <1>1, <1>2, <1>3

LEMMA StopTyped ==
  ASSUME TypeOK, Stop
  PROVE  /\ start' \in [Starters -> Startup] /\ lease' \in Starters \cup {None}
         /\ phase' \in Phases /\ endpoint' \in {0} \cup Children
<1>1. start' \in [Starters -> Startup]
  BY CancelledStart DEF TypeOK, Stop
<1>2. lease' \in Starters \cup {None} /\ phase' \in Phases /\ endpoint' \in {0} \cup Children
  BY DEF TypeOK, Stop, Unpublish, Phases
<1>. QED BY <1>1, <1>2

LEMMA WaitTyped ==
  ASSUME TypeOK, NEW op \in {"resume", "cancel", "remove"}, NEW m \in Models \cup {None}, Wait(op, m)
  PROVE  call' \in [Calls -> Waiter]
BY DEF TypeOK, Wait, FirstWait, NewCall, Waiter

LEMMA SetupFailsTyped ==
  ASSUME TypeOK, NEW k \in Workers, SetupFails(k)
  PROVE  TypeOK'
BY DEF TypeOK, Worker, SetupFails, Go, disk, InstallKept, Elsewhere, events, serving

LEMMA InspectTyped ==
  ASSUME TypeOK, NEW k \in Workers, Inspect(k)
  PROVE  TypeOK'
<1>1. worker' \in [Workers -> Worker] /\ phase' \in Phases
  BY DEF TypeOK, Worker, Phases, Inspect, Go, Leave
<1>2. archive' \in {"absent", "part", "full"} /\ replaceFrom' \in Models \cup {None}
  BY DEF TypeOK, Inspect, Leave, InstallKept
<1>3. UNCHANGED <<runtime, weights, workerDone, task, raised>> /\ Elsewhere
  BY DEF Inspect, Leave, InstallKept
<1>. QED BY <1>1, <1>2, <1>3 DEF TypeOK, Elsewhere, events, serving

LEMMA FetchRuntimeTyped ==
  ASSUME TypeOK, NEW k \in Workers, FetchRuntime(k)
  PROVE  TypeOK'
BY DEF TypeOK, Worker, Phases, Workers, FetchRuntime, Go, Leave, Polled, Fragment,
   InstallKept, Elsewhere, events, serving

LEMMA CheckRuntimeTyped ==
  ASSUME TypeOK, NEW k \in Workers, CheckRuntime(k)
  PROVE  TypeOK'
BY DEF TypeOK, Worker, Phases, CheckRuntime, Go, Leave, Fragment, InstallKept, Elsewhere,
   events, serving

LEMMA UnpackTyped ==
  ASSUME TypeOK, NEW k \in Workers, Unpack(k)
  PROVE  TypeOK'
BY DEF TypeOK, Worker, Phases, Workers, Unpack, Go, Leave, disk, InstallKept, Elsewhere,
   events, serving

LEMMA PublishTyped ==
  ASSUME TypeOK, NEW k \in Workers, Publish(k)
  PROVE  TypeOK'
BY DEF TypeOK, Worker, Phases, Publish, Go, Leave, InstallKept, Elsewhere, events, serving

LEMMA MarkTyped ==
  ASSUME TypeOK, NEW k \in Workers, Mark(k)
  PROVE  TypeOK'
BY DEF TypeOK, Worker, Phases, Workers, Mark, Go, Leave, InstallKept, Elsewhere, events,
   serving

LEMMA FetchModelTyped ==
  ASSUME TypeOK, NEW k \in Workers, FetchModel(k)
  PROVE  TypeOK'
BY DEF TypeOK, Worker, Waiter, Phases, Starters, FetchModel, Go, Leave, Polled, Fragment,
   InstallKept, Elsewhere, events, serving

LEMMA CheckModelTyped ==
  ASSUME TypeOK, NEW k \in Workers, CheckModel(k)
  PROVE  TypeOK'
BY DEF TypeOK, Worker, Phases, CheckModel, Go, Leave, Fragment, InstallKept, Elsewhere,
   events, serving

LEMMA LaunchTyped ==
  ASSUME TypeOK, NEW k \in Workers, Launch(k)
  PROVE  TypeOK'
BY NewStartTyped DEF TypeOK, Worker, Phases, Workers, Launch, Go, Leave, Polled, disk,
   InstallKept, events, serving

LEMMA ReplaceTyped ==
  ASSUME TypeOK, NEW k \in Workers, Replace(k)
  PROVE  TypeOK'
BY DEF TypeOK, Worker, Phases, Workers, Replace, At, Go, Leave, Elsewhere, events, serving

LEMMA SettleTyped ==
  ASSUME TypeOK, NEW k \in Workers, Settle(k)
  PROVE  TypeOK'
BY DEF TypeOK, Worker, Phases, Workers, Settle, At, Go, Leave, disk, Elsewhere, events,
   serving, Children

LEMMA WorkerDoneTyped ==
  ASSUME TypeOK, NEW k \in Workers, WorkerDone(k)
  PROVE  TypeOK'
<1>1. worker' \in [Workers -> Worker]
  BY DEF TypeOK, Worker, WorkerDone, Go
<1>2. call' \in [Calls -> Waiter]
  BY DEF TypeOK, Waiter, WorkerDone
<1>3. workerDone' \in BOOLEAN
  BY DEF WorkerDone
<1>. QED BY <1>1, <1>2, <1>3 DEF TypeOK, WorkerDone, disk, events, serving

LEMMA TaskDoneTyped ==
  ASSUME TypeOK, NEW k \in Workers, TaskDone(k)
  PROVE  TypeOK'
<1>1. worker' \in [Workers -> Worker] /\ call' \in [Calls -> Waiter]
  <2>1. worker' \in [Workers -> Worker]
    BY DEF TypeOK, Worker, TaskDone
  <2>2. call' \in [Calls -> Waiter]
    BY DEF TypeOK, Waiter, TaskDone
  <2>. QED BY <2>1, <2>2
<1>2. cancelled' = cancelled /\ paused' = paused /\ faults' = faults /\ raised' \in BOOLEAN
  BY DEF TypeOK, TaskDone, At, events, serving
<1>. QED BY <1>1, <1>2 DEF TypeOK, TaskDone, disk, serving

LEMMA BeginTyped ==
  ASSUME TypeOK, NEW s \in Starters, Begin(s)
  PROVE  TypeOK'
BY DEF TypeOK, Startup, Workers, Starters, Begin, Move, RestKept, disk, events, install,
   serving

LEMMA VerifyTyped ==
  ASSUME TypeOK, NEW s \in Starters, Verify(s)
  PROVE  TypeOK'
BY DEF TypeOK, Startup, Workers, Verify, Move, RestKept, disk, events, install, serving

LEMMA StopOldTyped ==
  ASSUME TypeOK, NEW s \in Starters, StopOld(s)
  PROVE  TypeOK'
BY DEF TypeOK, Startup, Phases, Workers, StopOld, Move, Unpublish, RestKept, disk, events,
   install

LEMMA ReapOldTyped ==
  ASSUME TypeOK, NEW s \in Starters, ReapOld(s)
  PROVE  TypeOK'
BY RuntimeAssumption DEF TypeOK, Startup, Workers, Starters, ReapOld, Gone, Refuses,
   RestKept, disk, events, install

LEMMA SpawnTyped ==
  ASSUME TypeOK, NEW s \in Starters, Spawn(s)
  PROVE  TypeOK'
<1>. DEFINE child == CHOOSE c \in Free : \A d \in Free : c <= d
<1>1. child \in Children
  <2>1. Free \in SUBSET Children /\ Free # {}
    BY DEF Spawn, Free
  <2>. QED BY <2>1, LeastFree
<1>. HIDE DEF child
<1>2. /\ start' \in [Starters -> Startup] /\ phase' \in Phases
      /\ modelKey' \in Models \cup {None} /\ endpoint' \in {0} \cup Children
      /\ process' \in {0} \cup Children /\ alive' \subseteq Children
  <2>1. \/ /\ start' = [start EXCEPT ![s].at = "health", ![s].begun = TRUE, ![s].child = child]
           /\ phase' = "starting" /\ modelKey' = start[s].model
           /\ endpoint' = child /\ process' = child /\ alive' = alive \cup {child}
        \/ /\ start' = [start EXCEPT ![s].at = "failing", ![s].begun = TRUE]
           /\ phase' = "starting" /\ modelKey' = start[s].model /\ endpoint' = child
           /\ UNCHANGED <<process, alive>>
        \/ /\ start' = [start EXCEPT ![s].at = "failing"]
           /\ UNCHANGED <<phase, modelKey, endpoint, process, alive>>
    BY DEF Spawn, Move, child
  <2>2. start' \in [Starters -> Startup]
    BY <1>1, <2>1 DEF TypeOK, Startup
  <2>3. start[s].model \in Models \cup {None}
    BY DEF TypeOK, Startup
  <2>. QED BY <1>1, <2>1, <2>2, <2>3 DEF TypeOK, Phases
<1>3. UNCHANGED <<disk, events, install, call, lease, restarts, requests, faults, app>>
  BY DEF Spawn, RestKept
<1>. QED BY <1>2, <1>3 DEF TypeOK, disk, events, install

LEMMA HealthTyped ==
  ASSUME TypeOK, NEW s \in Starters, Health(s)
  PROVE  TypeOK'
BY DEF TypeOK, Startup, Phases, Workers, Starters, Health, Move, RestKept, disk, events,
   install, serving, Children

LEMMA FailingTyped ==
  ASSUME TypeOK, NEW s \in Starters, Failing(s)
  PROVE  TypeOK'
BY RuntimeAssumption DEF TypeOK, Startup, Phases, Workers, Failing, Move, RestKept, disk,
   events, install

LEMMA ReapNewTyped ==
  ASSUME TypeOK, NEW s \in Starters, ReapNew(s)
  PROVE  TypeOK'
BY RuntimeAssumption DEF TypeOK, Worker, Startup, ReapNew, Move, Gone, Refuses, RestKept,
   disk, events, install, Children

LEMMA FinishTyped ==
  ASSUME TypeOK, NEW s \in Starters, Finish(s)
  PROVE  TypeOK'
BY DEF TypeOK, Worker, Startup, Finish, NewStart, NoStart, disk, events, serving

LEMMA ChildDiesTyped ==
  ASSUME TypeOK, NEW child \in Children, ChildDies(child)
  PROVE  TypeOK'
BY RuntimeAssumption DEF TypeOK, ChildDies, disk, install, events

LEMMA InstallTyped ==
  ASSUME TypeOK, NEW m \in Models, NEW replace \in BOOLEAN, Install(m, replace)
  PROVE  TypeOK'
BY StartWorkerTyped, RuntimeAssumption DEF TypeOK, Install, Request, disk, serving

LEMMA PauseTyped ==
  ASSUME TypeOK, Pause
  PROVE  TypeOK'
BY RuntimeAssumption DEF TypeOK, Phases, Pause, Request, disk, install, serving

LEMMA WaitThreadTyped ==
  ASSUME TypeOK, NEW c \in Calls, WaitThread(c)
  PROVE  TypeOK'
BY DEF TypeOK, Waiter, Phases, Workers, Starters, WaitThread, disk, events, install, serving

LEMMA ThrownTyped ==
  ASSUME TypeOK, NEW c \in Calls, Thrown(c)
  PROVE  TypeOK'
BY DEF TypeOK, Waiter, Thrown, End, NewCall, NoCall, disk, events, install, serving

LEMMA ResumeTyped ==
  ASSUME TypeOK, Resume
  PROVE  TypeOK'
BY StartWorkerTyped, WaitTyped, RuntimeAssumption DEF TypeOK, Resume, Request, disk,
   events, serving

LEMMA ResumedTyped ==
  ASSUME TypeOK, NEW c \in Calls, Resumed(c)
  PROVE  TypeOK'
BY StartWorkerTyped DEF TypeOK, Waiter, Resumed, End, NewCall, NoCall, disk, serving

LEMMA CancelTyped ==
  ASSUME TypeOK, Cancel
  PROVE  TypeOK'
BY CancelInstallTyped, WaitTyped, RuntimeAssumption DEF TypeOK, Cancel, Request,
   DropFragments, install, serving

LEMMA DiscardTyped ==
  ASSUME TypeOK, NEW c \in Calls, Discard(c)
  PROVE  TypeOK'
BY DEF TypeOK, Waiter, Discard, DropFragments, End, NewCall, NoCall, events, install,
   serving

LEMMA RemoveTyped ==
  ASSUME TypeOK, Remove
  PROVE  TypeOK'
BY CancelInstallTyped, WaitTyped, RuntimeAssumption DEF TypeOK, Remove, Request, disk,
   install, serving

LEMMA EraseTyped ==
  ASSUME TypeOK, NEW c \in Calls, Erase(c)
  PROVE  TypeOK'
BY CancelInstallTyped DEF TypeOK, Waiter, Erase, End, NewCall, NoCall, disk, install,
   serving

LEMMA EraseStopTyped ==
  ASSUME TypeOK, NEW c \in Calls, EraseStop(c)
  PROVE  TypeOK'
<1>1. call' \in [Calls -> Waiter]
  <2>1. call' = [call EXCEPT ![c].at = "reap", ![c].old = process]
    BY DEF EraseStop
  <2>2. call \in [Calls -> Waiter] /\ process \in {0} \cup Children
    BY DEF TypeOK
  <2>3. call'[c] \in Waiter
    BY Zenon, <2>1, <2>2 DEF Waiter
  <2>. QED BY <2>1, <2>2, <2>3
<1>2. /\ start' \in [Starters -> Startup] /\ lease' \in Starters \cup {None}
      /\ phase' \in Phases /\ endpoint' \in {0} \cup Children
  BY StopTyped DEF EraseStop
<1>3. /\ UNCHANGED <<runtime, archive, weights, modelKey, replaceFrom, cancelled, paused>>
      /\ UNCHANGED <<worker, workerDone, task, raised, process, alive, restarts, requests, faults, app>>
  BY DEF EraseStop, disk, events, install
<1>4. /\ worker' \in [Workers -> Worker] /\ task' \in Workers \cup {None}
      /\ weights' \in [Models -> {"absent", "part", "full"}]
      /\ modelKey' \in Models \cup {None} /\ replaceFrom' \in Models \cup {None}
  BY <1>3 DEF TypeOK
<1>. QED BY <1>1, <1>2, <1>3, <1>4 DEF TypeOK

LEMMA EraseReapTyped ==
  ASSUME TypeOK, NEW c \in Calls, EraseReap(c)
  PROVE  TypeOK'
BY RuntimeAssumption DEF TypeOK, Worker, Startup, Waiter, Phases, Busy, Workers, Starters,
   EraseReap, Gone, Refuses, End, NewCall, NoCall, disk, events, install, serving,
   Children

LEMMA EraseDeleteTyped ==
  ASSUME TypeOK, NEW c \in Calls, EraseDelete(c)
  PROVE  TypeOK'
BY DEF TypeOK, Waiter, Phases, EraseDelete, End, NewCall, NoCall, events, install, serving

LEMMA RestartTyped ==
  ASSUME TypeOK, Restart
  PROVE  TypeOK'
BY RuntimeAssumption DEF TypeOK, Startup, Starters, Restart, Request, Move, disk, events,
   install, serving

LEMMA CancelStartupTyped ==
  ASSUME TypeOK, CancelStartup
  PROVE  TypeOK'
BY CancelledStart DEF TypeOK, CancelStartup, Down, disk, events, install, serving

LEMMA StopAllTyped ==
  ASSUME TypeOK, NEW from, NEW to \in {"quiesce", "exited"}, StopAll(from, to)
  PROVE  TypeOK'
<1>1. alive' \subseteq Children /\ process' \in {0} \cup Children /\ faults' \in 0..MaxFaults
  BY RuntimeAssumption DEF TypeOK, StopAll, Gone, Refuses
<1>2. Stop
  BY DEF StopAll
<1>3. app' = to
  BY DEF StopAll, Down
<1>. QED BY <1>1, <1>2, <1>3, StopTyped DEF TypeOK, StopAll, disk, events, install

LEMMA QuiesceTyped ==
  ASSUME TypeOK, Quiesce
  PROVE  TypeOK'
BY CancelInstallTyped DEF TypeOK, Quiesce, Down, disk, install, serving

LEMMA JoinTyped ==
  ASSUME TypeOK, Join
  PROVE  TypeOK'
BY DEF TypeOK, Join, Down, disk, events, install, serving

-----------------------------------------------------------------------------
(* Steps that leave the startups and the child alone                       *)

LEMMA ServingKept ==
  ASSUME IInv, UNCHANGED <<lease, start, process, endpoint, alive>>,
         phase' = phase \/ phase' # "ready",
         \A c \in Calls : call'[c].old \in {call[c].old, 0},
         app' = "up" => app = "up"
  PROVE  LeaseInv' /\ ChildInv' /\ ReadyInv' /\ OneChild'
<1>1. LeaseInv'
  BY DEF IInv, LeaseInv, StartAt
<1>2. ChildInv'
  BY DEF IInv, ChildInv, StartAt, Spared
<1>3. ReadyInv'
  BY DEF IInv, ReadyInv, StartAt, Spared
<1>4. OneChild'
  BY DEF IInv, OneChild
<1>. QED BY <1>1, <1>2, <1>3, <1>4

\* A step of an installer thread outside start().
LEMMA WorkerFrame ==
  ASSUME IInv, NEW k \in Workers, Elsewhere,
         \A j \in Workers \ {k} : worker'[j] = worker[j],
         UNCHANGED <<task, raised>>,
         worker[k].at \notin {"none", "starting", "raising", "raised"},
         worker'[k].at \notin {"starting", "inspect"},
         \/ phase' \notin Busy \cup {"ready"}
         \/ phase' # "ready" /\ worker'[k].at \in Installing
         \/ phase' = phase /\ (worker'[k].at \in Installing \/ ~Reports(k))
  PROVE  /\ LeaseInv' /\ ChildInv' /\ ReadyInv' /\ OneChild'
         /\ ExitInv' /\ PhaseInv' /\ ThreadInv' /\ CallInv'
<1>1. LeaseInv' /\ ChildInv' /\ ReadyInv' /\ OneChild'
  BY ServingKept DEF Elsewhere, serving
<1>2. ExitInv'
  BY DEF IInv, ExitInv, ExitLeavesNoServer, Drained, StartAt, Elsewhere, events, serving
<1>3. PhaseInv'
  <2>1. SUFFICES ASSUME app = "up", phase' \in Busy
                 PROVE  \/ \E j \in Workers : Shows(j)'
                        \/ phase' = "downloading_runtime" /\ SetupRaised'
                        \/ /\ phase' = "starting"
                           /\ \E s \in Resident : /\ lease' = s /\ start'[s].begun
                                                  /\ start'[s].at \in {"health", "failing"}
    BY DEF PhaseInv, Elsewhere
  <2>2. CASE worker'[k].at \in Installing
    BY <2>2 DEF Shows, Reports, Installing, At
  <2>3. CASE worker'[k].at \notin Installing
    <3>1. phase' = phase /\ ~Reports(k)
      BY <2>1, <2>3
    <3>2. CASE \E j \in Workers : Shows(j)
      BY <3>1, <3>2 DEF Shows, Reports, Installing, At, StartAt, Elsewhere
    <3>3. CASE phase = "downloading_runtime" /\ SetupRaised
      BY <3>1, <3>3 DEF SetupRaised
    <3>4. CASE ~(\E j \in Workers : Shows(j)) /\ ~(phase = "downloading_runtime" /\ SetupRaised)
      BY <2>1, <3>1, <3>4 DEF IInv, PhaseInv, Elsewhere
    <3>. QED BY <3>2, <3>3, <3>4
  <2>. QED BY <2>2, <2>3
<1>4. ThreadInv'
  BY DEF IInv, ThreadInv, At, StartAt, Elsewhere
<1>5. CallInv'
  BY DEF IInv, CallInv, Elsewhere
<1>. QED BY <1>1, <1>2, <1>3, <1>4, <1>5

\* A request while the application is up.
LEMMA RequestFrame ==
  ASSUME IInv, app' = "up", app = "up", UNCHANGED <<lease, start, serving>>,
         \A k \in Workers : worker'[k].at = "starting" <=> worker[k].at = "starting",
         \A c \in Calls : call'[c].old \in {call[c].old, 0}, CallInv',
         \/ phase' \notin Busy \cup {"ready"}
         \/ phase' = "downloading_runtime" /\ \E k \in Workers : worker'[k].at = "inspect" /\ task' = k
         \/ phase' = phase /\ UNCHANGED <<worker, task, raised>>
  PROVE  /\ LeaseInv' /\ ChildInv' /\ ReadyInv' /\ OneChild'
         /\ ExitInv' /\ PhaseInv' /\ ThreadInv' /\ CallInv'
<1>1. LeaseInv' /\ ChildInv' /\ ReadyInv' /\ OneChild'
  BY ServingKept DEF serving
<1>2. ExitInv'
  BY DEF ExitInv, ExitLeavesNoServer
<1>3. PhaseInv'
  <2>1. CASE phase' = phase /\ UNCHANGED <<worker, task, raised>>
    BY <2>1 DEF IInv, PhaseInv, Shows, SetupRaised, Reports, Installing, At, StartAt
  <2>2. CASE phase' = "downloading_runtime" /\ \E k \in Workers : worker'[k].at = "inspect" /\ task' = k
    BY <2>2 DEF PhaseInv, Shows, Reports, Installing, At
  <2>. QED BY <2>1, <2>2 DEF PhaseInv
<1>4. ThreadInv'
  BY DEF IInv, ThreadInv, At, StartAt
<1>. QED BY <1>1, <1>2, <1>3, <1>4

\* Requests are served while the application is up.
LEMMA CallUp ==
  ASSUME IInv, NEW c \in Calls, call[c].at # "none"
  PROVE  app = "up" /\ call[c].op # "none"
BY DEF IInv, ExitInv, Drained, CallInv

LEMMA SetupFailsStep ==
  ASSUME IInv, NEW k \in Workers, SetupFails(k)
  PROVE  IInv'
<1>1. LeaseInv' /\ ChildInv' /\ ReadyInv' /\ OneChild'
  BY ServingKept DEF SetupFails, Elsewhere, serving
<1>2. ExitInv' /\ CallInv'
  BY DEF IInv, ExitInv, CallInv, ExitLeavesNoServer, Drained, StartAt, SetupFails,
     Elsewhere, events, serving
<1>3. PhaseInv'
  <2>1. /\ worker[k].at = "inspect" /\ worker'[k].at = "raising"
        /\ \A j \in Workers \ {k} : worker'[j] = worker[j]
    BY DEF IInv, TypeOK, SetupFails, At, Go
  <2>2. UNCHANGED <<task, raised, phase, lease, start, app>>
    BY DEF SetupFails, InstallKept, Elsewhere
  <2>3. CASE \E j \in Workers : Shows(j)
    <3>1. PICK j \in Workers : Shows(j)
      BY <2>3
    <3>2. CASE j = k
      <4>1. task' = k /\ phase' = "downloading_runtime"
        BY <2>1, <2>2, <3>1, <3>2 DEF Shows, At
      <4>2. SetupRaised'
        BY <2>1, <4>1 DEF SetupRaised
      <4>. QED BY <4>1, <4>2 DEF PhaseInv
    <3>3. CASE j # k
      <4>1. Shows(j)'
        BY <2>1, <2>2, <3>1, <3>3 DEF Shows, Reports, At, StartAt
      <4>. QED BY <4>1 DEF PhaseInv
    <3>. QED BY <3>2, <3>3
  <2>4. SetupRaised => SetupRaised'
    BY <2>1, <2>2 DEF SetupRaised
  <2>. QED BY <2>2, <2>3, <2>4 DEF IInv, PhaseInv
<1>4. ThreadInv'
  BY DEF IInv, TypeOK, ThreadInv, At, StartAt, SetupFails, Go, Elsewhere
<1>. QED BY <1>1, <1>2, <1>3, <1>4, SetupFailsTyped DEF IInv

LEMMA InspectStep ==
  ASSUME IInv, NEW k \in Workers, Inspect(k)
  PROVE  IInv'
<1>1. Elsewhere
  BY DEF Inspect
<1>2. /\ \A j \in Workers \ {k} : worker'[j] = worker[j]
      /\ worker[k].at \notin {"none", "starting", "raising", "raised"}
      /\ worker'[k].at \notin {"starting", "inspect"} /\ UNCHANGED <<task, raised>>
  BY DEF IInv, TypeOK, Worker, Inspect, At, Go, Leave, InstallKept
<1>3. \/ phase' \notin Busy \cup {"ready"}
      \/ phase' # "ready" /\ worker'[k].at \in Installing
      \/ phase' = phase /\ (worker'[k].at \in Installing \/ ~Reports(k))
  BY DEF IInv, TypeOK, Worker, Busy, Installing, Inspect, Go, Leave
<1>. QED BY <1>1, <1>2, <1>3, WorkerFrame, InspectTyped DEF IInv

LEMMA FetchRuntimeStep ==
  ASSUME IInv, NEW k \in Workers, FetchRuntime(k)
  PROVE  IInv'
<1>1. Elsewhere
  BY DEF FetchRuntime
<1>2. /\ \A j \in Workers \ {k} : worker'[j] = worker[j]
      /\ worker[k].at \notin {"none", "starting", "raising", "raised"}
      /\ worker'[k].at \notin {"starting", "inspect"} /\ UNCHANGED <<task, raised>>
  BY DEF IInv, TypeOK, Worker, FetchRuntime, At, Go, Leave, InstallKept
<1>3. \/ phase' \notin Busy \cup {"ready"}
      \/ phase' # "ready" /\ worker'[k].at \in Installing
      \/ phase' = phase /\ (worker'[k].at \in Installing \/ ~Reports(k))
  BY DEF IInv, TypeOK, Worker, Busy, Installing, FetchRuntime, At, Go, Leave, Polled
<1>. QED BY <1>1, <1>2, <1>3, WorkerFrame, FetchRuntimeTyped DEF IInv

LEMMA CheckRuntimeStep ==
  ASSUME IInv, NEW k \in Workers, CheckRuntime(k)
  PROVE  IInv'
<1>1. Elsewhere
  BY DEF CheckRuntime
<1>2. /\ \A j \in Workers \ {k} : worker'[j] = worker[j]
      /\ worker[k].at \notin {"none", "starting", "raising", "raised"}
      /\ worker'[k].at \notin {"starting", "inspect"} /\ UNCHANGED <<task, raised>>
  BY DEF IInv, TypeOK, Worker, CheckRuntime, At, Go, Leave, InstallKept
<1>3. \/ phase' \notin Busy \cup {"ready"}
      \/ phase' # "ready" /\ worker'[k].at \in Installing
      \/ phase' = phase /\ (worker'[k].at \in Installing \/ ~Reports(k))
  BY DEF IInv, TypeOK, Worker, Busy, Installing, CheckRuntime, Go, Leave
<1>. QED BY <1>1, <1>2, <1>3, WorkerFrame, CheckRuntimeTyped DEF IInv

LEMMA UnpackStep ==
  ASSUME IInv, NEW k \in Workers, Unpack(k)
  PROVE  IInv'
<1>1. Elsewhere
  BY DEF Unpack
<1>2. /\ \A j \in Workers \ {k} : worker'[j] = worker[j]
      /\ worker[k].at \notin {"none", "starting", "raising", "raised"}
      /\ worker'[k].at \notin {"starting", "inspect"} /\ UNCHANGED <<task, raised>>
  BY DEF IInv, TypeOK, Worker, Unpack, At, Go, Leave, InstallKept
<1>3. \/ phase' \notin Busy \cup {"ready"}
      \/ phase' # "ready" /\ worker'[k].at \in Installing
      \/ phase' = phase /\ (worker'[k].at \in Installing \/ ~Reports(k))
  BY DEF IInv, TypeOK, Worker, Busy, Installing, Unpack, Go, Leave
<1>. QED BY <1>1, <1>2, <1>3, WorkerFrame, UnpackTyped DEF IInv

LEMMA PublishStep ==
  ASSUME IInv, NEW k \in Workers, Publish(k)
  PROVE  IInv'
<1>1. Elsewhere
  BY DEF Publish
<1>2. /\ \A j \in Workers \ {k} : worker'[j] = worker[j]
      /\ worker[k].at \notin {"none", "starting", "raising", "raised"}
      /\ worker'[k].at \notin {"starting", "inspect"} /\ UNCHANGED <<task, raised>>
  BY DEF IInv, TypeOK, Worker, Publish, At, Go, Leave, InstallKept
<1>3. \/ phase' \notin Busy \cup {"ready"}
      \/ phase' # "ready" /\ worker'[k].at \in Installing
      \/ phase' = phase /\ (worker'[k].at \in Installing \/ ~Reports(k))
  BY DEF IInv, TypeOK, Worker, Busy, Installing, Publish, Go, Leave
<1>. QED BY <1>1, <1>2, <1>3, WorkerFrame, PublishTyped DEF IInv

LEMMA MarkStep ==
  ASSUME IInv, NEW k \in Workers, Mark(k)
  PROVE  IInv'
<1>1. Elsewhere
  BY DEF Mark
<1>2. /\ \A j \in Workers \ {k} : worker'[j] = worker[j]
      /\ worker[k].at \notin {"none", "starting", "raising", "raised"}
      /\ worker'[k].at \notin {"starting", "inspect"} /\ UNCHANGED <<task, raised>>
  BY DEF IInv, TypeOK, Worker, Mark, At, Go, Leave, InstallKept
<1>3. \/ phase' \notin Busy \cup {"ready"}
      \/ phase' # "ready" /\ worker'[k].at \in Installing
      \/ phase' = phase /\ (worker'[k].at \in Installing \/ ~Reports(k))
  BY DEF IInv, TypeOK, Worker, Busy, Installing, Mark, Go, Leave
<1>. QED BY <1>1, <1>2, <1>3, WorkerFrame, MarkTyped DEF IInv

LEMMA FetchModelStep ==
  ASSUME IInv, NEW k \in Workers, FetchModel(k)
  PROVE  IInv'
<1>1. Elsewhere
  BY DEF FetchModel
<1>2. /\ \A j \in Workers \ {k} : worker'[j] = worker[j]
      /\ worker[k].at \notin {"none", "starting", "raising", "raised"}
      /\ worker'[k].at \notin {"starting", "inspect"} /\ UNCHANGED <<task, raised>>
  BY DEF IInv, TypeOK, Worker, FetchModel, At, Go, Leave, InstallKept
<1>3. \/ phase' \notin Busy \cup {"ready"}
      \/ phase' # "ready" /\ worker'[k].at \in Installing
      \/ phase' = phase /\ (worker'[k].at \in Installing \/ ~Reports(k))
  BY DEF IInv, TypeOK, Worker, Busy, Installing, FetchModel, At, Go, Leave, Polled
<1>. QED BY <1>1, <1>2, <1>3, WorkerFrame, FetchModelTyped DEF IInv

LEMMA CheckModelStep ==
  ASSUME IInv, NEW k \in Workers, CheckModel(k)
  PROVE  IInv'
<1>1. Elsewhere
  BY DEF CheckModel
<1>2. /\ \A j \in Workers \ {k} : worker'[j] = worker[j]
      /\ worker[k].at \notin {"none", "starting", "raising", "raised"}
      /\ worker'[k].at \notin {"starting", "inspect"} /\ UNCHANGED <<task, raised>>
  BY DEF IInv, TypeOK, Worker, CheckModel, At, Go, Leave, InstallKept
<1>3. \/ phase' \notin Busy \cup {"ready"}
      \/ phase' # "ready" /\ worker'[k].at \in Installing
      \/ phase' = phase /\ (worker'[k].at \in Installing \/ ~Reports(k))
  BY DEF IInv, TypeOK, Worker, Busy, Installing, CheckModel, Go, Leave
<1>. QED BY <1>1, <1>2, <1>3, WorkerFrame, CheckModelTyped DEF IInv

LEMMA ReplaceStep ==
  ASSUME IInv, NEW k \in Workers, Replace(k)
  PROVE  IInv'
<1>1. Elsewhere
  BY DEF Replace
<1>2. /\ \A j \in Workers \ {k} : worker'[j] = worker[j]
      /\ worker[k].at \notin {"none", "starting", "raising", "raised"}
      /\ worker'[k].at \notin {"starting", "inspect"} /\ UNCHANGED <<task, raised>>
  BY DEF IInv, TypeOK, Worker, Replace, At, Go, Leave, InstallKept
<1>3. \/ phase' \notin Busy \cup {"ready"}
      \/ phase' # "ready" /\ worker'[k].at \in Installing
      \/ phase' = phase /\ (worker'[k].at \in Installing \/ ~Reports(k))
  BY DEF Busy, Reports, Installing, Replace, At, Leave
<1>. QED BY <1>1, <1>2, <1>3, WorkerFrame, ReplaceTyped DEF IInv

LEMMA SettleStep ==
  ASSUME IInv, NEW k \in Workers, Settle(k)
  PROVE  IInv'
<1>1. Elsewhere
  BY DEF Settle
<1>2. /\ \A j \in Workers \ {k} : worker'[j] = worker[j]
      /\ worker[k].at \notin {"none", "starting", "raising", "raised"}
      /\ worker'[k].at \notin {"starting", "inspect"} /\ UNCHANGED <<task, raised>>
  BY DEF IInv, TypeOK, Worker, Settle, At, Go, Leave, InstallKept
<1>3. \/ phase' \notin Busy \cup {"ready"}
      \/ phase' # "ready" /\ worker'[k].at \in Installing
      \/ phase' = phase /\ (worker'[k].at \in Installing \/ ~Reports(k))
  BY DEF Busy, Settle, Leave
<1>. QED BY <1>1, <1>2, <1>3, WorkerFrame, SettleTyped DEF IInv

LEMMA WaitThreadStep ==
  ASSUME IInv, NEW c \in Calls, WaitThread(c)
  PROVE  IInv'
<1>1. app = "up" /\ app' = "up"
  BY CallUp DEF WaitThread, Proceeds
<1>2. UNCHANGED <<lease, start, serving>>
  BY DEF WaitThread
<1>3. \A j \in Workers : worker'[j].at = "starting" <=> worker[j].at = "starting"
  BY DEF WaitThread, install
<1>4. (\A d \in Calls : call'[d].old \in {call[d].old, 0}) /\ CallInv'
  BY CallUp DEF CallInv, WaitThread
<1>5. \/ phase' \notin Busy \cup {"ready"}
      \/ phase' = "downloading_runtime" /\ \E j \in Workers : worker'[j].at = "inspect" /\ task' = j
      \/ phase' = phase /\ UNCHANGED <<worker, task, raised>>
  BY DEF WaitThread, install
<1>. QED BY <1>1, <1>2, <1>3, <1>4, <1>5, RequestFrame, WaitThreadTyped DEF IInv

LEMMA ResumeStep ==
  ASSUME IInv, Resume
  PROVE  IInv'
<1>1. app = "up" /\ app' = "up"
  BY DEF Resume, Request
<1>2. UNCHANGED <<lease, start, serving>>
  BY DEF Resume
<1>3. \A j \in Workers : worker'[j].at = "starting" <=> worker[j].at = "starting"
  BY DEF IInv, TypeOK, Resume, StartWorker, Slots
<1>4. (\A d \in Calls : call'[d].old \in {call[d].old, 0}) /\ CallInv'
  BY DEF IInv, TypeOK, CallInv, Resume, Wait, NewCall
<1>5. \/ phase' \notin Busy \cup {"ready"}
      \/ phase' = "downloading_runtime" /\ \E j \in Workers : worker'[j].at = "inspect" /\ task' = j
      \/ phase' = phase /\ UNCHANGED <<worker, task, raised>>
  BY DEF IInv, TypeOK, Resume, StartWorker, Slots
<1>. QED BY <1>1, <1>2, <1>3, <1>4, <1>5, RequestFrame, ResumeTyped DEF IInv

LEMMA ResumedStep ==
  ASSUME IInv, NEW c \in Calls, Resumed(c)
  PROVE  IInv'
<1>1. app = "up" /\ app' = "up"
  BY CallUp DEF Resumed, Proceeds
<1>2. UNCHANGED <<lease, start, serving>>
  BY DEF Resumed
<1>3. \A j \in Workers : worker'[j].at = "starting" <=> worker[j].at = "starting"
  BY DEF Resumed, StartWorker, Slots
<1>4. (\A d \in Calls : call'[d].old \in {call[d].old, 0}) /\ CallInv'
  BY CallUp DEF CallInv, Resumed, End, NewCall, NoCall
<1>5. \/ phase' \notin Busy \cup {"ready"}
      \/ phase' = "downloading_runtime" /\ \E j \in Workers : worker'[j].at = "inspect" /\ task' = j
      \/ phase' = phase /\ UNCHANGED <<worker, task, raised>>
  BY DEF IInv, TypeOK, Resumed, StartWorker, Slots
<1>. QED BY <1>1, <1>2, <1>3, <1>4, <1>5, RequestFrame, ResumedTyped DEF IInv

LEMMA CancelStep ==
  ASSUME IInv, Cancel
  PROVE  IInv'
<1>1. app = "up" /\ app' = "up"
  BY DEF Cancel, Request
<1>2. UNCHANGED <<lease, start, serving>>
  BY DEF Cancel
<1>3. \A j \in Workers : worker'[j].at = "starting" <=> worker[j].at = "starting"
  BY DEF Cancel, install
<1>4. (\A d \in Calls : call'[d].old \in {call[d].old, 0}) /\ CallInv'
  BY DEF IInv, TypeOK, CallInv, Cancel, Wait, NewCall
<1>5. \/ phase' \notin Busy \cup {"ready"}
      \/ phase' = "downloading_runtime" /\ \E j \in Workers : worker'[j].at = "inspect" /\ task' = j
      \/ phase' = phase /\ UNCHANGED <<worker, task, raised>>
  BY DEF Busy, Cancel, CancelInstall, install
<1>. QED BY <1>1, <1>2, <1>3, <1>4, <1>5, RequestFrame, CancelTyped DEF IInv

LEMMA DiscardStep ==
  ASSUME IInv, NEW c \in Calls, Discard(c)
  PROVE  IInv'
<1>1. app = "up" /\ app' = "up"
  BY CallUp DEF Discard, Proceeds
<1>2. UNCHANGED <<lease, start, serving>>
  BY DEF Discard
<1>3. \A j \in Workers : worker'[j].at = "starting" <=> worker[j].at = "starting"
  BY DEF Discard, install
<1>4. (\A d \in Calls : call'[d].old \in {call[d].old, 0}) /\ CallInv'
  BY CallUp DEF CallInv, Discard, End, NewCall, NoCall
<1>5. \/ phase' \notin Busy \cup {"ready"}
      \/ phase' = "downloading_runtime" /\ \E j \in Workers : worker'[j].at = "inspect" /\ task' = j
      \/ phase' = phase /\ UNCHANGED <<worker, task, raised>>
  BY DEF Discard, install
<1>. QED BY <1>1, <1>2, <1>3, <1>4, <1>5, RequestFrame, DiscardTyped DEF IInv

LEMMA ThrownStep ==
  ASSUME IInv, NEW c \in Calls, Thrown(c)
  PROVE  IInv'
<1>1. app = "up" /\ app' = "up"
  BY CallUp DEF Thrown, Proceeds
<1>2. UNCHANGED <<lease, start, serving>>
  BY DEF Thrown
<1>3. \A j \in Workers : worker'[j].at = "starting" <=> worker[j].at = "starting"
  BY DEF Thrown, install
<1>4. (\A d \in Calls : call'[d].old \in {call[d].old, 0}) /\ CallInv'
  BY CallUp DEF CallInv, Thrown, End, NewCall, NoCall
<1>5. \/ phase' \notin Busy \cup {"ready"}
      \/ phase' = "downloading_runtime" /\ \E j \in Workers : worker'[j].at = "inspect" /\ task' = j
      \/ phase' = phase /\ UNCHANGED <<worker, task, raised>>
  BY DEF Thrown, install
<1>. QED BY <1>1, <1>2, <1>3, <1>4, <1>5, RequestFrame, ThrownTyped DEF IInv

LEMMA RemoveStep ==
  ASSUME IInv, Remove
  PROVE  IInv'
<1>1. app = "up" /\ app' = "up"
  BY DEF Remove, Request
<1>2. UNCHANGED <<lease, start, serving>>
  BY DEF Remove
<1>3. \A j \in Workers : worker'[j].at = "starting" <=> worker[j].at = "starting"
  BY DEF Remove, install
<1>4. (\A d \in Calls : call'[d].old \in {call[d].old, 0}) /\ CallInv'
  BY CallUp DEF CallInv, Remove, Wait, NewCall
<1>5. \/ phase' \notin Busy \cup {"ready"}
      \/ phase' = "downloading_runtime" /\ \E j \in Workers : worker'[j].at = "inspect" /\ task' = j
      \/ phase' = phase /\ UNCHANGED <<worker, task, raised>>
  BY DEF Busy, Remove, CancelInstall, install
<1>. QED BY <1>1, <1>2, <1>3, <1>4, <1>5, RequestFrame, RemoveTyped DEF IInv

LEMMA EraseStep ==
  ASSUME IInv, NEW c \in Calls, Erase(c)
  PROVE  IInv'
<1>1. app = "up" /\ app' = "up"
  BY CallUp DEF Erase, Proceeds
<1>2. UNCHANGED <<lease, start, serving>>
  BY DEF Erase
<1>3. \A j \in Workers : worker'[j].at = "starting" <=> worker[j].at = "starting"
  BY DEF Erase, install
<1>4. (\A d \in Calls : call'[d].old \in {call[d].old, 0}) /\ CallInv'
  BY DEF IInv, TypeOK, Waiter, CallInv, Proceeds, Erase, End, NewCall, NoCall
<1>5. \/ phase' \notin Busy \cup {"ready"}
      \/ phase' = "downloading_runtime" /\ \E j \in Workers : worker'[j].at = "inspect" /\ task' = j
      \/ phase' = phase /\ UNCHANGED <<worker, task, raised>>
  BY DEF Busy, Erase, CancelInstall, install
<1>. QED BY <1>1, <1>2, <1>3, <1>4, <1>5, RequestFrame, EraseTyped DEF IInv

LEMMA EraseDeleteStep ==
  ASSUME IInv, NEW c \in Calls, EraseDelete(c)
  PROVE  IInv'
<1>1. app = "up" /\ app' = "up"
  BY CallUp DEF EraseDelete, Proceeds
<1>2. UNCHANGED <<lease, start, serving>>
  BY DEF EraseDelete
<1>3. \A j \in Workers : worker'[j].at = "starting" <=> worker[j].at = "starting"
  BY DEF EraseDelete, install
<1>4. (\A d \in Calls : call'[d].old \in {call[d].old, 0}) /\ CallInv'
  BY CallUp DEF CallInv, EraseDelete, End, NewCall, NoCall
<1>5. \/ phase' \notin Busy \cup {"ready"}
      \/ phase' = "downloading_runtime" /\ \E j \in Workers : worker'[j].at = "inspect" /\ task' = j
      \/ phase' = phase /\ UNCHANGED <<worker, task, raised>>
  BY DEF Busy, EraseDelete, install
<1>. QED BY <1>1, <1>2, <1>3, <1>4, <1>5, RequestFrame, EraseDeleteTyped DEF IInv

LEMMA InstallStep ==
  ASSUME IInv, NEW m \in Models, NEW replace \in BOOLEAN, Install(m, replace)
  PROVE  IInv'
<1>1. app = "up" /\ app' = "up"
  BY DEF Install, Request
<1>2. UNCHANGED <<lease, start, serving>>
  BY DEF Install
<1>3. \A j \in Workers : worker'[j].at = "starting" <=> worker[j].at = "starting"
  BY DEF Install, StartWorker, Slots
<1>4. (\A d \in Calls : call'[d].old \in {call[d].old, 0}) /\ CallInv'
  BY CallUp DEF CallInv, Install
<1>5. \/ phase' \notin Busy \cup {"ready"}
      \/ phase' = "downloading_runtime" /\ \E j \in Workers : worker'[j].at = "inspect" /\ task' = j
      \/ phase' = phase /\ UNCHANGED <<worker, task, raised>>
  BY DEF IInv, TypeOK, Install, StartWorker, Slots
<1>. QED BY <1>1, <1>2, <1>3, <1>4, <1>5, RequestFrame, InstallTyped DEF IInv

LEMMA PauseStep ==
  ASSUME IInv, Pause
  PROVE  IInv'
<1>1. app = "up" /\ app' = "up"
  BY DEF Pause, Request
<1>2. UNCHANGED <<lease, start, serving>>
  BY DEF Pause
<1>3. \A j \in Workers : worker'[j].at = "starting" <=> worker[j].at = "starting"
  BY DEF Pause, install
<1>4. (\A d \in Calls : call'[d].old \in {call[d].old, 0}) /\ CallInv'
  BY CallUp DEF CallInv, Pause
<1>5. \/ phase' \notin Busy \cup {"ready"}
      \/ phase' = "downloading_runtime" /\ \E j \in Workers : worker'[j].at = "inspect" /\ task' = j
      \/ phase' = phase /\ UNCHANGED <<worker, task, raised>>
  BY DEF Busy, Pause
<1>. QED BY <1>1, <1>2, <1>3, <1>4, <1>5, RequestFrame, PauseTyped DEF IInv

-----------------------------------------------------------------------------
(* Steps of a start                                                        *)

LEMMA StartFrame ==
  ASSUME IInv, NEW s \in Starters, RestKept, \A t \in Starters \ {s} : start'[t] = start[t],
         ~StartAt(s, "none"), start'[s].at # "none",
         faults' # 0 \/ alive' \subseteq alive \/ app # "exited", faults' = 0 => faults = 0
  PROVE  ExitInv' /\ ThreadInv' /\ CallInv'
<1>1. \A t \in Starters : start'[t].at = "none" <=> start[t].at = "none"
  BY DEF StartAt
<1>2. ExitInv'
  <2>1. app' = app /\ cancelled' = cancelled /\ call' = call
    BY DEF RestKept, events
  <2>2. (ExitLeavesNoServer)'
    BY <2>1 DEF IInv, ExitInv, ExitLeavesNoServer
  <2>3. "restart" \in Starters /\ "boot" \in Starters
    BY DEF Starters
  <2>. QED BY <1>1, <2>1, <2>2, <2>3 DEF IInv, ExitInv, Drained, StartAt
<1>3. ThreadInv'
  BY <1>1 DEF IInv, ThreadInv, At, StartAt, RestKept, install, Starters
<1>4. CallInv'
  BY DEF IInv, CallInv, RestKept
<1>. QED BY <1>2, <1>3, <1>4

\* Who owns the lease shows its progress itself; the others leave that of the owner.
LEMMA StartPhase ==
  ASSUME IInv, NEW s \in Starters, RestKept, \A t \in Starters \ {s} : start'[t] = start[t],
         ~StartAt(s, "none"), ThreadInv',
         \/ phase' \notin Busy
         \/ phase' = "starting" /\ lease' = s /\ start'[s].begun /\ start'[s].at \in {"health", "failing"}
         \/ /\ phase' = phase /\ start'[s].at # "ok"
            /\ \A t \in Resident :
                 app = "up" /\ lease = t /\ start[t].begun /\ start[t].at \in {"health", "failing"}
                 => lease' = t /\ start'[t].begun /\ start'[t].at \in {"health", "failing"}
  PROVE  PhaseInv'
<1>1. UNCHANGED <<app, worker, task, raised>>
  BY DEF RestKept, install
<1>2. CASE phase' \notin Busy
  BY <1>2 DEF PhaseInv
<1>3. CASE phase' = "starting" /\ lease' = s /\ start'[s].begun /\ start'[s].at \in {"health", "failing"}
  <2>1. CASE s \in Resident
    BY <1>3, <2>1 DEF PhaseInv
  <2>2. CASE s \in Workers
    <3>1. worker'[s].at = "starting" /\ start'[s].at # "ok"
      BY <1>3, <2>2 DEF ThreadInv, At, StartAt
    <3>. QED BY <2>2, <3>1 DEF PhaseInv, Shows, Reports, Installing, At, StartAt
  <2>. QED BY <2>1, <2>2 DEF Starters, Resident
<1>4. CASE /\ phase' = phase /\ start'[s].at # "ok"
           /\ \A t \in Resident :
                app = "up" /\ lease = t /\ start[t].begun /\ start[t].at \in {"health", "failing"}
                => lease' = t /\ start'[t].begun /\ start'[t].at \in {"health", "failing"}
  <2>1. SUFFICES ASSUME app = "up", phase \in Busy PROVE PhaseInv'
    BY <1>1, <1>4 DEF PhaseInv
  <2>2. CASE \E k \in Workers : Shows(k)
    <3>1. PICK k \in Workers : Shows(k)
      BY <2>2
    <3>2. Shows(k)'
      BY <1>1, <1>4, <3>1 DEF Shows, Reports, Installing, At, StartAt, Starters
    <3>. QED BY <3>2 DEF PhaseInv
  <2>3. CASE phase = "downloading_runtime" /\ SetupRaised
    BY <1>1, <1>4, <2>3 DEF PhaseInv, SetupRaised
  <2>4. CASE ~(\E k \in Workers : Shows(k)) /\ ~(phase = "downloading_runtime" /\ SetupRaised)
    BY <1>1, <1>4, <2>1, <2>4 DEF IInv, PhaseInv
  <2>. QED BY <2>2, <2>3, <2>4
<1>. QED BY <1>2, <1>3, <1>4

LEMMA BeginStep ==
  ASSUME IInv, NEW s \in Starters, Begin(s)
  PROVE  IInv'
<1>1. RestKept /\ \A t \in Starters \ {s} : start'[t] = start[t]
  BY DEF IInv, TypeOK, Begin, Move
<1>2. ~StartAt(s, "none") /\ start'[s].at # "none"
  BY DEF IInv, TypeOK, StartAt, Begin, Move, Startup
<1>3. (faults' # 0 \/ alive' \subseteq alive) /\ (faults' = 0 => faults = 0)
  BY DEF Begin, serving
<1>4. ExitInv' /\ ThreadInv' /\ CallInv'
  BY <1>1, <1>2, <1>3, StartFrame
<1>5. /\ phase' = phase /\ start'[s].at # "ok"
      /\ \A t \in Resident :
           app = "up" /\ lease = t /\ start[t].begun /\ start[t].at \in {"health", "failing"}
           => lease' = t /\ start'[t].begun /\ start'[t].at \in {"health", "failing"}
  <2>1. phase' = phase /\ start'[s].at # "ok"
    BY DEF IInv, TypeOK, Begin, Move, Startup
  <2>2. ASSUME NEW t \in Resident, app = "up", lease = t, start[t].at \in {"health", "failing"}
        PROVE  lease' = t /\ t # s
    <3>1. t \in Starters /\ t \notin Workers /\ t # None
      BY RuntimeAssumption DEF Resident, Starters, Workers
    <3>2. ~LeaseSet(t) /\ t # s
      BY <2>2, <3>1 DEF IInv, LeaseInv, LeaseSet, Begin
    <3>. QED BY <2>2, <3>1, <3>2 DEF Begin
  <2>. QED BY <1>1, <2>1, <2>2 DEF Resident, Starters
<1>6. PhaseInv'
  BY <1>1, <1>2, <1>4, <1>5, StartPhase
<1>7. LeaseInv'
  BY DEF IInv, TypeOK, LeaseInv, StartAt, Begin, Move, RestKept, serving, Startup
<1>8. /\ \A t \in Starters : start'[t].old = start[t].old /\ start'[t].child = start[t].child
      /\ start'[s].at \in {"failed", "verify"}
  BY DEF IInv, TypeOK, Begin, Move, Startup
<1>9. ChildInv'
  <2>1. ASSUME NEW t \in Starters, lease' = t, start'[t].at = "health"
        PROVE  lease = t /\ start'[t] = start[t]
    BY <1>1, <1>8, <2>1 DEF Begin
  <2>. QED BY <1>1, <1>8, <2>1 DEF IInv, ChildInv, Spared, StartAt, Begin, RestKept, serving
<1>10. ReadyInv'
  BY <1>1, <1>8 DEF IInv, ReadyInv, Spared, StartAt, Begin, RestKept, serving
<1>11. OneChild'
  BY DEF IInv, OneChild, Begin, serving
<1>. QED BY <1>4, <1>6, <1>7, <1>9, <1>10, <1>11, BeginTyped DEF IInv

LEMMA VerifyStep ==
  ASSUME IInv, NEW s \in Starters, Verify(s)
  PROVE  IInv'
<1>1. RestKept /\ \A t \in Starters \ {s} : start'[t] = start[t]
  BY DEF Verify, Move
<1>2. ~StartAt(s, "none") /\ start'[s].at # "none"
  BY DEF StartAt, Verify, Move
<1>3. (faults' # 0 \/ alive' \subseteq alive) /\ (faults' = 0 => faults = 0)
  BY DEF Verify, serving
<1>4. ExitInv' /\ ThreadInv' /\ CallInv'
  BY <1>1, <1>2, <1>3, StartFrame
<1>5. \/ phase' \notin Busy
      \/ phase' = "starting" /\ lease' = s /\ start'[s].begun /\ start'[s].at \in {"health", "failing"}
      \/ /\ phase' = phase /\ start'[s].at # "ok"
         /\ \A t \in Resident :
              app = "up" /\ lease = t /\ start[t].begun /\ start[t].at \in {"health", "failing"}
              => lease' = t /\ start'[t].begun /\ start'[t].at \in {"health", "failing"}
  BY DEF StartAt, Verify, Move
<1>6. PhaseInv'
  BY <1>1, <1>2, <1>4, <1>5, StartPhase
<1>7. LeaseInv'
  BY DEF IInv, LeaseInv, StartAt, Verify, Move, RestKept, serving
<1>8. ChildInv'
  BY DEF IInv, ChildInv, Spared, StartAt, Verify, Move, RestKept, serving
<1>9. ReadyInv'
  BY DEF IInv, ReadyInv, Spared, StartAt, Verify, Move, RestKept, serving
<1>10. OneChild'
  BY DEF IInv, OneChild, Verify, serving
<1>. QED BY <1>4, <1>6, <1>7, <1>8, <1>9, <1>10, VerifyTyped DEF IInv

LEMMA StopOldStep ==
  ASSUME IInv, NEW s \in Starters, StopOld(s)
  PROVE  IInv'
<1>1. RestKept /\ \A t \in Starters \ {s} : start'[t] = start[t]
  BY DEF IInv, TypeOK, StopOld, Move
<1>2. ~StartAt(s, "none") /\ start'[s].at # "none"
  BY DEF IInv, TypeOK, StartAt, StopOld, Move, Startup
<1>3. (faults' # 0 \/ alive' \subseteq alive) /\ (faults' = 0 => faults = 0)
  BY DEF StopOld
<1>4. ExitInv' /\ ThreadInv' /\ CallInv'
  BY <1>1, <1>2, <1>3, StartFrame
<1>5. \/ phase' \notin Busy
      \/ phase' = "starting" /\ lease' = s /\ start'[s].begun /\ start'[s].at \in {"health", "failing"}
      \/ /\ phase' = phase /\ start'[s].at # "ok"
         /\ \A t \in Resident :
              app = "up" /\ lease = t /\ start[t].begun /\ start[t].at \in {"health", "failing"}
              => lease' = t /\ start'[t].begun /\ start'[t].at \in {"health", "failing"}
  BY DEF IInv, TypeOK, Resident, Starters, Busy, StartAt, StopOld, Unpublish, Move, Startup
<1>6. PhaseInv'
  BY <1>1, <1>2, <1>4, <1>5, StartPhase
<1>7. LeaseInv'
  BY DEF IInv, TypeOK, LeaseInv, StartAt, StopOld, Move, RestKept, Startup
<1>8. ChildInv'
  BY RuntimeAssumption DEF IInv, TypeOK, ChildInv, Spared, StartAt, StopOld, Owns,
     LeaseSet, Unpublish, Move, RestKept, events, Startup
<1>9. ReadyInv'
  BY RuntimeAssumption DEF IInv, TypeOK, ReadyInv, Spared, StartAt, StopOld, Owns,
     Unpublish, Move, RestKept, events, Startup
<1>10. OneChild'
  BY DEF IInv, OneChild, StopOld
<1>. QED BY <1>4, <1>6, <1>7, <1>8, <1>9, <1>10, StopOldTyped DEF IInv

LEMMA ReapOldStep ==
  ASSUME IInv, NEW s \in Starters, ReapOld(s)
  PROVE  IInv'
<1>1. RestKept /\ \A t \in Starters \ {s} : start'[t] = start[t]
  BY DEF IInv, TypeOK, ReapOld
<1>2. ~StartAt(s, "none") /\ start'[s].at # "none"
  BY DEF IInv, TypeOK, StartAt, ReapOld, Startup
<1>3. (faults' # 0 \/ alive' \subseteq alive) /\ (faults' = 0 => faults = 0)
  BY DEF IInv, TypeOK, ReapOld, Gone, Refuses
<1>4. ExitInv' /\ ThreadInv' /\ CallInv'
  BY <1>1, <1>2, <1>3, StartFrame
<1>5. \/ phase' \notin Busy
      \/ phase' = "starting" /\ lease' = s /\ start'[s].begun /\ start'[s].at \in {"health", "failing"}
      \/ /\ phase' = phase /\ start'[s].at # "ok"
         /\ \A t \in Resident :
              app = "up" /\ lease = t /\ start[t].begun /\ start[t].at \in {"health", "failing"}
              => lease' = t /\ start'[t].begun /\ start'[t].at \in {"health", "failing"}
  BY DEF IInv, TypeOK, Resident, Starters, StartAt, ReapOld, Startup
<1>6. PhaseInv'
  BY <1>1, <1>2, <1>4, <1>5, StartPhase
<1>7. LeaseInv'
  BY RuntimeAssumption DEF IInv, TypeOK, LeaseInv, StartAt, ReapOld, Gone, Refuses,
     RestKept, Startup
<1>8. ChildInv'
  <2>1. /\ start'[s].at # "health" /\ start'[s].child = start[s].child
        /\ start'[s].old \in {0, start[s].old}
    BY DEF IInv, TypeOK, ReapOld, Startup
  <2>2. UNCHANGED <<lease, endpoint, call>>
    BY DEF ReapOld, RestKept
  <2>. QED BY <1>1, <2>1, <2>2 DEF IInv, ChildInv, Spared, StartAt
<1>9. ReadyInv'
  BY RuntimeAssumption DEF IInv, TypeOK, ReadyInv, Spared, StartAt, ReapOld, Gone,
     Refuses, RestKept, Startup
<1>10. OneChild'
  BY DEF IInv, OneChild, ReapOld, Gone, Refuses
<1>. QED BY <1>4, <1>6, <1>7, <1>8, <1>9, <1>10, ReapOldTyped DEF IInv

LEMMA SpawnStep ==
  ASSUME IInv, NEW s \in Starters, Spawn(s)
  PROVE  IInv'
<1>0. PICK child \in Free :
        \/ /\ Owns(s) /\ runtime = "verified"
           /\ start' = [start EXCEPT ![s].at = "health", ![s].begun = TRUE, ![s].child = child]
           /\ phase' = "starting" /\ modelKey' = start[s].model
           /\ endpoint' = child /\ process' = child /\ alive' = alive \cup {child}
        \/ /\ Owns(s)
           /\ start' = [start EXCEPT ![s].at = "failing", ![s].begun = TRUE]
           /\ phase' = "starting" /\ modelKey' = start[s].model /\ endpoint' = child
           /\ UNCHANGED <<process, alive>>
        \/ /\ ~Owns(s) /\ Move(s, "failing")
           /\ UNCHANGED <<phase, modelKey, endpoint, process, alive>>
  <2>1. Free \subseteq Children /\ Free # {}
    BY DEF Free, Spawn
  <2>. QED BY <2>1, LeastFree DEF Spawn
<1>1. RestKept /\ \A t \in Starters \ {s} : start'[t] = start[t]
  BY <1>0 DEF IInv, TypeOK, Spawn, Move
<1>2. ~StartAt(s, "none") /\ start'[s].at # "none"
  BY <1>0 DEF IInv, TypeOK, StartAt, Spawn, Move, Startup
<1>3. faults' = faults /\ lease' = lease /\ start[s].at = "spawn" /\ app' = app
  BY DEF Spawn, StartAt, RestKept
<1>4. Free \subseteq Children \ (alive \cup InHand \cup {process, endpoint})
  BY DEF Free
<1>5. child \in Children /\ child # 0 /\ child # process /\ Spared(child)
      /\ \A t \in Starters : start[t].child # child
  BY <1>4 DEF InHand, Spared, Children
<1>6. Owns(s) => lease = s /\ process = 0
  BY <1>3 DEF Owns, IInv, LeaseInv, StartAt
<1>7. alive' \subseteq alive \/ app # "exited"
  <2>1. SUFFICES ASSUME Owns(s), app = "exited" PROVE FALSE
    BY <1>0
  <2>2. cancelled /\ StartAt("boot", "none") /\ StartAt("restart", "none")
    BY <2>1 DEF IInv, ExitInv, Drained
  <2>3. s \in Workers
    BY <1>3, <2>2 DEF StartAt, Starters
  <2>. QED BY <2>1, <2>2, <2>3 DEF Owns, LeaseSet
<1>8. ExitInv' /\ ThreadInv' /\ CallInv'
  BY <1>1, <1>2, <1>3, <1>7, StartFrame
<1>9. PhaseInv'
  <2>1. CASE Owns(s)
    <3>1. phase' = "starting" /\ lease' = s /\ start'[s].begun /\ start'[s].at \in {"health", "failing"}
      BY <1>0, <1>3, <1>6, <2>1 DEF IInv, TypeOK, Startup
    <3>. QED BY <1>1, <1>2, <1>8, <3>1, StartPhase
  <2>2. CASE ~Owns(s)
    <3>1. phase' = phase /\ start'[s].at # "ok"
      BY <1>0, <2>2 DEF IInv, TypeOK, Startup, Move
    <3>2. \A t \in Resident : start[t].at \in {"health", "failing"} => t # s /\ start'[t] = start[t]
      BY <1>1, <1>3 DEF Resident, Starters
    <3>. QED BY <1>1, <1>2, <1>3, <1>8, <3>1, <3>2, StartPhase
  <2>. QED BY <2>1, <2>2
<1>10. LeaseInv'
  <2>1. start'[s].at \in {"health", "failing"} /\ start'[s].cancelled = start[s].cancelled
    BY <1>0 DEF IInv, TypeOK, Startup, Move
  <2>2. \A t \in Starters \ {s} : lease = t => process' = process
    BY <1>0, <1>6
  <2>. QED BY <1>1, <1>3, <2>1, <2>2 DEF IInv, LeaseInv, StartAt
<1>11. ChildInv'
  <2>1. CASE Owns(s) /\ start'[s].at = "health"
    <3>1. /\ start' = [start EXCEPT ![s].at = "health", ![s].begun = TRUE, ![s].child = child]
          /\ endpoint' = child /\ call' = call
      BY <1>0, <2>1 DEF IInv, TypeOK, Startup, Spawn, RestKept
    <3>2. start'[s].begun /\ start'[s].child = child /\ start'[s].old = start[s].old
      BY <3>1 DEF IInv, TypeOK
    <3>3. Spared(child)'
      BY <1>1, <1>5, <3>1, <3>2 DEF Spared
    <3>4. \A t \in Starters \ {s} : start'[t].child # child
      BY <1>1, <1>5
    <3>. QED BY <1>3, <1>5, <1>6, <2>1, <3>1, <3>2, <3>3, <3>4 DEF ChildInv, StartAt
  <2>2. CASE ~Owns(s) /\ start'[s].at # "health"
    <3>1. endpoint' = endpoint /\ call' = call
      BY <1>0, <2>2 DEF Spawn, RestKept
    <3>2. start'[s].child = start[s].child /\ start'[s].old = start[s].old
      BY <1>0, <2>2 DEF IInv, TypeOK, Startup, Move
    <3>. QED BY <1>1, <1>3, <2>2, <3>1, <3>2 DEF IInv, ChildInv, StartAt, Spared
  <2>3. CASE Owns(s) /\ start'[s].at # "health"
    BY <1>3, <1>6, <2>3 DEF ChildInv, StartAt
  <2>4. start'[s].at = "health" => Owns(s)
    BY <1>0 DEF IInv, TypeOK, Startup, Move
  <2>. QED BY <2>1, <2>2, <2>3, <2>4
<1>12. ReadyInv'
  <2>1. CASE Owns(s)
    BY <1>0, <2>1 DEF ReadyInv
  <2>2. CASE ~Owns(s)
    <3>1. /\ UNCHANGED <<phase, process, endpoint>> /\ call' = call
          /\ start'[s].child = start[s].child /\ start'[s].old = start[s].old
      BY <1>0, <2>2 DEF IInv, TypeOK, Startup, Move, Spawn, RestKept
    <3>. QED BY <1>1, <1>3, <3>1 DEF IInv, ReadyInv, Spared, StartAt
  <2>. QED BY <2>1, <2>2
<1>13. OneChild'
  BY <1>0, <1>5, <1>6 DEF IInv, TypeOK, OneChild, Children
<1>. QED BY <1>8, <1>9, <1>10, <1>11, <1>12, <1>13, SpawnTyped DEF IInv

LEMMA HealthStep ==
  ASSUME IInv, NEW s \in Starters, Health(s)
  PROVE  IInv'
<1>1. RestKept /\ \A t \in Starters \ {s} : start'[t] = start[t]
  BY DEF IInv, TypeOK, Health, Move
<1>2. ~StartAt(s, "none") /\ start'[s].at # "none"
  BY DEF IInv, TypeOK, StartAt, Health, Move, Startup
<1>3. (faults' # 0 \/ alive' \subseteq alive) /\ (faults' = 0 => faults = 0)
  BY DEF Health, serving
<1>4. ExitInv' /\ ThreadInv' /\ CallInv'
  BY <1>1, <1>2, <1>3, StartFrame
<1>5. \/ phase' \notin Busy
      \/ phase' = "starting" /\ lease' = s /\ start'[s].begun /\ start'[s].at \in {"health", "failing"}
      \/ /\ phase' = phase /\ start'[s].at # "ok"
         /\ \A t \in Resident :
              app = "up" /\ lease = t /\ start[t].begun /\ start[t].at \in {"health", "failing"}
              => lease' = t /\ start'[t].begun /\ start'[t].at \in {"health", "failing"}
  BY DEF IInv, TypeOK, Resident, Starters, Busy, Health, Move, Startup
<1>6. PhaseInv'
  BY <1>1, <1>2, <1>4, <1>5, StartPhase
<1>7. LeaseInv'
  BY DEF IInv, TypeOK, LeaseInv, StartAt, Health, Move, RestKept, serving, Startup
<1>8. ChildInv'
  BY DEF IInv, TypeOK, ChildInv, Spared, StartAt, Health, Owns, LeaseSet, Move, RestKept,
     serving, install, Startup
<1>9. ReadyInv'
  <2>1. CASE Owns(s) /\ process = start[s].child /\ phase' = "ready" /\ Move(s, "ok")
    <3>1. /\ process # 0 /\ endpoint = process /\ Spared(process)
          /\ \A t \in Starters \ {s} : start[t].child # process
      BY <2>1 DEF IInv, ChildInv, Owns, Health
    <3>2. /\ call' = call /\ process' = process /\ endpoint' = endpoint
          /\ start'[s].at = "ok" /\ start'[s].old = start[s].old
      BY <2>1 DEF IInv, TypeOK, Move, Health, RestKept, serving
    <3>. QED BY <1>1, <3>1, <3>2 DEF ReadyInv, Spared, StartAt
  <2>2. CASE Move(s, "failing") /\ UNCHANGED phase
    BY <2>2 DEF IInv, ReadyInv, Spared, StartAt, Health, Move, RestKept, serving
  <2>. QED BY <2>1, <2>2 DEF Health
<1>10. OneChild'
  BY DEF IInv, OneChild, Health, serving
<1>. QED BY <1>4, <1>6, <1>7, <1>8, <1>9, <1>10, HealthTyped DEF IInv

LEMMA FailingStep ==
  ASSUME IInv, NEW s \in Starters, Failing(s)
  PROVE  IInv'
<1>1. RestKept /\ \A t \in Starters \ {s} : start'[t] = start[t]
  BY DEF Failing, Move
<1>2. ~StartAt(s, "none") /\ start'[s].at # "none"
  BY DEF StartAt, Failing, Move
<1>3. (faults' # 0 \/ alive' \subseteq alive) /\ (faults' = 0 => faults = 0)
  BY DEF Failing
<1>4. ExitInv' /\ ThreadInv' /\ CallInv'
  BY <1>1, <1>2, <1>3, StartFrame
<1>5. \/ phase' \notin Busy
      \/ phase' = "starting" /\ lease' = s /\ start'[s].begun /\ start'[s].at \in {"health", "failing"}
      \/ /\ phase' = phase /\ start'[s].at # "ok"
         /\ \A t \in Resident :
              app = "up" /\ lease = t /\ start[t].begun /\ start[t].at \in {"health", "failing"}
              => lease' = t /\ start'[t].begun /\ start'[t].at \in {"health", "failing"}
  BY DEF Busy, StartAt, Failing, Move
<1>6. PhaseInv'
  BY <1>1, <1>2, <1>4, <1>5, StartPhase
<1>7. LeaseInv'
  BY DEF IInv, LeaseInv, StartAt, Failing, Move, RestKept
<1>8. ChildInv'
  BY DEF IInv, ChildInv, Spared, StartAt, Failing, Move, RestKept
<1>9. ReadyInv'
  BY DEF IInv, ReadyInv, Spared, StartAt, Failing, Move, RestKept
<1>10. OneChild'
  BY DEF IInv, OneChild, Failing
<1>. QED BY <1>4, <1>6, <1>7, <1>8, <1>9, <1>10, FailingTyped DEF IInv

LEMMA ReapNewStep ==
  ASSUME IInv, NEW s \in Starters, ReapNew(s)
  PROVE  IInv'
<1>1. RestKept /\ \A t \in Starters \ {s} : start'[t] = start[t]
  BY DEF IInv, TypeOK, ReapNew, Move
<1>2. ~StartAt(s, "none") /\ start'[s].at # "none"
  BY DEF IInv, TypeOK, StartAt, ReapNew, Move, Startup
<1>3. (faults' # 0 \/ alive' \subseteq alive) /\ (faults' = 0 => faults = 0)
  BY DEF IInv, TypeOK, ReapNew, Gone, Refuses
<1>4. ExitInv' /\ ThreadInv' /\ CallInv'
  BY <1>1, <1>2, <1>3, StartFrame
<1>5. \/ phase' \notin Busy
      \/ phase' = "starting" /\ lease' = s /\ start'[s].begun /\ start'[s].at \in {"health", "failing"}
      \/ /\ phase' = phase /\ start'[s].at # "ok"
         /\ \A t \in Resident :
              app = "up" /\ lease = t /\ start[t].begun /\ start[t].at \in {"health", "failing"}
              => lease' = t /\ start'[t].begun /\ start'[t].at \in {"health", "failing"}
  BY DEF IInv, TypeOK, Resident, Starters, StartAt, ReapNew, Move, Startup
<1>6. PhaseInv'
  BY <1>1, <1>2, <1>4, <1>5, StartPhase
<1>7. LeaseInv'
  BY DEF IInv, TypeOK, LeaseInv, StartAt, ReapNew, Gone, Refuses, Move, RestKept, Startup
<1>8. ChildInv'
  BY DEF IInv, TypeOK, ChildInv, Spared, StartAt, ReapNew, Move, RestKept, Startup
<1>9. ReadyInv'
  BY DEF IInv, TypeOK, ReadyInv, Spared, StartAt, ReapNew, Gone, Refuses, Move, RestKept,
     install, Startup
<1>10. OneChild'
  BY DEF IInv, OneChild, ReapNew, Gone, Refuses
<1>. QED BY <1>4, <1>6, <1>7, <1>8, <1>9, <1>10, ReapNewTyped DEF IInv

LEMMA FinishStep ==
  ASSUME IInv, NEW s \in Starters, Finish(s)
  PROVE  IInv'
<1>1. LeaseInv'
  BY RuntimeAssumption DEF IInv, LeaseInv, StartAt, Finish, NoStart, NewStart, serving
<1>2. ChildInv'
  BY RuntimeAssumption DEF IInv, ChildInv, Spared, StartAt, Finish, NoStart, NewStart,
     serving
<1>3. ReadyInv'
  BY DEF IInv, ReadyInv, Spared, StartAt, Finish, NoStart, NewStart, serving
<1>4. OneChild'
  BY DEF IInv, OneChild, Finish, serving
<1>5. ExitInv'
  BY DEF IInv, ExitInv, ExitLeavesNoServer, Drained, StartAt, Finish, serving, events
<1>6. PhaseInv'
  <2>1. SUFFICES ASSUME app = "up", phase \in Busy PROVE PhaseInv'
    BY DEF PhaseInv, Finish
  <2>2. CASE \E k \in Workers : Shows(k)
    <3>1. PICK k \in Workers : Shows(k)
      BY <2>2
    <3>2. CASE k = s
      <4>1. worker[k].at = "starting" /\ start[k].at \in {"dropped", "failed"}
        BY <3>1, <3>2 DEF IInv, ThreadInv, Shows, Reports, Installing, At, StartAt, Finish
      <4>2. worker'[k].at \in {"dropped", "failed"}
        BY <3>2, <4>1 DEF IInv, TypeOK, Finish
      <4>. QED BY <4>2 DEF PhaseInv, Shows, Reports, Installing, At
    <3>3. CASE k # s
      <4>1. worker'[k] = worker[k] /\ start'[k] = start[k]
        BY <3>3 DEF Finish
      <4>. QED BY <3>1, <4>1 DEF PhaseInv, Shows, Reports, Installing, At, StartAt, Finish
    <3>. QED BY <3>2, <3>3
  <2>3. CASE phase = "downloading_runtime" /\ SetupRaised
    BY <2>3 DEF IInv, ThreadInv, At, StartAt, PhaseInv, SetupRaised, Finish
  <2>4. CASE ~(\E k \in Workers : Shows(k)) /\ ~(phase = "downloading_runtime" /\ SetupRaised)
    <3>1. PICK t \in Resident : /\ phase = "starting" /\ lease = t /\ start[t].begun
                                /\ start[t].at \in {"health", "failing"}
      BY <2>1, <2>4 DEF IInv, PhaseInv
    <3>2. t # s /\ start'[t] = start[t] /\ lease' = t
      BY <3>1 DEF Finish
    <3>. QED BY <3>1, <3>2 DEF PhaseInv, Finish
  <2>. QED BY <2>2, <2>3, <2>4
<1>7. ThreadInv'
  BY DEF IInv, TypeOK, ThreadInv, At, StartAt, Finish, NoStart, NewStart
<1>8. CallInv'
  BY DEF IInv, CallInv, Finish
<1>. QED BY <1>1, <1>2, <1>3, <1>4, <1>5, <1>6, <1>7, <1>8, FinishTyped DEF IInv

LEMMA LaunchStep ==
  ASSUME IInv, NEW k \in Workers, Launch(k)
  PROVE  IInv'
<1>1. LeaseInv'
  <2>1. /\ \A t \in Starters \ {k} : start'[t] = start[t]
        /\ start'[k] = start[k] \/ start'[k].at = "begin"
    BY DEF IInv, TypeOK, Launch, NewStart
  <2>2. start[k].at = "none" /\ k \notin Resident /\ k \in Starters
    BY DEF IInv, ThreadInv, Launch, At, StartAt, Workers, Starters, Resident
  <2>3. UNCHANGED <<lease, process, app>>
    BY DEF Launch, serving
  <2>. QED BY <2>1, <2>2, <2>3 DEF IInv, LeaseInv, StartAt
<1>2. ChildInv'
  <2>1. /\ \A t \in Starters \ {k} : start'[t] = start[t]
        /\ \/ start'[k] = start[k]
           \/ start'[k].at = "begin" /\ start'[k].child = 0 /\ start'[k].old = 0
    BY DEF IInv, TypeOK, Launch, NewStart
  <2>2. start[k].at = "none" /\ k \in Starters
    BY DEF IInv, ThreadInv, Launch, At, StartAt, Starters
  <2>3. UNCHANGED <<lease, endpoint, call>>
    BY DEF Launch, serving
  <2>. QED BY <2>1, <2>2, <2>3 DEF IInv, ChildInv, StartAt, Spared
<1>3. ReadyInv'
  BY RuntimeAssumption DEF IInv, TypeOK, ReadyInv, Spared, StartAt, Launch, NewStart, At,
     Go, Leave, Polled, InstallKept, serving, events, Worker, Starters
<1>4. OneChild'
  BY DEF IInv, OneChild, Launch, serving
<1>5. ExitInv'
  <2>1. start'["boot"] = start["boot"] /\ start'["restart"] = start["restart"]
    BY DEF IInv, TypeOK, Launch, Workers, Starters
  <2>2. UNCHANGED <<app, call, cancelled, alive, faults>>
    BY DEF Launch, serving, events
  <2>. QED BY <2>1, <2>2 DEF IInv, ExitInv, ExitLeavesNoServer, Drained, StartAt
<1>6. PhaseInv'
  BY DEF IInv, TypeOK, PhaseInv, Shows, SetupRaised, Reports, Installing, Busy, At,
     StartAt, Launch, NewStart,
     Go, Leave, Polled, Worker, Starters
<1>7. ThreadInv'
  BY DEF IInv, TypeOK, ThreadInv, At, StartAt, Launch, NewStart, Go, Leave, Worker, Starters
<1>8. CallInv'
  BY DEF IInv, CallInv, Launch
<1>. QED BY <1>1, <1>2, <1>3, <1>4, <1>5, <1>6, <1>7, <1>8, LaunchTyped DEF IInv

LEMMA WorkerDoneStep ==
  ASSUME IInv, NEW k \in Workers, WorkerDone(k)
  PROVE  IInv'
<1>0. /\ \/ worker[k].at = "leaving" /\ worker'[k].at = "joined"
         \/ worker[k].at = "raising" /\ worker'[k].at = "raised"
      /\ \A j \in Workers \ {k} : worker'[j] = worker[j]
  <2>1. worker \in [Workers -> Worker]
    BY DEF IInv, TypeOK
  <2>2. CASE At(k, "leaving") /\ Go(k, "joined")
    BY <2>1, <2>2 DEF At, Go, Worker
  <2>3. CASE At(k, "raising") /\ Go(k, "raised")
    BY <2>1, <2>3 DEF At, Go, Worker
  <2>. QED BY <2>2, <2>3 DEF WorkerDone
<1>1. LeaseInv'
  BY DEF IInv, LeaseInv, StartAt, WorkerDone, serving
<1>2. ChildInv'
  BY DEF IInv, ChildInv, Spared, StartAt, WorkerDone, serving
<1>3. ReadyInv'
  BY DEF IInv, ReadyInv, Spared, StartAt, WorkerDone, serving
<1>4. OneChild'
  BY DEF IInv, OneChild, WorkerDone, serving
<1>5. ExitInv'
  BY DEF IInv, ExitInv, ExitLeavesNoServer, Drained, StartAt, WorkerDone, serving, events
<1>6. PhaseInv'
  <2>1. /\ \/ worker[k].at = "leaving" /\ worker'[k].at = "joined"
           \/ worker[k].at = "raising" /\ worker'[k].at = "raised"
        /\ \A j \in Workers \ {k} : worker'[j] = worker[j]
    BY <1>0
  <2>2. UNCHANGED <<task, raised, phase, lease, start, app>>
    BY DEF WorkerDone
  <2>3. \A j \in Workers : Shows(j) => Shows(j)'
    BY <2>1, <2>2 DEF Shows, Reports, Installing, At, StartAt
  <2>4. SetupRaised => SetupRaised'
    BY <2>1, <2>2 DEF SetupRaised, At
  <2>. QED BY <2>2, <2>3, <2>4 DEF IInv, PhaseInv
<1>7. ThreadInv'
  BY <1>0 DEF IInv, ThreadInv, At, StartAt, WorkerDone
<1>8. CallInv'
  BY DEF IInv, CallInv, WorkerDone
<1>. QED BY <1>1, <1>2, <1>3, <1>4, <1>5, <1>6, <1>7, <1>8, WorkerDoneTyped DEF IInv

LEMMA TaskDoneStep ==
  ASSUME IInv, NEW k \in Workers, TaskDone(k)
  PROVE  IInv'
<1>1. LeaseInv'
  BY DEF IInv, LeaseInv, StartAt, TaskDone, serving
<1>2. ChildInv'
  BY DEF IInv, ChildInv, Spared, StartAt, TaskDone, serving
<1>3. ReadyInv'
  BY DEF IInv, ReadyInv, Spared, StartAt, TaskDone, serving
<1>4. OneChild'
  BY DEF IInv, OneChild, TaskDone, serving
<1>5. ExitInv'
  BY DEF IInv, ExitInv, ExitLeavesNoServer, Drained, StartAt, TaskDone, serving, events
<1>6. PhaseInv'
  <2>1. /\ worker[k].at \in {"joined", "raised"} /\ worker'[k].at = "none"
        /\ \A j \in Workers \ {k} : worker'[j] = worker[j]
    BY DEF IInv, TypeOK, At, TaskDone
  <2>2. UNCHANGED <<task, phase, lease, start, app>>
    BY DEF TaskDone
  <2>3. \A j \in Workers : Shows(j) => Shows(j)'
    BY <2>1, <2>2 DEF Shows, Reports, Installing, At, StartAt
  <2>4. SetupRaised => SetupRaised'
    BY <2>1, <2>2 DEF SetupRaised, At, TaskDone
  <2>. QED BY <2>2, <2>3, <2>4 DEF IInv, PhaseInv
<1>7. ThreadInv'
  BY DEF IInv, ThreadInv, At, StartAt, TaskDone
<1>8. CallInv'
  BY DEF IInv, CallInv, TaskDone
<1>. QED BY <1>1, <1>2, <1>3, <1>4, <1>5, <1>6, <1>7, <1>8, TaskDoneTyped DEF IInv

LEMMA ChildDiesStep ==
  ASSUME IInv, NEW child \in Children, ChildDies(child)
  PROVE  IInv'
<1>1. LeaseInv'
  BY DEF IInv, LeaseInv, StartAt, ChildDies
<1>2. ChildInv'
  BY DEF IInv, ChildInv, Spared, StartAt, ChildDies
<1>3. ReadyInv'
  BY DEF IInv, ReadyInv, Spared, StartAt, ChildDies
<1>4. OneChild'
  BY DEF IInv, OneChild, ChildDies
<1>5. ExitInv'
  BY DEF IInv, TypeOK, ExitInv, ExitLeavesNoServer, Drained, StartAt, ChildDies, events
<1>6. PhaseInv'
  BY DEF IInv, PhaseInv, Shows, SetupRaised, Reports, Installing, At, StartAt, ChildDies,
     install
<1>7. ThreadInv'
  BY DEF IInv, ThreadInv, At, StartAt, ChildDies, install
<1>8. CallInv'
  BY DEF IInv, CallInv, ChildDies
<1>. QED BY <1>1, <1>2, <1>3, <1>4, <1>5, <1>6, <1>7, <1>8, ChildDiesTyped DEF IInv

LEMMA RestartStep ==
  ASSUME IInv, Restart
  PROVE  IInv'
<1>1. LeaseInv'
  BY DEF IInv, LeaseInv, StartAt, Restart, Move, serving
<1>2. ChildInv'
  BY DEF IInv, ChildInv, Spared, StartAt, Restart, Move, serving
<1>3. ReadyInv'
  BY DEF IInv, ReadyInv, Spared, StartAt, Restart, Move, serving
<1>4. OneChild'
  BY DEF IInv, OneChild, Restart, serving
<1>5. ExitInv'
  BY DEF ExitInv, ExitLeavesNoServer, Restart, Request
<1>6. PhaseInv'
  BY DEF IInv, PhaseInv, Shows, SetupRaised, Reports, Installing, At, StartAt, Restart,
     Move, install
<1>7. ThreadInv'
  <2>1. \A k \in Workers : start'[k] = start[k]
    BY DEF Restart, Move, Workers
  <2>. QED BY <2>1 DEF IInv, ThreadInv, At, StartAt, Restart, install
<1>8. CallInv'
  BY DEF IInv, CallInv, Restart
<1>. QED BY <1>1, <1>2, <1>3, <1>4, <1>5, <1>6, <1>7, <1>8, RestartTyped DEF IInv

LEMMA EraseStopStep ==
  ASSUME IInv, NEW c \in Calls, EraseStop(c)
  PROVE  IInv'
<1>1. LeaseInv'
  BY CancelledStart, RuntimeAssumption DEF IInv, TypeOK, LeaseInv, StartAt, EraseStop, Stop
<1>2. ChildInv'
  BY RuntimeAssumption DEF ChildInv, EraseStop, Stop
<1>3. ReadyInv'
  BY DEF ReadyInv, EraseStop, Stop, Unpublish
<1>4. OneChild'
  BY DEF IInv, OneChild, EraseStop
<1>5. ExitInv'
  BY CallUp DEF ExitInv, ExitLeavesNoServer, EraseStop
<1>6. PhaseInv'
  BY CancelledStart DEF IInv, TypeOK, PhaseInv, Shows, SetupRaised, Reports, Installing,
     Busy, At, StartAt,
     EraseStop, Stop, Unpublish, install
<1>7. ThreadInv'
  BY CancelledStart DEF IInv, TypeOK, ThreadInv, At, StartAt, EraseStop, Stop, install
<1>8. CallInv'
  BY DEF IInv, TypeOK, CallInv, EraseStop
<1>. QED BY <1>1, <1>2, <1>3, <1>4, <1>5, <1>6, <1>7, <1>8, EraseStopTyped DEF IInv

LEMMA EraseReapStep ==
  ASSUME IInv, NEW c \in Calls, EraseReap(c)
  PROVE  IInv'
<1>1. LeaseInv'
  BY DEF IInv, LeaseInv, StartAt, EraseReap, Gone, Refuses
<1>2. ChildInv'
  BY DEF IInv, TypeOK, ChildInv, Spared, StartAt, EraseReap, End, NewCall, NoCall, Waiter
<1>3. ReadyInv'
  <2>1. \A d \in Calls : call'[d].old \in {call[d].old, 0}
    BY DEF IInv, TypeOK, EraseReap, End, NewCall, NoCall, Waiter
  <2>2. phase = "ready" => process' = process
    BY DEF IInv, ReadyInv, Spared, EraseReap, Gone, Refuses
  <2>. QED BY <2>1, <2>2, RuntimeAssumption DEF IInv, ReadyInv, Spared, StartAt, EraseReap
<1>4. OneChild'
  BY DEF IInv, OneChild, EraseReap, Gone, Refuses
<1>5. ExitInv'
  BY CallUp DEF ExitInv, ExitLeavesNoServer, EraseReap
<1>6. PhaseInv'
  BY DEF IInv, PhaseInv, Shows, SetupRaised, Reports, Installing, At, StartAt, EraseReap,
     install
<1>7. ThreadInv'
  BY DEF IInv, ThreadInv, At, StartAt, EraseReap, install
<1>8. CallInv'
  BY DEF IInv, TypeOK, CallInv, EraseReap, End, NewCall, NoCall, Waiter
<1>. QED BY <1>1, <1>2, <1>3, <1>4, <1>5, <1>6, <1>7, <1>8, EraseReapTyped DEF IInv

LEMMA CancelStartupStep ==
  ASSUME IInv, CancelStartup
  PROVE  IInv'
<1>1. LeaseInv'
  BY RuntimeAssumption DEF LeaseInv, CancelStartup, Down
<1>2. ChildInv'
  BY RuntimeAssumption DEF ChildInv, CancelStartup
<1>3. ReadyInv'
  BY CancelledStart DEF IInv, TypeOK, ReadyInv, Spared, StartAt, CancelStartup, serving
<1>4. OneChild'
  BY DEF IInv, OneChild, CancelStartup, serving
<1>5. ExitInv'
  <2>1. \A s \in Starters : start'[s].at = start[s].at
    BY CancelledStart DEF IInv, TypeOK, CancelStartup
  <2>2. Drained /\ app' = "stop" /\ call' = call
    BY DEF CancelStartup, Down
  <2>. QED BY <2>1, <2>2 DEF ExitInv, ExitLeavesNoServer, Drained, StartAt, Starters
<1>6. PhaseInv'
  BY DEF PhaseInv, CancelStartup, Down
<1>7. ThreadInv'
  <2>1. \A s \in Starters : start'[s].at = start[s].at
    BY CancelledStart DEF IInv, TypeOK, CancelStartup
  <2>. QED BY <2>1 DEF IInv, ThreadInv, At, StartAt, CancelStartup, install, Starters
<1>8. CallInv'
  BY DEF IInv, CallInv, CancelStartup
<1>. QED BY <1>1, <1>2, <1>3, <1>4, <1>5, <1>6, <1>7, <1>8, CancelStartupTyped DEF IInv

LEMMA StopAllStep ==
  ASSUME IInv, NEW from, NEW to, StopAll(from, to),
         \/ from = "stop" /\ to = "quiesce"
         \/ from = "last_stop" /\ to = "exited"
  PROVE  IInv'
<1>1. LeaseInv'
  BY RuntimeAssumption DEF LeaseInv, StopAll, Down, Stop
<1>2. ChildInv'
  BY RuntimeAssumption DEF ChildInv, StopAll, Stop
<1>3. ReadyInv'
  BY DEF ReadyInv, StopAll, Stop, Unpublish
<1>4. OneChild'
  BY DEF IInv, OneChild, StopAll, Gone, Refuses
<1>5. ExitInv'
  <2>1. \A s \in Starters : start'[s].at = start[s].at
    BY CancelledStart DEF IInv, TypeOK, StopAll, Stop
  <2>2. UNCHANGED <<call, cancelled>> /\ app' = to /\ app = from /\ to # "up"
    BY DEF StopAll, Down, events
  <2>3. Drained'
    BY <2>1, <2>2 DEF IInv, ExitInv, Drained, StartAt, Starters
  <2>4. to = "exited" => cancelled' /\ StartAt("boot", "none")'
    BY <2>1, <2>2 DEF IInv, ExitInv, StartAt, Starters
  <2>5. (ExitLeavesNoServer)'
    <3>1. CASE Gone(process)
      BY <3>1 DEF IInv, OneChild, ExitLeavesNoServer, Gone
    <3>2. CASE Refuses(process)
      <4>1. faults \in Nat /\ faults' = faults + 1
        BY <3>2 DEF IInv, TypeOK, Refuses
      <4>2. faults' # 0
        BY <4>1
      <4>. QED BY <4>2 DEF ExitLeavesNoServer
    <3>. QED BY <3>1, <3>2 DEF StopAll
  <2>. QED BY <2>2, <2>3, <2>4, <2>5 DEF ExitInv
<1>6. PhaseInv'
  BY DEF PhaseInv, StopAll, Down
<1>7. ThreadInv'
  BY CancelledStart DEF IInv, TypeOK, ThreadInv, At, StartAt, StopAll, Stop, install
<1>8. CallInv'
  BY DEF IInv, CallInv, StopAll
<1>. QED BY <1>1, <1>2, <1>3, <1>4, <1>5, <1>6, <1>7, <1>8, StopAllTyped DEF IInv

LEMMA QuiesceStep ==
  ASSUME IInv, Quiesce
  PROVE  IInv'
<1>1. LeaseInv'
  BY DEF IInv, LeaseInv, StartAt, Quiesce, Down, serving
<1>2. ChildInv'
  BY DEF IInv, ChildInv, Spared, StartAt, Quiesce, serving
<1>3. ReadyInv'
  BY DEF IInv, ReadyInv, Spared, StartAt, Quiesce, CancelInstall, serving
<1>4. OneChild'
  BY DEF IInv, OneChild, Quiesce, serving
<1>5. ExitInv'
  BY DEF IInv, ExitInv, ExitLeavesNoServer, Drained, StartAt, Quiesce, Down, CancelInstall
<1>6. PhaseInv'
  BY DEF PhaseInv, Quiesce, Down
<1>7. ThreadInv'
  BY DEF IInv, ThreadInv, At, StartAt, Quiesce, install
<1>8. CallInv'
  BY DEF IInv, CallInv, Quiesce
<1>. QED BY <1>1, <1>2, <1>3, <1>4, <1>5, <1>6, <1>7, <1>8, QuiesceTyped DEF IInv

LEMMA JoinStep ==
  ASSUME IInv, Join
  PROVE  IInv'
<1>1. LeaseInv'
  BY DEF IInv, LeaseInv, StartAt, Join, Down, serving
<1>2. ChildInv'
  BY DEF IInv, ChildInv, Spared, StartAt, Join, serving
<1>3. ReadyInv'
  BY DEF IInv, ReadyInv, Spared, StartAt, Join, serving
<1>4. OneChild'
  BY DEF IInv, OneChild, Join, serving
<1>5. ExitInv'
  BY DEF IInv, ExitInv, ExitLeavesNoServer, Drained, StartAt, Join, Down, events
<1>6. PhaseInv'
  BY DEF PhaseInv, Join, Down
<1>7. ThreadInv'
  BY DEF IInv, ThreadInv, At, StartAt, Join, install
<1>8. CallInv'
  BY DEF IInv, CallInv, Join
<1>. QED BY <1>1, <1>2, <1>3, <1>4, <1>5, <1>6, <1>7, <1>8, JoinTyped DEF IInv

-----------------------------------------------------------------------------
(* The theorems                                                            *)

LEMMA InitInv ==
  ASSUME Init
  PROVE  IInv
<1>2. start \in [Starters -> Startup] /\ call \in [Calls -> Waiter] /\ worker \in [Workers -> Worker]
  BY DEF Init, Startup, NewStart, NoStart, Waiter, NewCall, NoCall, Worker
<1>3. TypeOK
  <2>1. cancelled \in BOOLEAN /\ paused \in BOOLEAN /\ workerDone \in BOOLEAN
    BY DEF Init
  <2>2. restarts \in 0..MaxRestarts /\ requests \in 0..MaxRequests /\ faults \in 0..MaxFaults
    BY RuntimeAssumption DEF Init
  <2>. QED BY <1>2, <2>1, <2>2 DEF Init, TypeOK, Phases
<1>4. \A s \in Starters : start[s].old = 0 /\ ~start[s].cancelled
  BY DEF Init, NewStart, NoStart
<1>5. LeaseInv
  BY <1>4, RuntimeAssumption DEF Init, LeaseInv
<1>6. ChildInv
  BY RuntimeAssumption DEF Init, ChildInv
<1>7. ReadyInv /\ OneChild /\ PhaseInv
  BY DEF Init, ReadyInv, OneChild, PhaseInv, Busy
<1>8. ExitInv
  BY DEF Init, ExitInv, ExitLeavesNoServer
<1>9. ThreadInv
  BY DEF Init, ThreadInv, At, StartAt, NewStart, NoStart, Workers, Starters
<1>10. CallInv
  BY DEF Init, CallInv, NewCall, NoCall
<1>. QED BY <1>3, <1>5, <1>6, <1>7, <1>8, <1>9, <1>10 DEF IInv

LEMMA StutterInv ==
  ASSUME IInv, UNCHANGED vars
  PROVE  IInv'
<1>1. TypeOK'
  BY DEF IInv, TypeOK, vars, disk, events, install, serving
<1>2. LeaseInv' /\ ChildInv' /\ ReadyInv' /\ OneChild'
  BY ServingKept DEF vars, serving
<1>3. ExitInv' /\ CallInv'
  BY DEF IInv, ExitInv, CallInv, ExitLeavesNoServer, Drained, StartAt, vars, events, serving
<1>4. PhaseInv' /\ ThreadInv'
  BY DEF IInv, PhaseInv, ThreadInv, Shows, SetupRaised, Reports, Installing, At, StartAt,
     vars, install
<1>. QED BY <1>1, <1>2, <1>3, <1>4 DEF IInv

LEMMA StepInv ==
  ASSUME IInv, [Next]_vars
  PROVE  IInv'
<1>1. ASSUME NEW k \in Workers, WorkerStep(k) PROVE IInv'
  BY <1>1, SetupFailsStep, InspectStep, FetchRuntimeStep, CheckRuntimeStep, UnpackStep,
     PublishStep,
     MarkStep, FetchModelStep, CheckModelStep, LaunchStep, ReplaceStep, SettleStep,
     WorkerDoneStep, TaskDoneStep DEF WorkerStep
<1>2. ASSUME NEW s \in Starters, StartStep(s) PROVE IInv'
  BY <1>2, BeginStep, VerifyStep, StopOldStep, ReapOldStep, SpawnStep, HealthStep,
     FailingStep, ReapNewStep, FinishStep DEF StartStep
<1>3. ASSUME NEW c \in Calls, CallStep(c) PROVE IInv'
  BY <1>3, WaitThreadStep, ThrownStep, ResumedStep, DiscardStep, EraseStep, EraseStopStep,
     EraseReapStep, EraseDeleteStep DEF CallStep
<1>4. ASSUME Shutdown PROVE IInv'
  BY <1>4, StopAllStep, QuiesceStep, JoinStep DEF Shutdown
<1>5. CASE UNCHANGED vars
  BY <1>5, StutterInv
<1>6. ASSUME NEW child \in Children, ChildDies(child) PROVE IInv'
  BY <1>6, ChildDiesStep
<1>7. ASSUME NEW m \in Models, NEW replace \in BOOLEAN, Install(m, replace) PROVE IInv'
  BY <1>7, InstallStep
<1>. QED
  BY <1>1, <1>2, <1>3, <1>4, <1>5, <1>6, <1>7, PauseStep, ResumeStep, RestartStep,
     CancelStep, RemoveStep, CancelStartupStep DEF Next, Exited

LEMMA SpecInv == Spec => []IInv
<1>1. Init => IInv
  BY InitInv
<1>2. IInv /\ [Next]_vars => IInv'
  BY StepInv
<1>. QED BY <1>1, <1>2, PTL DEF Spec

\* Files, status, threads, startups and requests stay well typed, within the bounds.
THEOREM RuntimeTypeCorrect == Spec => []TypeOK
<1>1. IInv => TypeOK
  BY DEF IInv
<1>. QED BY <1>1, SpecInv, PTL

\* One llama.cpp runs at most, the one whose handle is held, and none is left behind by
\* a lifespan that ends, unless the operating system refused to kill one.
THEOREM ServersAreOwned == Spec => []ServersOwned
<1>1. IInv => ServersOwned
  BY DEF IInv, OneChild, ExitInv, ServersOwned, NoOrphan
<1>. QED BY <1>1, SpecInv, PTL

\* A manager that shows "ready" holds the child whose endpoint it publishes.
THEOREM ReadyIsServed == Spec => []ReadyHasServer
<1>1. IInv => ReadyHasServer
  BY DEF IInv, ReadyInv, ReadyHasServer
<1>. QED BY <1>1, SpecInv, PTL

\* No progress is shown once nobody installs or starts anything, unless the setup of
\* the last installation raised before any handler that could say so.
THEOREM PhaseSettles == Spec => []SettledPhase
<1>1. ASSUME IInv PROVE SettledPhase
  <2>1. SUFFICES ASSUME app = "up", \A k \in Workers : worker[k].at = "none",
                        \A s \in Starters : start[s].at = "none", phase \in Busy
                 PROVE  raised /\ phase = "downloading_runtime"
    BY DEF SettledPhase
  <2>2. (\A k \in Workers : ~Shows(k)) /\ (SetupRaised => raised)
    BY <2>1 DEF Shows, SetupRaised, Reports, Installing, At
  <2>3. \A s \in Resident : start[s].at = "none"
    BY <2>1 DEF Resident, Starters
  <2>. QED BY <1>1, <2>1, <2>2, <2>3 DEF IInv, PhaseInv
<1>. QED BY <1>1, SpecInv, PTL

=============================================================================
