--------------------------- MODULE ManagedRuntime ---------------------------
(***************************************************************************)
(* The local model: the installer thread, the llama.cpp child process and  *)
(* the requests that pause, resume, cancel, remove and restart it          *)
(* (backend/inference/managed_runtime.py, startup.py, service.py and the   *)
(* lifespan of main.py).  One variable stands for each field guarded by    *)
(* the status lock; everything between two lock sections is a step of its  *)
(* own.  Init ranges over what an earlier process can leave on disk.       *)
(***************************************************************************)
EXTENDS Naturals, FiniteSets

CONSTANTS Models,      \* keys of the signed catalog
          Default,     \* catalog.models[0]
          Calls,       \* requests that may be in progress at a time
          None,
          MaxRestarts, \* restarts accepted within the window of five minutes
          MaxRequests, \* requests in one behaviour
          MaxFaults    \* children that may refuse to die

Workers == {"w1", "w2"}            \* installer threads
Starters == Workers \cup {"boot", "restart"}
Children == 1..4                   \* process handles, reused once forgotten

ASSUME RuntimeAssumption ==
  /\ Default \in Models /\ None \notin Models \cup Starters
  /\ MaxRestarts \in Nat /\ MaxRequests \in Nat /\ MaxFaults \in Nat

VARIABLES
  runtime,     \* the unpacked llama.cpp: absent, partial (no valid marker), verified
  archive,     \* its archive in staging: absent, part, full
  weights,     \* the weights of each model: absent, part, full
  phase, modelKey, replaceFrom,
  cancelled, paused,               \* the two events the installer polls
  worker,      \* per installer thread: where it is and for which model
  workerDone,  \* the event _worker_done
  task,        \* the last task created
  raised,      \* that task is done and holds an exception
  lease,       \* whose start() owns the startup
  start,       \* per starter: where its start() is
  process,     \* the handle _process
  endpoint,    \* the child whose endpoint and key are published
  alive,       \* children that run
  call,        \* requests that wait
  restarts, requests, app, faults

disk == <<runtime, archive, weights>>
events == <<cancelled, paused>>
install == <<worker, workerDone, task, raised, replaceFrom>>
serving == <<process, endpoint, alive, faults>>
vars == <<disk, phase, modelKey, events, install, lease, start, serving, call,
          restarts, requests, app>>

Phases == {"idle", "downloading_runtime", "installing_runtime", "downloading_model",
           "paused", "starting", "ready", "cancelled", "error"}
Busy == {"downloading_runtime", "installing_runtime", "downloading_model", "starting"}

NewStart(place, m) == [at |-> place, model |-> m, cancelled |-> FALSE, begun |-> FALSE,
                       child |-> 0, old |-> 0]
NoStart == NewStart("none", None)
NewCall(op, place, k, m) == [op |-> op, at |-> place, on |-> k, model |-> m, old |-> 0]
NoCall == NewCall("none", "none", None, None)

Worker == [at : {"none", "inspect", "fetch_runtime", "check_runtime", "unpack", "publish",
                 "mark", "fetch_model", "check_model", "launch", "starting", "replace",
                 "dropped", "failed", "leaving", "joined", "raising", "raised"},
           model : Models \cup {None}]
Startup == [at : {"none", "begin", "verify", "stop", "reap", "spawn", "health", "failing",
                  "dropping", "erring", "ok", "dropped", "failed"},
            model : Models \cup {None}, cancelled : BOOLEAN, begun : BOOLEAN,
            child : {0} \cup Children, old : {0} \cup Children]
Waiter == [op : {"none", "resume", "cancel", "remove"},
           at : {"none", "task", "woken", "thrown", "thread", "proceed", "stop", "reap", "delete"},
           on : Workers \cup {None}, model : Models \cup {None}, old : {0} \cup Children]

TypeOK ==
  /\ runtime \in {"absent", "partial", "verified"}
  /\ archive \in {"absent", "part", "full"}
  /\ weights \in [Models -> {"absent", "part", "full"}]
  /\ phase \in Phases /\ modelKey \in Models \cup {None}
  /\ replaceFrom \in Models \cup {None}
  /\ cancelled \in BOOLEAN /\ paused \in BOOLEAN
  /\ worker \in [Workers -> Worker]
  /\ workerDone \in BOOLEAN /\ task \in Workers \cup {None} /\ raised \in BOOLEAN
  /\ lease \in Starters \cup {None}
  /\ start \in [Starters -> Startup]
  /\ process \in {0} \cup Children /\ endpoint \in {0} \cup Children
  /\ alive \subseteq Children
  /\ call \in [Calls -> Waiter]
  /\ restarts \in 0..MaxRestarts /\ requests \in 0..MaxRequests /\ faults \in 0..MaxFaults
  /\ app \in {"up", "stop", "quiesce", "join", "last_stop", "exited"}

Installed(m) == runtime = "verified" /\ weights[m] = "full"

\* On the desktop the lifespan starts an installed model at once (main.py).  How many
\* requests are to come is open: the counter may start anywhere below its bound.
Init ==
  /\ runtime \in {"absent", "partial", "verified"}
  /\ archive \in {"absent", "part", "full"}
  /\ weights \in [Models -> {"absent", "part", "full"}]
  /\ phase = "idle" /\ modelKey = None /\ replaceFrom = None
  /\ cancelled = FALSE /\ paused = FALSE
  /\ worker = [k \in Workers |-> [at |-> "none", model |-> None]]
  /\ workerDone = TRUE /\ task = None /\ raised = FALSE /\ lease = None
  /\ start = [s \in Starters |->
                IF s = "boot" /\ Installed(Default) THEN NewStart("begin", None)
                ELSE NoStart]
  /\ process = 0 /\ endpoint = 0 /\ alive = {}
  /\ call = [c \in Calls |-> NoCall]
  /\ restarts = 0 /\ requests \in 0..MaxRequests /\ faults = 0 /\ app = "up"

-----------------------------------------------------------------------------
(* The installer thread                                                    *)

At(k, place) == worker[k].at = place
Go(k, place) == worker' = [worker EXCEPT ![k].at = place]
InstallKept == UNCHANGED <<workerDone, task, raised, replaceFrom>>
Elsewhere == UNCHANGED <<modelKey, events, lease, start, serving, call, restarts, requests, app>>

\* How _install_sync ends: a pause keeps the replacement, the others forget it.
Leave(k, outcome) ==
  /\ Go(k, "leaving")
  /\ phase' = outcome
  /\ replaceFrom' = IF outcome = "paused" THEN replaceFrom ELSE None
  /\ UNCHANGED <<workerDone, task, raised>>

\* Loading the catalog or preparing the three directories raises before the try of
\* _install_sync: no handler touches the status, and the task keeps the exception.
SetupFails(k) ==
  /\ At(k, "inspect") /\ Go(k, "raising")
  /\ UNCHANGED <<disk, phase>> /\ InstallKept /\ Elsewhere

\* The checks before any download: bad or useless files are removed, what is
\* verified is skipped, and the disk must have room.
Inspect(k) ==
  /\ At(k, "inspect")
  /\ LET m == worker[k].model
         useful == IF runtime = "verified" THEN "absent" ELSE archive IN
     \/ /\ archive' = useful
        /\ IF runtime # "verified"
           THEN /\ phase' = "downloading_runtime"
                /\ Go(k, IF archive = "full" THEN "unpack" ELSE "fetch_runtime")
           ELSE IF weights[m] # "full"
           THEN phase' = "downloading_model" /\ Go(k, "fetch_model")
           ELSE Go(k, "launch") /\ UNCHANGED phase
        /\ InstallKept
     \/ /\ weights[m] # "full" \/ (runtime # "verified" /\ archive # "full")
        /\ phase' = "error" /\ Go(k, "leaving")     \* insufficient_disk_space
        /\ InstallKept /\ archive' = useful
     \/ /\ archive' \in {archive, useful}          \* a check or a removal fails
        /\ Leave(k, "error")
  /\ UNCHANGED <<runtime, weights>> /\ Elsewhere

\* What the download loop does at its next chunk.
Polled == IF paused THEN "paused" ELSE IF cancelled THEN "cancelled" ELSE "go"

\* download_verified keeps its fragment only for a pause.
Fragment(old, outcome) == IF outcome = "paused" THEN old ELSE "absent"

FetchRuntime(k) ==
  /\ At(k, "fetch_runtime")
  /\ IF Polled # "go"
     THEN /\ archive' = Fragment(archive, Polled)
          /\ Leave(k, Polled)
     ELSE \/ archive' = "part" /\ UNCHANGED <<worker, phase>> /\ InstallKept
          \/ archive' = "part" /\ Go(k, "check_runtime") /\ UNCHANGED phase /\ InstallKept
          \/ archive' = "absent" /\ Leave(k, "error")        \* the network fails
  /\ UNCHANGED <<runtime, weights>> /\ Elsewhere

\* The checksum, then the atomic publication; os.replace fails without its source.
CheckRuntime(k) ==
  /\ At(k, "check_runtime")
  /\ \/ archive = "part" /\ archive' = "full" /\ Go(k, "unpack") /\ UNCHANGED phase /\ InstallKept
     \/ archive' = Fragment(archive, "error") /\ Leave(k, "error")
  /\ UNCHANGED <<runtime, weights>> /\ Elsewhere

\* Extraction into a directory of its own, polled for cancellation only.
Unpack(k) ==
  /\ At(k, "unpack")
  /\ \/ /\ phase' = "installing_runtime" /\ ~cancelled
        /\ archive = "full"
        /\ Go(k, "publish") /\ InstallKept
     \/ cancelled /\ Leave(k, "cancelled")
     \/ Leave(k, "error")
     \/ phase' = "error" /\ Go(k, "leaving") /\ InstallKept  \* no room to unpack
  /\ UNCHANGED disk /\ Elsewhere

\* The old directory goes and the new one takes its place, without a marker yet.
Publish(k) ==
  /\ At(k, "publish")
  /\ \/ runtime' = "partial" /\ Go(k, "mark") /\ UNCHANGED phase /\ InstallKept
     \/ runtime' = "absent" /\ Leave(k, "error")
  /\ UNCHANGED <<archive, weights>> /\ Elsewhere

\* The source archive moves in, the marker is written, the inventory verified.
Mark(k) ==
  /\ At(k, "mark")
  /\ LET m == worker[k].model
         moved == IF archive = "full" THEN "absent" ELSE archive IN
     \/ /\ archive = "full" /\ runtime = "partial"
        /\ runtime' = "verified" /\ archive' = moved
        /\ IF weights[m] # "full"
           THEN phase' = "downloading_model" /\ Go(k, "fetch_model")
           ELSE Go(k, "launch") /\ UNCHANGED phase
        /\ InstallKept
     \/ archive' \in {archive, moved} /\ runtime' = runtime /\ Leave(k, "error")
  /\ UNCHANGED weights /\ Elsewhere

FetchModel(k) ==
  /\ At(k, "fetch_model")
  /\ LET m == worker[k].model IN
     IF Polled # "go"
     THEN /\ weights' = [weights EXCEPT ![m] = Fragment(@, Polled)]
          /\ Leave(k, Polled)
     ELSE \/ /\ weights' = [weights EXCEPT ![m] = "part"]
             /\ \/ UNCHANGED worker
                \/ Go(k, "check_model")
             /\ UNCHANGED phase /\ InstallKept
          \/ /\ weights' = [weights EXCEPT ![m] = "absent"]
             /\ Leave(k, "error")
  /\ UNCHANGED <<runtime, archive>> /\ Elsewhere

CheckModel(k) ==
  /\ At(k, "check_model")
  /\ LET m == worker[k].model IN
     \/ /\ weights[m] = "part"
        /\ weights' = [weights EXCEPT ![m] = "full"]
        /\ Go(k, "launch") /\ UNCHANGED phase /\ InstallKept
     \/ /\ weights' = [weights EXCEPT ![m] = Fragment(@, "error")]
        /\ Leave(k, "error")
  /\ UNCHANGED <<runtime, archive>> /\ Elsewhere

\* Both events are read once more before the start.
Launch(k) ==
  /\ At(k, "launch")
  /\ IF Polled # "go"
     THEN Leave(k, Polled) /\ UNCHANGED start
     ELSE /\ Go(k, "starting") /\ UNCHANGED phase /\ InstallKept
          /\ start' = [start EXCEPT ![k] = NewStart("begin", worker[k].model)]
  /\ UNCHANGED <<disk, modelKey, events, lease, serving, call, restarts, requests, app>>

\* The weights a replacement supersedes go once the new model is ready.
Replace(k) ==
  /\ At(k, "replace")
  /\ \/ /\ weights' = IF replaceFrom \notin {None, worker[k].model}
                      THEN [weights EXCEPT ![replaceFrom] = "absent"] ELSE weights
        /\ replaceFrom' = None /\ Go(k, "leaving")
        /\ UNCHANGED <<phase, workerDone, task, raised>>
     \/ /\ replaceFrom \notin {None, worker[k].model}      \* the file cannot be removed
        /\ Leave(k, "error") /\ UNCHANGED weights
  /\ UNCHANGED <<runtime, archive>> /\ Elsewhere

\* Fault: a start that was cancelled reports nothing to the status.
Settle_Silent(k) ==
  /\ \/ At(k, "dropped") /\ Go(k, "leaving") /\ InstallKept /\ UNCHANGED phase
     \/ At(k, "failed") /\ Leave(k, "error")
  /\ UNCHANGED disk /\ Elsewhere

\* The start raised: its handler records why.
Settle(k) ==
  /\ \/ At(k, "dropped") /\ Leave(k, "cancelled")
     \/ At(k, "failed") /\ Leave(k, "error")
  /\ UNCHANGED disk /\ Elsewhere

\* Fault: the thread's event is set only by an installation that ended well.
WorkerDone_NoFinally(k) ==
  /\ At(k, "leaving")
  /\ Go(k, "joined") /\ workerDone' = (phase = "ready")
  /\ UNCHANGED <<disk, phase, modelKey, events, task, raised, replaceFrom, lease, start,
                 serving, call, restarts, requests, app>>

\* The finally of _run_install_worker releases whoever joins the thread ...
WorkerDone(k) ==
  /\ \/ At(k, "leaving") /\ Go(k, "joined")
     \/ At(k, "raising") /\ Go(k, "raised")
  /\ workerDone' = TRUE
  /\ call' = [c \in Calls |-> IF call[c].at = "thread"
                              THEN [call[c] EXCEPT !.at = "proceed"] ELSE call[c]]
  /\ UNCHANGED <<disk, phase, modelKey, events, task, raised, replaceFrom, lease, start,
                 serving, restarts, requests, app>>

\* ... and the event loop then completes the task, waking those who await it with
\* its result or its exception.
TaskDone(k) ==
  /\ At(k, "joined") \/ At(k, "raised")
  /\ raised' = IF task = k THEN At(k, "raised") ELSE raised
  /\ worker' = [worker EXCEPT ![k] = [at |-> "none", model |-> None]]
  /\ call' = [c \in Calls |-> IF call[c].at = "task" /\ call[c].on = k
                              THEN [call[c] EXCEPT !.at =
                                      IF At(k, "raised") THEN "thrown" ELSE "woken"]
                              ELSE call[c]]
  /\ UNCHANGED <<disk, phase, modelKey, events, workerDone, task, replaceFrom, lease, start,
                 serving, restarts, requests, app>>

WorkerStep(k) ==
  \/ SetupFails(k) \/ Inspect(k) \/ FetchRuntime(k) \/ CheckRuntime(k) \/ Unpack(k) \/ Publish(k)
  \/ Mark(k) \/ FetchModel(k) \/ CheckModel(k) \/ Launch(k) \/ Replace(k)
  \/ Settle(k)
  \/ WorkerDone(k) \/ TaskDone(k)

-----------------------------------------------------------------------------
(* start(), run by an installer thread, the lifespan or a restart request  *)

StartAt(s, place) == start[s].at = place
Move(s, place) == start' = [start EXCEPT ![s].at = place]
Cancelled(x) == [x EXCEPT !.cancelled = TRUE]
RestKept == UNCHANGED <<disk, events, install, call, restarts, requests, app>>

LeaseSet(s) == start[s].cancelled \/ (s \in Workers /\ cancelled)
Owns(s) == lease = s /\ ~LeaseSet(s)

\* Another start is refused while the lease of the running one stands.
Begin(s) ==
  /\ StartAt(s, "begin")
  /\ IF lease # None /\ lease # s /\ ~LeaseSet(lease)
     THEN Move(s, "failed") /\ UNCHANGED lease
     ELSE /\ lease' = s
          /\ start' = [start EXCEPT ![s].at = "verify",
               ![s].model = IF @ # None THEN @ ELSE IF modelKey # None THEN modelKey
                            ELSE Default]
  /\ RestKept /\ UNCHANGED <<phase, modelKey, serving>>

\* Runtime and weights are hashed again before every start.
Verify(s) ==
  /\ StartAt(s, "verify")
  /\ Move(s, IF LeaseSet(s) \/ ~Installed(start[s].model) THEN "failing" ELSE "stop")
  /\ RestKept /\ UNCHANGED <<phase, modelKey, lease, serving>>

Unpublish == endpoint' = 0 /\ phase' = IF phase \in {"ready", "starting"} THEN "idle" ELSE phase

StopOld(s) ==
  /\ StartAt(s, "stop")
  /\ IF Owns(s)
     THEN /\ start' = [start EXCEPT ![s].at = "reap", ![s].old = process]
          /\ Unpublish
     ELSE Move(s, "failing") /\ UNCHANGED <<phase, endpoint>>
  /\ RestKept /\ UNCHANGED <<modelKey, lease, process, alive, faults>>

\* terminate_process: the handle is forgotten only once the child is gone.
Gone(child) ==
  /\ alive' = alive \ {child}
  /\ process' = IF process = child THEN 0 ELSE process
  /\ UNCHANGED faults

Refuses(child) ==
  /\ child \in alive /\ faults < MaxFaults
  /\ faults' = faults + 1 /\ UNCHANGED <<alive, process>>

ReapOld(s) ==
  /\ StartAt(s, "reap")
  /\ \/ /\ Gone(start[s].old)
        /\ start' = [start EXCEPT ![s].at = "spawn", ![s].old = 0]
     \/ /\ Refuses(start[s].old)
        /\ start' = [start EXCEPT ![s].at = "failing", ![s].old = 0]
  /\ RestKept /\ UNCHANGED <<phase, modelKey, lease, endpoint>>

InHand == {start[s].child : s \in Starters} \cup {start[s].old : s \in Starters}
          \cup {call[c].old : c \in Calls}
Free == Children \ (alive \cup InHand \cup {process, endpoint})

\* The lock is held from the check of the lease until the handle is stored.
Spawn(s) ==
  /\ StartAt(s, "spawn") /\ Free # {}
  /\ LET child == CHOOSE c \in Free : \A d \in Free : c <= d IN
     \/ /\ Owns(s) /\ runtime = "verified"
        /\ start' = [start EXCEPT ![s].at = "health", ![s].begun = TRUE, ![s].child = child]
        /\ phase' = "starting" /\ modelKey' = start[s].model
        /\ endpoint' = child /\ process' = child /\ alive' = alive \cup {child}
     \/ /\ Owns(s)                                          \* Popen fails
        /\ start' = [start EXCEPT ![s].at = "failing", ![s].begun = TRUE]
        /\ phase' = "starting" /\ modelKey' = start[s].model /\ endpoint' = child
        /\ UNCHANGED <<process, alive>>
     \/ /\ ~Owns(s) /\ Move(s, "failing")
        /\ UNCHANGED <<phase, modelKey, endpoint, process, alive>>
  /\ RestKept /\ UNCHANGED <<lease, faults>>

\* Fault: a start that lost its lease still announces its child.
Health_Unowned(s) ==
  /\ StartAt(s, "health")
  /\ \/ start[s].child \in alive /\ phase' = "ready" /\ Move(s, "ok")
     \/ Move(s, "failing") /\ UNCHANGED phase
  /\ RestKept /\ UNCHANGED <<modelKey, lease, serving>>

\* The wait ends by an answer, a death, a cancellation or after 45 seconds.
Health(s) ==
  /\ StartAt(s, "health")
  /\ \/ /\ Owns(s) /\ process = start[s].child /\ start[s].child \in alive
        /\ phase' = "ready" /\ Move(s, "ok")
     \/ Move(s, "failing") /\ UNCHANGED phase
  /\ RestKept /\ UNCHANGED <<modelKey, lease, serving>>

\* Only the current start may withdraw what it published.
Failing(s) ==
  /\ StartAt(s, "failing")
  /\ LET dropped == LeaseSet(s) \/ lease # s IN
     /\ Move(s, IF dropped THEN "dropping" ELSE "erring")
     /\ IF lease = s /\ start[s].begun
        THEN endpoint' = 0 /\ phase' = IF dropped THEN "idle" ELSE "error"
        ELSE UNCHANGED <<endpoint, phase>>
  /\ RestKept /\ UNCHANGED <<modelKey, lease, process, alive, faults>>

\* Fault: a failed start forgets the child it spawned.
ReapNew_Forgotten(s) ==
  /\ StartAt(s, "dropping") \/ StartAt(s, "erring")
  /\ Move(s, IF StartAt(s, "dropping") THEN "dropped" ELSE "failed")
  /\ process' = IF process = start[s].child THEN 0 ELSE process
  /\ RestKept /\ UNCHANGED <<phase, modelKey, lease, endpoint, alive, faults>>

ReapNew(s) ==
  /\ StartAt(s, "dropping") \/ StartAt(s, "erring")
  /\ IF start[s].child = 0
     THEN /\ Move(s, IF StartAt(s, "dropping") THEN "dropped" ELSE "failed")
          /\ UNCHANGED <<process, alive, faults>>
     ELSE \/ /\ Gone(start[s].child)
             /\ Move(s, IF StartAt(s, "dropping") THEN "dropped" ELSE "failed")
          \/ Refuses(start[s].child) /\ Move(s, "failed")
  /\ RestKept /\ UNCHANGED <<phase, modelKey, lease, endpoint>>

\* The lease is returned whatever happened, and the starter goes on.
Finish(s) ==
  /\ start[s].at \in {"ok", "dropped", "failed"}
  /\ lease' = IF lease = s THEN None ELSE lease
  /\ start' = [start EXCEPT ![s] = NoStart]
  /\ worker' = IF s \in Workers
               THEN [worker EXCEPT ![s].at = IF start[s].at = "ok" THEN "replace" ELSE start[s].at]
               ELSE worker
  /\ UNCHANGED <<disk, phase, modelKey, events, workerDone, task, raised, replaceFrom,
                 serving, call, restarts, requests, app>>

StartStep(s) ==
  \/ Begin(s) \/ Verify(s) \/ StopOld(s) \/ ReapOld(s) \/ Spawn(s) \/ Health(s)
  \/ Failing(s) \/ ReapNew(s) \/ Finish(s)

\* llama.cpp exits by itself.
ChildDies(child) ==
  /\ child \in alive /\ faults < MaxFaults
  /\ alive' = alive \ {child} /\ faults' = faults + 1
  /\ UNCHANGED <<disk, phase, modelKey, events, install, lease, start, process, endpoint,
                 call, restarts, requests, app>>

-----------------------------------------------------------------------------
(* Requests                                                                *)

Request == app = "up" /\ requests < MaxRequests /\ requests' = requests + 1

TaskPending == task # None /\ worker[task].at # "none"
Slots == {k \in Workers : worker[k].at = "none"}

\* create_task(to_thread(_run_install_worker)); the thread checks the disk first.
StartWorker(m) ==
  \E k \in Slots :
    /\ worker' = [worker EXCEPT ![k] = [at |-> "inspect", model |-> m]]
    /\ task' = k /\ workerDone' = FALSE /\ raised' = FALSE
    /\ phase' = "downloading_runtime"
    /\ cancelled' = FALSE /\ paused' = FALSE

Install(m, replace) ==
  /\ Request /\ workerDone /\ ~TaskPending
  /\ ~(phase = "paused" /\ modelKey = m)
  /\ StartWorker(m)
  /\ replaceFrom' = IF replace /\ modelKey \notin {None, m} THEN modelKey ELSE None
  /\ modelKey' = m
  /\ UNCHANGED <<disk, lease, start, serving, call, restarts, app>>

Pause ==
  /\ Request /\ phase \in {"downloading_runtime", "downloading_model"}
  /\ paused' = TRUE /\ phase' = "paused"
  /\ UNCHANGED <<disk, modelKey, cancelled, install, lease, start, serving, call, restarts, app>>

\* What cancel_install does under the lock.
CancelInstall ==
  /\ cancelled' = TRUE /\ paused' = FALSE
  /\ phase' = IF phase \in Busy \cup {"paused"} THEN "cancelled" ELSE phase

\* Where wait_for_install first stops: at the task, at the exception of one that is
\* done, at the thread's event, or nowhere.  A wait that is over at once does not give
\* the event loop back.
FirstWait == IF TaskPending THEN "task" ELSE IF raised THEN "thrown"
             ELSE IF workerDone THEN "proceed" ELSE "thread"

Wait(op, m) ==
  \E c \in {c \in Calls : call[c].op = "none"} :
    call' = [call EXCEPT ![c] = NewCall(op, FirstWait, task, m)]

\* A waiter goes on when its task is done and the thread's event is set, and reads
\* the event only once more: a thread started meanwhile is waited for, a second is not.
Proceeds(c) == call[c].at = "proceed" \/ (call[c].at = "woken" /\ workerDone)
End(c) == call' = [call EXCEPT ![c] = NoCall]

WaitThread(c) ==
  /\ call[c].at = "woken" /\ ~workerDone
  /\ call' = [call EXCEPT ![c].at = "thread"]
  /\ UNCHANGED <<disk, phase, modelKey, events, install, lease, start, serving, restarts, requests, app>>

\* The exception of the task reaches the caller, who does nothing more.
Thrown(c) ==
  /\ call[c].at = "thrown" /\ End(c)
  /\ UNCHANGED <<disk, phase, modelKey, events, install, lease, start, serving, restarts, requests, app>>

Resume ==
  /\ Request /\ phase = "paused" /\ modelKey # None
  /\ IF FirstWait = "proceed"
     THEN StartWorker(modelKey) /\ UNCHANGED call
     ELSE Wait("resume", modelKey) /\ UNCHANGED <<phase, events, worker, workerDone, task, raised>>
  /\ UNCHANGED <<disk, modelKey, replaceFrom, lease, start, serving, restarts, app>>

\* The phase is not looked at again after the wait.
Resumed(c) ==
  /\ call[c].op = "resume" /\ Proceeds(c)
  /\ StartWorker(call[c].model)
  /\ End(c)
  /\ UNCHANGED <<disk, modelKey, replaceFrom, lease, start, serving, restarts, requests, app>>

\* discard_partial_downloads removes the fragments of both directories.
DropFragments ==
  /\ archive' = IF archive = "part" THEN "absent" ELSE archive
  /\ weights' = [m \in Models |-> IF weights[m] = "part" THEN "absent" ELSE weights[m]]

Cancel ==
  /\ Request /\ CancelInstall
  /\ IF FirstWait = "proceed"
     THEN DropFragments /\ UNCHANGED call
     ELSE Wait("cancel", None) /\ UNCHANGED <<archive, weights>>
  /\ UNCHANGED <<runtime, modelKey, install, lease, start, serving, restarts, app>>

Discard(c) ==
  /\ call[c].op = "cancel" /\ Proceeds(c)
  /\ DropFragments
  /\ End(c)
  /\ UNCHANGED <<runtime, phase, modelKey, events, install, lease, start, serving, restarts, requests, app>>

Remove ==
  /\ Request /\ CancelInstall /\ Wait("remove", None)
  /\ UNCHANGED <<disk, modelKey, install, lease, start, serving, restarts, app>>

\* erase_installation: cancel again, refuse while the installer runs ...
Erase(c) ==
  /\ call[c].op = "remove" /\ Proceeds(c)
  /\ CancelInstall
  /\ IF workerDone THEN call' = [call EXCEPT ![c].at = "stop"] ELSE End(c)
  /\ UNCHANGED <<disk, modelKey, install, lease, start, serving, restarts, requests, app>>

\* stop(): the startup in progress loses its lease before the child is reaped.
Stop ==
  /\ lease' = None
  /\ start' = IF lease = None THEN start ELSE [start EXCEPT ![lease] = Cancelled(@)]
  /\ Unpublish

EraseStop(c) ==
  /\ call[c].at = "stop" /\ Stop
  /\ call' = [call EXCEPT ![c].at = "reap", ![c].old = process]
  /\ UNCHANGED <<disk, modelKey, events, install, process, alive, faults, restarts, requests, app>>

EraseReap(c) ==
  /\ call[c].at = "reap"
  /\ \/ /\ Gone(call[c].old)
        /\ call' = [call EXCEPT ![c].at = "delete", ![c].old = 0]
     \/ Refuses(call[c].old) /\ End(c)
  /\ UNCHANGED <<disk, phase, modelKey, events, install, lease, start, endpoint, restarts, requests, app>>

\* ... then the three directories go, or what an error leaves of them.
EraseDelete(c) ==
  /\ call[c].at = "delete"
  /\ \/ /\ runtime' = "absent" /\ archive' = "absent"
        /\ weights' = [m \in Models |-> "absent"]
        /\ phase' = "idle" /\ modelKey' = None
     \/ /\ runtime' \in {"partial", "absent"} /\ UNCHANGED <<archive, weights, phase, modelKey>>
  /\ End(c)
  /\ UNCHANGED <<events, install, lease, start, serving, restarts, requests, app>>

Restart ==
  /\ Request /\ StartAt("restart", "none") /\ restarts < MaxRestarts
  /\ restarts' = restarts + 1
  /\ Move("restart", "begin")
  /\ UNCHANGED <<disk, phase, modelKey, events, install, lease, serving, call, app>>

-----------------------------------------------------------------------------
(* The end of the lifespan: the server has answered every request          *)

Drained == StartAt("restart", "none") /\ \A c \in Calls : call[c].op = "none"
Down(from, to) == app = from /\ app' = to

CancelStartup ==
  /\ Drained /\ Down("up", "stop")
  /\ lease' = None
  /\ start' = [s \in Starters |->
                 IF s \in {lease, "boot"} THEN Cancelled(start[s]) ELSE start[s]]
  /\ UNCHANGED <<disk, phase, modelKey, events, install, serving, call, restarts, requests>>

\* stop() a first and a last time; here the wait for the child is one step with it.
StopAll(from, to) ==
  /\ Down(from, to) /\ Stop
  /\ \/ Gone(process)
     \/ Refuses(process)
  /\ UNCHANGED <<disk, modelKey, events, install, call, restarts, requests>>

Quiesce ==
  /\ Down("quiesce", "join") /\ CancelInstall
  /\ UNCHANGED <<disk, modelKey, install, lease, start, serving, call, restarts, requests>>

Join ==
  /\ Down("join", "last_stop")
  /\ ~TaskPending /\ workerDone /\ StartAt("boot", "none")
  /\ UNCHANGED <<disk, phase, modelKey, events, install, lease, start, serving, call, restarts, requests>>

Shutdown ==
  StopAll("stop", "quiesce") \/ Quiesce \/ Join \/ StopAll("last_stop", "exited")

CallStep(c) ==
  \/ WaitThread(c) \/ Thrown(c) \/ Resumed(c) \/ Discard(c)
  \/ Erase(c) \/ EraseStop(c) \/ EraseReap(c) \/ EraseDelete(c)

Exited == app = "exited" /\ UNCHANGED vars

Next ==
  \/ \E k \in Workers : WorkerStep(k)
  \/ \E s \in Starters : StartStep(s)
  \/ \E child \in Children : ChildDies(child)
  \/ \E m \in Models : \E replace \in BOOLEAN : Install(m, replace)
  \/ Pause \/ Resume \/ Restart
  \/ Cancel \/ Remove
  \/ \E c \in Calls : CallStep(c)
  \/ CancelStartup \/ Shutdown
  \/ Exited

Spec == Init /\ [][Next]_vars

\* Threads are scheduled, the loop runs what is ready, and every wait of start() and
\* of a download has a timeout: each of their steps is taken in the end.
Fairness ==
  /\ \A k \in Workers : WF_vars(WorkerStep(k))
  /\ \A s \in Starters : WF_vars(StartStep(s))
  /\ \A c \in Calls : WF_vars(CallStep(c))
  /\ WF_vars(Shutdown)

FairSpec == Spec /\ Fairness

-----------------------------------------------------------------------------
(* Properties                                                              *)

\* No child is forgotten: a llama.cpp process that runs is the one whose handle the
\* manager holds or is in the hands of a start that will reap it (_reap_process,
\* the re-check of the lease before Popen).
NoOrphan == alive \subseteq {process} \cup {start[s].child : s \in Starters}

\* The endpoint that "ready" publishes is that of the child whose handle is held,
\* whatever starts, stops and removals overlapped (start, _stop_current_process).
ReadyHasServer == phase = "ready" => process # 0 /\ endpoint = process

\* Once no thread installs or starts anything the status no longer shows progress:
\* the interface does not wait for an installation that nobody runs (the handlers of
\* _install_sync and start).  The one exception is an installation whose setup raised
\* before those handlers: it shows "downloading_runtime", and its task still holds
\* the exception, until it is paused or cancelled or another one is started.
SettledPhase ==
  (/\ app = "up" /\ phase \in Busy
   /\ \A k \in Workers : worker[k].at = "none"
   /\ \A s \in Starters : start[s].at = "none")
  => raised /\ phase = "downloading_runtime"

\* A process that leaves the lifespan leaves no llama.cpp behind, unless the
\* operating system refused to kill one (main.py, the order of its finally block).
ExitLeavesNoServer == app = "exited" /\ faults = 0 => alive = {}

\* Every child is accounted for while the application runs and gone when it exits.
ServersOwned == NoOrphan /\ ExitLeavesNoServer

\* Every request that waits for the installer is answered, and a shutdown ends, even
\* when requests keep restarting the installer (wait_for_install, the lifespan).
WaitsEnd ==
  /\ \A c \in Calls : call[c].op # "none" ~> call[c].op = "none"
  /\ app # "up" ~> app = "exited"
============================================================================
