---------------------------- MODULE SearchTasks ----------------------------
(***************************************************************************)
(* The life of the searches of one saved profile in the single supported   *)
(* worker process: reservation, activation, run, stop, shutdown, vault     *)
(* maintenance and process restarts.                                       *)
(*   backend/services/search_status.py, repositories/profile_repository.py *)
(*   search/finalization.py, api/routes/search.py, services/scheduler.py,  *)
(*   career/maintenance.py, main.py                                        *)
(*                                                                         *)
(* What runs between two awaits on the event loop is one step.  Status     *)
(* polls are synchronous routes in worker threads and interleave with it,  *)
(* also inside register_task, whose database update is made without the    *)
(* module lock ("activating").  The registries live in memory and die with *)
(* the process; the lock columns, the status columns and the receipt are   *)
(* in SQLite.  Attempts are numbered in the order of their reservations.   *)
(***************************************************************************)
EXTENDS Integers, FiniteSets

CONSTANTS MaxAttempts,  \* bound on the number of reservations
          MaxRequests,  \* bound on start requests in flight at the same time
          MaxFaults     \* bound on crashes and swallowed database errors

ASSUME SearchAssumption ==
  /\ MaxAttempts \in Nat \ {0} /\ MaxRequests \in Nat \ {0} /\ MaxFaults \in Nat

Attempts == 1..MaxAttempts
None == 0

VARIABLES
  lock,         \* search_lock_token, _state and whether its TTL has passed
  dbStatus,     \* search_status_payload
  receipt,      \* last_search_started_at and search_run_count
  memStatus,    \* _statuses
  reservation,  \* _reserved_tasks
  active,       \* _active_tasks
  requests,     \* authorised start requests that have not reserved yet
  phase,        \* where each attempt stands
  cancelled,    \* tasks with a cancellation on its way
  orphans,      \* runs that left a child task behind
  stopped,      \* attempts the user was told are stopped
  completed,    \* attempts whose pipeline reached "done"
  vault,        \* the account's maintenance, as far as searches see it
  joining,      \* the task cancel_and_clear_tasks waits for
  poll,         \* the status poll in flight
  exiting,      \* lifespan shutdown has begun
  faults

durable == <<lock, dbStatus, receipt>>
registry == <<memStatus, reservation, active>>
history == <<stopped, completed>>
maintenance == <<vault, joining>>
callers == <<requests, poll, exiting>>
vars == <<lock, dbStatus, receipt, memStatus, reservation, active, requests, phase,
          cancelled, orphans, stopped, completed, vault, joining, poll, exiting,
          faults>>

Free == [holder |-> None, state |-> "free", stale |-> FALSE]
NoReservation == [run |-> None, stale |-> FALSE]
NoStatus == [state |-> "none", run |-> None, stale |-> FALSE]

\* "running" stands for generating, searching and analyzing.
StatusStates == {"none", "reserved", "running", "done", "error", "stopped"}
ActiveStates == {"reserved", "running"}
TerminalStates == {"done", "error", "stopped"}
Statuses == [state : StatusStates, run : Attempts \cup {None}, stale : BOOLEAN]

Locks ==
  {l \in [holder : Attempts \cup {None}, state : {"free", "reserved", "active"},
          stale : BOOLEAN] : l.state = "free" <=> l.holder = None}
Reservations == [run : Attempts \cup {None}, stale : BOOLEAN]

Phases == {"idle", "queued", "activating", "readiness", "pipeline", "closing", "ended"}
Alive(a) == phase[a] \in {"readiness", "pipeline", "closing"}
Occupied(a) == phase[a] \notin {"idle", "ended"}

TypeOK ==
  /\ lock \in Locks
  /\ dbStatus \in Statuses /\ memStatus \in Statuses
  /\ receipt \in [run : Attempts \cup {None}, count : 0..MaxAttempts]
  /\ reservation \in Reservations
  /\ active \in Attempts \cup {None}
  /\ requests \in 0..MaxRequests
  /\ phase \in [Attempts -> Phases]
  /\ cancelled \subseteq Attempts /\ orphans \subseteq Attempts
  /\ stopped \subseteq Attempts /\ completed \subseteq Attempts
  /\ vault \in {"ready", "pending", "quiescing", "draining", "writing"}
  /\ joining \in Attempts \cup {None}
  /\ poll \in {"none", "arrived", "clears"} /\ exiting \in BOOLEAN
  /\ faults \in 0..MaxFaults

Init ==
  /\ lock = Free /\ dbStatus = NoStatus
  /\ receipt = [run |-> None, count |-> 0]
  /\ memStatus = NoStatus /\ reservation = NoReservation /\ active = None
  /\ requests = 0 /\ phase = [a \in Attempts |-> "idle"]
  /\ cancelled = {} /\ orphans = {} /\ stopped = {} /\ completed = {}
  /\ vault = "ready" /\ joining = None
  /\ poll = "none" /\ exiting = FALSE
  /\ faults = MaxFaults

NoFault == UNCHANGED faults
Fault == faults > 0 /\ faults' = faults - 1

\* Nothing else runs on the loop while register_task is inside its database call.
LoopFree == \A a \in Attempts : phase[a] # "activating"
MoveTo(a, place) == phase' = [phase EXCEPT ![a] = place]

-----------------------------------------------------------------------------
(* Status snapshots                                                        *)

\* Fault: every persisted "done" counts.
ReceiptAfter_Again(s) ==
  IF s.state = "done" THEN [run |-> s.run, count |-> receipt.count + 1] ELSE receipt

\* build_search_completion_summary and the guarded update of the receipt: one
\* increment per run, never backwards.
ReceiptAfter(s) ==
  IF s.state = "done" /\ receipt.run < s.run
  THEN [run |-> s.run, count |-> receipt.count + 1] ELSE receipt

\* _persist_current_status: status and receipt in one transaction, whose failure
\* is swallowed by _with_profile_repo.
Persist(s) ==
  \/ dbStatus' = s /\ receipt' = ReceiptAfter(s) /\ NoFault
  \/ UNCHANGED <<dbStatus, receipt>> /\ Fault

Publish(s) == memStatus' = s /\ Persist(s)

\* _status_is_expired.
Expired(s) == s.state \in {"reserved"} \cup TerminalStates /\ s.stale

\* The entry update_status works on: the local one, else the persisted one.
Known == IF memStatus # NoStatus THEN memStatus
         ELSE IF Expired(dbStatus) THEN NoStatus ELSE dbStatus

\* finished_at, from which a terminal status ages, is set once.
UpdateStatus(state) ==
  IF Known # NoStatus
  THEN Publish([Known EXCEPT !.state = state,
                  !.stale = @ /\ {state, Known.state} \subseteq TerminalStates])
  ELSE /\ dbStatus' = IF Expired(dbStatus) THEN NoStatus ELSE dbStatus
       /\ UNCHANGED <<memStatus, receipt>> /\ NoFault

\* _cleanup_stale_reservations.
CleanReservation == IF reservation.stale THEN NoReservation ELSE reservation
CleanStatus ==
  IF reservation.stale /\ memStatus.state = "reserved" THEN NoStatus ELSE memStatus

\* _clear_stale_persisted_statuses.
CleanPersisted ==
  IF dbStatus.state \in TerminalStates /\ dbStatus.stale THEN NoStatus ELSE dbStatus

\* get_all_statuses as start_search reads it, after the clean-up.
Merged ==
  LET current == IF CleanStatus # NoStatus THEN CleanStatus ELSE dbStatus
  IN IF Expired(current) THEN NoStatus ELSE current

CapReached == Merged.state \in ActiveStates

-----------------------------------------------------------------------------
(* Reservation                                                             *)

\* A request to start a search was authorised while the account was "ready" and
\* holds its reader permit; readiness is still to be awaited.
Authorize ==
  /\ requests < MaxRequests /\ vault = "ready" /\ ~exiting /\ LoopFree
  /\ requests' = requests + 1
  /\ UNCHANGED <<durable, registry, phase, cancelled, orphans, history, maintenance,
                 poll, exiting, faults>>

\* No live task of the profile in _active_tasks.
TaskSlotFree == active = None

\* reserve_task: nothing in memory, and acquire_search_lock finds the lock free
\* or past its TTL.
SlotFree ==
  /\ TaskSlotFree /\ CleanReservation = NoReservation
  /\ lock.holder = None \/ lock.stale

NextToken(a) == phase[a] = "idle" /\ \A b \in Attempts : b < a => phase[b] # "idle"

\* reserve_task and the registration of the background task.
Start(a) ==
  /\ requests > 0 /\ NextToken(a) /\ LoopFree
  /\ ~CapReached /\ SlotFree
  /\ requests' = requests - 1
  /\ lock' = [holder |-> a, state |-> "reserved", stale |-> FALSE]
  /\ reservation' = [run |-> a, stale |-> FALSE]
  /\ Publish([state |-> "reserved", run |-> a, stale |-> FALSE])
  /\ MoveTo(a, "queued")
  /\ UNCHANGED <<active, cancelled, orphans, history, maintenance, poll, exiting>>

\* The readiness dependency failed, or 429, or 409.
StartRefused ==
  /\ requests > 0 /\ LoopFree
  /\ requests' = requests - 1
  /\ \/ UNCHANGED <<dbStatus, memStatus, reservation>>
     \/ /\ CapReached \/ ~SlotFree
        /\ reservation' = CleanReservation /\ memStatus' = CleanStatus
        /\ dbStatus' = CleanPersisted
  /\ UNCHANGED <<lock, receipt, active, phase, cancelled, orphans, history, maintenance,
                 poll, exiting, faults>>

\* A scheduled run reserves without the cap and activates in the same step.
Schedule(a) ==
  /\ NextToken(a) /\ vault = "ready" /\ ~exiting /\ LoopFree /\ SlotFree
  /\ lock' = [holder |-> a, state |-> "active", stale |-> FALSE]
  /\ reservation' = NoReservation /\ active' = a
  /\ Publish([state |-> "reserved", run |-> a, stale |-> FALSE])
  /\ MoveTo(a, "readiness")
  /\ UNCHANGED <<cancelled, orphans, history, maintenance, callers>>

\* The owner is not "ready", the schedule is disabled, or the update of the
\* profile failed: what was reserved is released at once, or its release is lost.
ScheduleSkipped(a) ==
  /\ NextToken(a) /\ vault \in {"ready", "pending", "quiescing"} /\ ~exiting
  /\ LoopFree /\ SlotFree
  /\ reservation' = NoReservation /\ memStatus' = NoStatus
  /\ \/ lock' = Free /\ dbStatus' = NoStatus /\ NoFault
     \/ lock' = Free /\ UNCHANGED dbStatus /\ Fault
     \/ /\ lock' = [holder |-> a, state |-> "reserved", stale |-> FALSE]
        /\ dbStatus' = [state |-> "reserved", run |-> a, stale |-> FALSE]
        /\ Fault
  /\ MoveTo(a, "ended")
  /\ UNCHANGED <<receipt, active, cancelled, orphans, history, maintenance, callers>>

-----------------------------------------------------------------------------
(* register_task and release_task                                          *)

\* Fault: the release is not limited to the caller's token.
DbRelease_Unscoped(a) ==
  /\ lock' = Free
  /\ dbStatus' = IF dbStatus.state = "reserved" THEN NoStatus ELSE dbStatus

\* release_search_lock(token): lock and reserved status in one transaction.
DbRelease(a) ==
  IF lock.holder = a
  THEN /\ lock' = Free
       /\ dbStatus' = IF dbStatus.state = "reserved" /\ dbStatus.run = a
                      THEN NoStatus ELSE dbStatus
  ELSE UNCHANGED <<lock, dbStatus>>

\* release_task(profile_id, token) touches nothing of another token's reservation.
Owned(a) == reservation.run \in {a, None}

Unreserve(a) == reservation' = IF Owned(a) THEN NoReservation ELSE reservation

\* The rest of release_task, with the database error it swallows.
ReleaseRest(a) ==
  IF Owned(a)
  THEN /\ memStatus' = IF memStatus.state = "reserved" /\ memStatus.run = a
                       THEN NoStatus ELSE memStatus
       /\ \/ DbRelease(a) /\ NoFault
          \/ UNCHANGED <<lock, dbStatus>> /\ Fault
  ELSE UNCHANGED <<memStatus, lock, dbStatus, faults>>

Release(a) == Unreserve(a) /\ ReleaseRest(a) /\ UNCHANGED receipt

MayActivate(a) == reservation.run = a /\ TaskSlotFree /\ lock.holder = a

\* register_task up to the commit of activate_search_lock.
Activate(a) ==
  /\ phase[a] = "queued" /\ LoopFree /\ MayActivate(a)
  /\ lock' = [lock EXCEPT !.state = "active", !.stale = FALSE]
  /\ MoveTo(a, "activating")
  /\ UNCHANGED <<dbStatus, receipt, registry, cancelled, orphans, history, maintenance,
                 callers, faults>>

\* No matching reservation, token or slot; run_search releases and returns.
RefuseActivation(a) ==
  /\ phase[a] = "queued" /\ LoopFree /\ ~MayActivate(a)
  /\ Release(a)
  /\ MoveTo(a, "ended")
  /\ UNCHANGED <<active, cancelled, orphans, history, maintenance, callers>>

\* activate_search_lock raises; the release may find the database back.
ActivationFails(a) ==
  /\ phase[a] = "queued" /\ LoopFree /\ MayActivate(a) /\ Fault
  /\ reservation' = NoReservation
  /\ memStatus' = IF memStatus.state = "reserved" THEN NoStatus ELSE memStatus
  /\ DbRelease(a) \/ UNCHANGED <<lock, dbStatus>>
  /\ MoveTo(a, "ended")
  /\ UNCHANGED <<receipt, active, cancelled, orphans, history, maintenance, callers>>

\* The second critical section of register_task, and the re-check of the owner's
\* lifecycle that run_search makes before its first await.
Register(a) ==
  /\ phase[a] = "activating" /\ reservation.run = a
  /\ reservation' = NoReservation /\ active' = a
  /\ MoveTo(a, IF vault = "ready" THEN "readiness" ELSE "closing")
  /\ UNCHANGED <<durable, memStatus, cancelled, orphans, history, maintenance, callers,
                 faults>>

\* A poll dropped the stale reservation meanwhile: the activation is undone.
UndoActivation(a) ==
  /\ phase[a] = "activating" /\ reservation.run # a
  /\ Release(a)
  /\ MoveTo(a, "ended")
  /\ UNCHANGED <<active, cancelled, orphans, history, maintenance, callers>>

-----------------------------------------------------------------------------
(* run_search                                                              *)

Running(a, place) == phase[a] = place /\ a \notin cancelled /\ LoopFree

\* The model is ready: _run_pipeline resets the status before its first await.
StartPipeline(a) ==
  /\ Running(a, "readiness")
  /\ Publish([state |-> "running", run |-> a, stale |-> FALSE])
  /\ MoveTo(a, "pipeline")
  /\ UNCHANGED <<lock, reservation, active, cancelled, orphans, history, maintenance,
                 callers>>

ReadinessFails(a) ==
  /\ Running(a, "readiness")
  /\ Publish([state |-> "error", run |-> a, stale |-> FALSE])
  /\ MoveTo(a, "closing")
  /\ UNCHANGED <<lock, reservation, active, cancelled, orphans, history, maintenance,
                 callers>>

\* Progress counters, logs and the intermediate states.
Progress(a) ==
  /\ Running(a, "pipeline")
  /\ UpdateStatus("running")
  /\ UNCHANGED <<lock, reservation, active, phase, cancelled, orphans, history,
                 maintenance, callers>>

PipelineDone(a) ==
  /\ Running(a, "pipeline")
  /\ UpdateStatus("done")
  /\ completed' = completed \cup {a}
  /\ MoveTo(a, "closing")
  /\ UNCHANGED <<lock, reservation, active, cancelled, orphans, stopped, maintenance,
                 callers>>

\* The timeout cancels every child.  After an unexpected error of one child
\* asyncio.gather raises at once and its siblings go on: STOP_STATES, which
\* they poll, does not contain "error".
PipelineFails(a) ==
  /\ Running(a, "pipeline")
  /\ UpdateStatus("error")
  /\ orphans' \in {orphans, orphans \cup {a}}
  /\ MoveTo(a, "closing")
  /\ UNCHANGED <<lock, reservation, active, cancelled, history, maintenance, callers>>

\* CancelledError at the current await: no handler writes a status.
DeliverCancel(a) ==
  /\ phase[a] \in {"readiness", "pipeline"} /\ a \in cancelled /\ LoopFree
  /\ MoveTo(a, "closing")
  /\ cancelled' = cancelled \ {a}
  /\ UNCHANGED <<durable, registry, orphans, history, maintenance, callers, faults>>

\* Fault: the registry keeps the finished task.
Unregister_Nothing == UNCHANGED active /\ reservation' = NoReservation

\* unregister_task, which does not look at tokens.
Unregister == active' = None /\ reservation' = NoReservation

\* The finally block after the provider sessions are closed, or after closing
\* them was cancelled.
Finish(a) ==
  /\ phase[a] = "closing" /\ LoopFree
  /\ ReleaseRest(a) /\ Unregister
  /\ MoveTo(a, "ended")
  /\ cancelled' = cancelled \ {a}
  /\ UNCHANGED <<receipt, orphans, history, maintenance, callers>>

\* A child that outlived its run goes on reporting its counters.
OrphanReports(a) ==
  /\ a \in orphans /\ LoopFree
  /\ UpdateStatus(Known.state)
  /\ UNCHANGED <<lock, reservation, active, phase, cancelled, orphans, history,
                 maintenance, callers>>

OrphanEnds(a) ==
  /\ a \in orphans
  /\ orphans' = orphans \ {a}
  /\ UNCHANGED <<durable, registry, phase, cancelled, history, maintenance, callers,
                 faults>>

-----------------------------------------------------------------------------
(* Stop, shutdown, polls and time                                          *)

\* Fault: the reservation of a search that has not begun survives the stop.
CancelTask_ActiveOnly ==
  /\ UNCHANGED reservation
  /\ cancelled' = IF active # None THEN cancelled \cup {active} ELSE cancelled

\* cancel_task.
CancelTask ==
  /\ reservation' = NoReservation
  /\ cancelled' = IF active # None THEN cancelled \cup {active} ELSE cancelled

\* stop_search, authorised while the account was "ready".
Stop ==
  /\ LoopFree /\ vault \in {"ready", "quiescing", "draining"}
  /\ UpdateStatus("stopped")
  /\ CancelTask
  /\ stopped' = stopped \cup {a \in Attempts :
                   phase[a] \in {"queued", "readiness", "pipeline"}}
  /\ UNCHANGED <<lock, active, phase, orphans, completed, maintenance, callers>>

\* The lifespan cancels the active task and says so in its status.
Shutdown ==
  /\ LoopFree /\ ~exiting
  /\ exiting' = TRUE
  /\ IF active # None
     THEN cancelled' = cancelled \cup {active} /\ UpdateStatus("error")
     ELSE UNCHANGED <<cancelled, memStatus, dbStatus, receipt, faults>>
  /\ UNCHANGED <<lock, reservation, active, requests, phase, orphans, history,
                 maintenance, poll>>

\* A poll holds a reader permit, which nobody gets once a writer waits.
PollArrives ==
  /\ poll = "none" /\ vault \notin {"draining", "writing"}
  /\ poll' = "arrived"
  /\ UNCHANGED <<durable, registry, phase, cancelled, orphans, history, maintenance,
                 requests, exiting, faults>>

\* get_status in a worker thread: clean-up without the module lock, then the
\* persisted entry is read and, if it has expired, cleared in a later transaction.
Poll ==
  /\ poll = "arrived"
  /\ reservation' = CleanReservation /\ memStatus' = CleanStatus
  /\ poll' = IF Expired(dbStatus) THEN "clears" ELSE "none"
  /\ UNCHANGED <<durable, active, phase, cancelled, orphans, history, maintenance,
                 requests, exiting, faults>>

PollClears ==
  /\ poll = "clears"
  /\ dbStatus' = NoStatus /\ poll' = "none"
  /\ UNCHANGED <<lock, receipt, registry, phase, cancelled, orphans, history,
                 maintenance, requests, exiting, faults>>

Aged(s, states) == [s EXCEPT !.stale = @ \/ s.state \in states]

\* More than _RESERVATION_TTL_SECONDS pass.
ReservationsAge ==
  /\ reservation' = [reservation EXCEPT !.stale = reservation.run # None]
  /\ lock' = Aged(lock, {"reserved"})
  /\ dbStatus' = Aged(dbStatus, {"reserved"})
  /\ memStatus' = Aged(memStatus, {"reserved"})
  /\ UNCHANGED <<receipt, active, phase, cancelled, orphans, history, maintenance,
                 callers, faults>>

\* The wall clock passes the lock's TTL, which a suspended machine's does
\* although the run is not over; or the status retention time.
LockAges ==
  /\ lock' = Aged(lock, {"active"})
  /\ dbStatus' = Aged(dbStatus, TerminalStates)
  /\ memStatus' = Aged(memStatus, TerminalStates)
  /\ UNCHANGED <<receipt, reservation, active, phase, cancelled, orphans, history,
                 maintenance, callers, faults>>

-----------------------------------------------------------------------------
(* Vault maintenance, and the death of the process                         *)

\* A maintenance request: the pending state is committed and
\* cancel_and_clear_tasks cancels the running task.
Quiesce ==
  /\ vault \in {"ready", "pending"} /\ LoopFree /\ ~exiting
  /\ vault' = "quiescing"
  /\ joining' = active
  /\ CancelTask
  /\ UNCHANGED <<durable, memStatus, active, phase, orphans, history, callers, faults>>

\* Fault: the cancelled task is not joined.
Joined_AtOnce == TRUE

Joined == IF joining = None THEN TRUE ELSE phase[joining] = "ended"

\* release_task without a token, then clear_status; database errors are swallowed.
ClearTraces ==
  /\ reservation' = NoReservation /\ memStatus' = NoStatus
  /\ \/ lock' = Free /\ dbStatus' = NoStatus /\ NoFault
     \/ lock' \in {lock, Free} /\ dbStatus' \in {dbStatus, NoStatus} /\ Fault

QuiesceDone ==
  /\ vault = "quiescing" /\ LoopFree /\ Joined
  /\ vault' = "draining" /\ joining' = None
  /\ ClearTraces
  /\ UNCHANGED <<receipt, active, phase, cancelled, orphans, history, callers>>

\* Fault: the permits are taken for returned once the lock is.
Drained_ByLock == requests = 0 /\ poll = "none" /\ lock.holder = None

\* All reader permits are back.
Drained == requests = 0 /\ poll = "none" /\ \A a \in Attempts : ~Occupied(a)

\* The writer permit (VaultGate), and the second quiesce_user_vault_activity,
\* which finds no task to join.
EnterWriter ==
  /\ vault = "draining" /\ Drained
  /\ vault' = "writing"
  /\ ClearTraces
  /\ UNCHANGED <<receipt, active, phase, cancelled, orphans, history, joining, callers>>

\* The operation ends; the account stays pending when it did not complete.
LeaveWriter ==
  /\ vault = "writing"
  /\ vault' \in {"ready", "pending"}
  /\ UNCHANGED <<durable, registry, phase, cancelled, orphans, history, joining,
                 callers, faults>>

\* The sidecar dies or finishes shutting down, and is started again.
Restart ==
  /\ IF exiting /\ \A a \in Attempts : ~Alive(a) THEN NoFault ELSE Fault
  /\ memStatus' = NoStatus /\ reservation' = NoReservation /\ active' = None
  /\ requests' = 0
  /\ phase' = [a \in Attempts |-> IF phase[a] = "idle" THEN "idle" ELSE "ended"]
  /\ cancelled' = {} /\ orphans' = {}
  /\ vault' = IF vault = "ready" THEN "ready" ELSE "pending"
  /\ joining' = None /\ poll' = "none" /\ exiting' = FALSE
  /\ UNCHANGED <<durable, history>>

AttemptStep(a) ==
  \/ Start(a) \/ Schedule(a) \/ ScheduleSkipped(a)
  \/ Activate(a) \/ RefuseActivation(a) \/ ActivationFails(a)
  \/ Register(a) \/ UndoActivation(a)
  \/ StartPipeline(a) \/ ReadinessFails(a) \/ Progress(a) \/ PipelineDone(a)
  \/ PipelineFails(a) \/ DeliverCancel(a) \/ Finish(a)
  \/ OrphanReports(a) \/ OrphanEnds(a)

Next ==
  \/ \E a \in Attempts : AttemptStep(a)
  \/ Authorize \/ StartRefused
  \/ Stop \/ Shutdown \/ PollArrives \/ Poll \/ PollClears \/ ReservationsAge \/ LockAges
  \/ Quiesce \/ QuiesceDone \/ EnterWriter \/ LeaveWriter \/ Restart

Spec == Init /\ [][Next]_vars

(***************************************************************************)
(* The loop runs what is ready and the pipeline has its timeout; a client  *)
(* need not ask for anything, and time passes.                             *)
(***************************************************************************)
Fairness ==
  /\ \A a \in Attempts :
       /\ WF_vars(Activate(a) \/ RefuseActivation(a)) /\ WF_vars(Register(a) \/ UndoActivation(a))
       /\ WF_vars(StartPipeline(a) \/ ReadinessFails(a))
       /\ WF_vars(PipelineDone(a) \/ PipelineFails(a))
       /\ WF_vars(DeliverCancel(a)) /\ WF_vars(Finish(a))
  /\ WF_vars(StartRefused \/ \E a \in Attempts : Start(a))
  /\ WF_vars(Poll \/ PollClears) /\ WF_vars(QuiesceDone) /\ WF_vars(EnterWriter)
  /\ WF_vars(LockAges) /\ WF_vars(ReservationsAge)

FairSpec == Spec /\ Fairness

\* What the owner does, an assumption of SlotComesBack: a search shown as active
\* that nothing runs any more is stopped, and a pending maintenance is completed.
StopsDeadRun == SF_vars(CapReached /\ active = None /\ vault = "ready" /\ Stop)
CompletesMaintenance == []<>(vault = "ready")

-----------------------------------------------------------------------------
(* Properties                                                              *)

\* "a scheduled run cannot overlap with a manually-triggered run": at most one
\* attempt runs, although both lock TTLs may pass at any moment.
SingleRun ==
  \A a, b \in Attempts : Alive(a) /\ Alive(b) => a = b

\* "Release only the owned reservation": a late, refused or finished attempt
\* never releases or takes over the database lock of the one that runs.
RunOwnsLock ==
  \A a \in Attempts : phase[a] = "pipeline" =>
    lock.holder = a /\ lock.state = "active" /\ active = a

\* The registry names a task only while it lives, so that a finished run does
\* not block the profile.
RegistryExact ==
  active # None => Alive(active)

\* The run in progress, the task the registry names and the holder of the durable
\* lock are one and the same, through expired leases and late releases
\* (register_task, release_search_lock).
OneOwner == SingleRun /\ RunOwnsLock /\ RegistryExact

\* Once the user has been told that a search is stopped it neither runs on nor
\* begins, and it never completes or leaves a receipt.
StopIsFinal ==
  \A a \in stopped :
    /\ a \notin completed /\ receipt.run # a
    /\ phase[a] \notin {"idle", "activating"}
    /\ phase[a] \in {"readiness", "pipeline"} => a \in cancelled
    /\ phase[a] = "queued" => reservation.run # a

\* "search_run_count increases once for each distinct successful run": never for
\* a run that failed or was stopped, never twice, and a persisted "done" has its
\* receipt, whatever was persisted again, lost or cleared meanwhile.
ReceiptsExact ==
  /\ receipt.count <= Cardinality(completed)
  /\ receipt.run # None => receipt.run \in completed
  /\ dbStatus.state = "done" => receipt.run >= dbStatus.run

\* "Destructive maintenance cannot outlive the workers it is meant to quiesce":
\* after cancel_and_clear_tasks no search reaches its pipeline, not even one
\* whose request was authorised before and reserved meanwhile.
MaintenanceQuiesced ==
  vault \in {"draining", "writing"} =>
    \A a \in Attempts : phase[a] \notin {"readiness", "pipeline"}

\* A maintenance request is not held up by searches: it reaches its writer
\* section unless the process is restarted.
MaintenanceProceeds == vault = "quiescing" ~> vault \in {"writing", "pending"}

\* Whatever happened to the last run and its release, the profile can be searched
\* again: over and over, both the cap on active searches and the profile's slot
\* admit a start (start_search, reserve_task).  After a crash, or a write that was
\* lost, the cap does so only once the owner has stopped the run that is shown.
SlotComesBack ==
  StopsDeadRun /\ CompletesMaintenance => []<>(~CapReached /\ SlotFree)

\* "previously authorized work drains before any destructive snapshot is
\* changed": no search work of any kind is left in the writer section.
WorkDrained == vault = "writing" => orphans = {}
=============================================================================
