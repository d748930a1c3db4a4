------------------------- MODULE SearchTasksProofs -------------------------
(***************************************************************************)
(* For any number of reservations, requests and faults: one search of a    *)
(* profile runs at a time and holds the database lock, the registry names  *)
(* exactly the live task, a stopped search stays stopped, and no search    *)
(* works on once its profile was quiesced for maintenance.                 *)
(***************************************************************************)
EXTENDS SearchTasks, FiniteSetTheorems, TLAPS

(* The inductive invariant, one part per concern.                          *)

\* Each receipt stands for a later run than the one before.
CountInv == receipt.count <= receipt.run

\* The live task is the registered one and holds the lock it activated.
SlotInv ==
  /\ \A a \in Attempts : Alive(a) <=> active = a
  /\ \A a \in Attempts : phase[a] = "activating" => active = None
  /\ \A a \in Attempts : phase[a] \in {"activating", "readiness", "pipeline"} =>
       lock.holder = a /\ lock.state = "active"

\* Whoever still works was there before the maintenance and is being joined.
WorkInv ==
  \A a \in Attempts : phase[a] \in {"readiness", "pipeline"} =>
    vault = "ready" \/ (vault = "quiescing" /\ joining = a)

\* The status shown is the running pipeline's own, and a "done" one is true.
StatusInv ==
  /\ \A a \in Attempts : phase[a] = "pipeline" =>
       memStatus.run = a /\ memStatus.state # "reserved"
  /\ \A s \in {memStatus, dbStatus} : s.state = "done" => s.run \in completed
  /\ receipt.run # None => receipt.run \in completed
  /\ \A a \in completed : phase[a] \in {"closing", "ended"}

StopInv ==
  \A a \in stopped :
    /\ a \notin completed
    /\ phase[a] \notin {"idle", "activating"}
    /\ phase[a] \in {"readiness", "pipeline"} => a \in cancelled
    /\ phase[a] = "queued" => reservation.run # a

\* At most one increment for each completed run up to that of the last receipt.
Receipted == {a \in completed : a <= receipt.run}

ReceiptInv ==
  /\ receipt.count <= Cardinality(Receipted)
  /\ dbStatus.state = "done" => dbStatus.run <= receipt.run

IInv ==
  TypeOK /\ CountInv /\ SlotInv /\ WorkInv /\ StatusInv /\ StopInv /\ ReceiptInv

\* What writing a status may leave in the two stores.
StatusTyped ==
  /\ memStatus \in Statuses /\ dbStatus \in Statuses
  /\ receipt \in [run : Attempts \cup {None}, count : 0..MaxAttempts] /\ CountInv
  /\ faults \in 0..MaxFaults

-----------------------------------------------------------------------------
(* Types and counters                                                      *)

\* NoStatus and its copies are well-typed entries.
LEMMA NoStatusTyped == NoStatus \in Statuses
BY DEF NoStatus, Statuses, StatusStates

\* A well-typed snapshot leaves well-typed stores, whether it was saved or not.
LEMMA PublishTyped ==
  ASSUME TypeOK, CountInv, NEW s \in Statuses, Publish(s)
  PROVE  StatusTyped'
<1>1. receipt.run \in 0..MaxAttempts /\ receipt.count \in 0..MaxAttempts
      /\ s.run \in 0..MaxAttempts
  BY SearchAssumption DEF TypeOK, Attempts, None, Statuses
<1>2. ReceiptAfter(s) \in [run : Attempts \cup {None}, count : 0..MaxAttempts]
      /\ ReceiptAfter(s).count <= ReceiptAfter(s).run
  <2>1. CASE s.state = "done" /\ receipt.run < s.run
    <3>1. s.run \in Attempts \cup {None} /\ receipt.count + 1 \in 0..MaxAttempts
          /\ receipt.count + 1 <= s.run
      BY <1>1, <2>1, SearchAssumption DEF Statuses, CountInv
    <3> QED
      BY <2>1, <3>1 DEF ReceiptAfter
  <2>2. CASE ~(s.state = "done" /\ receipt.run < s.run)
    BY <2>2 DEF ReceiptAfter, TypeOK, CountInv
  <2> QED
    BY <2>1, <2>2
<1>3. faults' \in 0..MaxFaults
  BY SearchAssumption DEF TypeOK, Publish, Persist, NoFault, Fault
<1>4. CASE dbStatus' = s /\ receipt' = ReceiptAfter(s)
  BY <1>2, <1>3, <1>4 DEF Publish, StatusTyped, CountInv
<1>5. CASE UNCHANGED <<dbStatus, receipt>>
  BY <1>3, <1>5 DEF Publish, StatusTyped, CountInv, TypeOK
<1> QED
  BY <1>4, <1>5 DEF Publish, Persist

\* The same for update_status.
LEMMA UpdateTyped ==
  ASSUME TypeOK, CountInv, NEW state \in StatusStates, UpdateStatus(state)
  PROVE  StatusTyped'
<1> DEFINE s == [Known EXCEPT !.state = state,
                    !.stale = @ /\ {state, Known.state} \subseteq TerminalStates]
<1>1. Known \in Statuses
  BY NoStatusTyped DEF Known, TypeOK
<1>2. s \in Statuses
  BY <1>1 DEF Statuses
<1>3. CASE Known # NoStatus
  <2>1. Publish(s)
    BY <1>3 DEF UpdateStatus
  <2> QED
    BY <2>1, <1>2, PublishTyped
<1>4. CASE Known = NoStatus
  BY <1>4, NoStatusTyped DEF UpdateStatus, StatusTyped, TypeOK, CountInv, NoFault
<1> QED
  BY <1>3, <1>4

\* The empty values, and the fields of the well-typed ones.
LEMMA SmallTypes ==
  /\ Free \in Locks /\ NoReservation \in Reservations /\ None \notin Attempts
  /\ \A a \in Attempts, st \in {"reserved", "active"} :
       [holder |-> a, state |-> st, stale |-> FALSE] \in Locks
  /\ \A a \in Attempts : [run |-> a, stale |-> FALSE] \in Reservations
BY SearchAssumption DEF Free, Locks, NoReservation, Reservations, None, Attempts

\* A phase change is well typed.
LEMMA MoveTyped ==
  ASSUME TypeOK, NEW a \in Attempts, NEW place \in Phases, MoveTo(a, place)
  PROVE  phase' \in [Attempts -> Phases]
BY DEF MoveTo, TypeOK

\* Releasing the lock, in memory and in the database, keeps the types.
LEMMA ReleaseTyped ==
  ASSUME TypeOK, NEW a \in Attempts
  PROVE  /\ DbRelease(a) => lock' \in Locks /\ dbStatus' \in Statuses
         /\ Unreserve(a) => reservation' \in Reservations
         /\ ReleaseRest(a) => /\ lock' \in Locks /\ dbStatus' \in Statuses
                              /\ memStatus' \in Statuses /\ faults' \in 0..MaxFaults
<1>1. DbRelease(a) => lock' \in Locks /\ dbStatus' \in Statuses
  BY SmallTypes, NoStatusTyped DEF DbRelease, TypeOK
<1>2. Unreserve(a) => reservation' \in Reservations
  BY SmallTypes DEF Unreserve, TypeOK
<1>3. ReleaseRest(a) => faults' \in 0..MaxFaults
  BY SearchAssumption DEF ReleaseRest, NoFault, Fault, TypeOK
<1> QED
  BY <1>1, <1>2, <1>3, NoStatusTyped DEF ReleaseRest, TypeOK

\* Time changes no more than ages.
LEMMA AgedTyped ==
  ASSUME NEW states
  PROVE  /\ \A s \in Statuses : Aged(s, states) \in Statuses
         /\ \A l \in Locks : Aged(l, states) \in Locks
BY DEF Aged, Statuses, Locks

\* Every step keeps the types, and the receipts behind the runs.
LEMMA TypeStep ==
  ASSUME TypeOK, CountInv, [Next]_vars
  PROVE  TypeOK' /\ CountInv'
<1>. USE SearchAssumption DEF TypeOK, CountInv, durable, registry, history, maintenance, callers
<1>1. ASSUME NEW a \in Attempts, Start(a) PROVE TypeOK' /\ CountInv'
  <2>1. [state |-> "reserved", run |-> a, stale |-> FALSE] \in Statuses
    BY DEF Statuses, StatusStates
  <2>2. StatusTyped'
    BY <2>1, <1>1, PublishTyped DEF Start
  <2>3. requests' \in 0..MaxRequests
    BY <1>1 DEF Start
  <2>4. phase' \in [Attempts -> Phases]
    BY <1>1, MoveTyped DEF Start, Phases
  <2>5. lock' \in Locks /\ reservation' \in Reservations
    BY <1>1, SmallTypes DEF Start
  <2> QED
    BY <1>1, <2>2, <2>3, <2>4, <2>5 DEF StatusTyped, Start
<1>2. ASSUME NEW a \in Attempts, Schedule(a) PROVE TypeOK' /\ CountInv'
  <2>1. [state |-> "reserved", run |-> a, stale |-> FALSE] \in Statuses
    BY DEF Statuses, StatusStates
  <2>2. StatusTyped'
    BY <2>1, <1>2, PublishTyped DEF Schedule
  <2> QED
    BY <2>2, <1>2, MoveTyped, SmallTypes DEF StatusTyped, Schedule, Phases
<1>3. ASSUME NEW a \in Attempts, Activate(a) PROVE TypeOK' /\ CountInv'
  <2>1. lock.holder = a /\ lock' = [lock EXCEPT !.state = "active", !.stale = FALSE]
    BY <1>3 DEF Activate, MayActivate
  <2>5. [holder |-> a, state |-> "active", stale |-> FALSE] \in Locks
    BY SmallTypes
  <2>6. lock' \in Locks
    <3>1. lock' = [holder |-> a, state |-> "active", stale |-> FALSE]
      BY <2>1 DEF Locks
    <3> QED
      BY <3>1, <2>5
  <2>2. phase' \in [Attempts -> Phases]
    BY <1>3, MoveTyped DEF Activate, Phases
  <2>3. UNCHANGED <<dbStatus, receipt, memStatus, reservation, active>>
    BY <1>3 DEF Activate
  <2>4. UNCHANGED <<cancelled, orphans, history, maintenance, callers, faults>>
    BY <1>3 DEF Activate
  <2> QED
    BY <2>6, <2>2, <2>3, <2>4
<1>4. ASSUME NEW a \in Attempts, RefuseActivation(a) PROVE TypeOK' /\ CountInv'
  BY <1>4, SmallTypes, NoStatusTyped, MoveTyped, ReleaseTyped DEF RefuseActivation,
      Release, Phases
<1>5. ASSUME NEW a \in Attempts, ActivationFails(a) PROVE TypeOK' /\ CountInv'
  BY <1>5, SmallTypes, NoStatusTyped, MoveTyped, ReleaseTyped DEF ActivationFails,
      Fault, Phases
<1>6. ASSUME NEW a \in Attempts, Register(a) PROVE TypeOK' /\ CountInv'
  BY <1>6, SmallTypes, NoStatusTyped, MoveTyped DEF Register, Phases
<1>7. ASSUME NEW a \in Attempts, UndoActivation(a) PROVE TypeOK' /\ CountInv'
  BY <1>7, SmallTypes, NoStatusTyped, MoveTyped, ReleaseTyped DEF UndoActivation,
      Release, Phases
<1>8. ASSUME NEW a \in Attempts, StartPipeline(a) PROVE TypeOK' /\ CountInv'
  <2>1. [state |-> "running", run |-> a, stale |-> FALSE] \in Statuses
    BY DEF Statuses, StatusStates
  <2>2. StatusTyped'
    BY <2>1, <1>8, PublishTyped DEF StartPipeline
  <2> QED
    BY <2>2, <1>8, MoveTyped, SmallTypes DEF StatusTyped, StartPipeline, Phases
<1>9. ASSUME NEW a \in Attempts, ReadinessFails(a) PROVE TypeOK' /\ CountInv'
  <2>1. [state |-> "error", run |-> a, stale |-> FALSE] \in Statuses
    BY DEF Statuses, StatusStates
  <2>2. StatusTyped'
    BY <2>1, <1>9, PublishTyped DEF ReadinessFails
  <2> QED
    BY <2>2, <1>9, MoveTyped, SmallTypes DEF StatusTyped, ReadinessFails, Phases
<1>10. ASSUME NEW a \in Attempts, Progress(a) PROVE TypeOK' /\ CountInv'
  <2>1. StatusTyped'
    BY <1>10, UpdateTyped DEF Progress, StatusStates
  <2> QED
    BY <2>1, <1>10, MoveTyped, SmallTypes DEF StatusTyped, Progress, Phases
<1>11. ASSUME NEW a \in Attempts, PipelineDone(a) PROVE TypeOK' /\ CountInv'
  <2>1. StatusTyped'
    BY <1>11, UpdateTyped DEF PipelineDone, StatusStates
  <2> QED
    BY <2>1, <1>11, MoveTyped, SmallTypes DEF StatusTyped, PipelineDone, Phases
<1>12. ASSUME NEW a \in Attempts, PipelineFails(a) PROVE TypeOK' /\ CountInv'
  <2>1. StatusTyped'
    BY <1>12, UpdateTyped DEF PipelineFails, StatusStates
  <2> QED
    BY <2>1, <1>12, MoveTyped, SmallTypes DEF StatusTyped, PipelineFails, Phases
<1>13. ASSUME NEW a \in Attempts, DeliverCancel(a) PROVE TypeOK' /\ CountInv'
  BY <1>13, SmallTypes, NoStatusTyped, MoveTyped DEF DeliverCancel, Phases
<1>14. ASSUME NEW a \in Attempts, Finish(a) PROVE TypeOK' /\ CountInv'
  BY <1>14, SmallTypes, NoStatusTyped, MoveTyped, ReleaseTyped DEF Finish, Unregister,
      Phases
<1>15. ASSUME NEW a \in Attempts, OrphanReports(a) PROVE TypeOK' /\ CountInv'
  <2>1. Known.state \in StatusStates
    BY NoStatusTyped DEF Known, Statuses, StatusStates
  <2>2. StatusTyped'
    BY <2>1, <1>15, UpdateTyped DEF OrphanReports
  <2> QED
    BY <2>2, <1>15 DEF StatusTyped, OrphanReports
<1>16. ASSUME NEW a \in Attempts, OrphanEnds(a) PROVE TypeOK' /\ CountInv'
  BY <1>16, SmallTypes, NoStatusTyped DEF OrphanEnds
<1>17. CASE Authorize
  BY <1>17, SmallTypes, NoStatusTyped DEF Authorize
<1>18. CASE StartRefused
  BY <1>18, SmallTypes, NoStatusTyped DEF StartRefused, CleanReservation, CleanStatus,
      CleanPersisted
<1>19. ASSUME NEW a \in Attempts, ScheduleSkipped(a) PROVE TypeOK' /\ CountInv'
  <2>1. [state |-> "reserved", run |-> a, stale |-> FALSE] \in Statuses
    BY DEF Statuses, StatusStates
  <2>2. dbStatus' \in Statuses
    BY <1>19, <2>1, NoStatusTyped DEF ScheduleSkipped
  <2>3. phase' \in [Attempts -> Phases]
    BY <1>19, MoveTyped DEF ScheduleSkipped, Phases
  <2>4. lock' \in Locks /\ reservation' \in Reservations /\ memStatus' \in Statuses
    BY <1>19, SmallTypes, NoStatusTyped DEF ScheduleSkipped
  <2>5. faults' \in 0..MaxFaults
    BY <1>19 DEF ScheduleSkipped, Fault, NoFault
  <2> QED
    BY <1>19, <2>2, <2>3, <2>4, <2>5 DEF ScheduleSkipped
<1>20. CASE Stop
  <2>1. StatusTyped'
    BY <1>20, UpdateTyped DEF Stop, StatusStates
  <2> QED
    BY <2>1, <1>20, MoveTyped, SmallTypes DEF StatusTyped, Stop, CancelTask, Phases
<1>21. CASE Shutdown
  <2>1. StatusTyped'
    BY <1>21, UpdateTyped DEF Shutdown, StatusStates, StatusTyped
  <2> QED
    BY <2>1, <1>21 DEF StatusTyped, Shutdown
<1>22. CASE PollArrives
  BY <1>22, SmallTypes, NoStatusTyped DEF PollArrives
<1>23. CASE Poll
  BY <1>23, SmallTypes, NoStatusTyped DEF Poll, CleanReservation, CleanStatus
<1>24. CASE PollClears
  BY <1>24, SmallTypes, NoStatusTyped DEF PollClears
<1>25. CASE ReservationsAge
  BY <1>25, SmallTypes, NoStatusTyped, AgedTyped DEF ReservationsAge, Reservations
<1>26. CASE LockAges
  BY <1>26, SmallTypes, NoStatusTyped, AgedTyped DEF LockAges
<1>27. CASE Quiesce
  BY <1>27, SmallTypes, NoStatusTyped DEF Quiesce, CancelTask
<1>28. CASE QuiesceDone
  BY <1>28, SmallTypes, NoStatusTyped DEF QuiesceDone, ClearTraces, Fault, NoFault
<1>29. CASE EnterWriter
  BY <1>29, SmallTypes, NoStatusTyped DEF EnterWriter, ClearTraces, Fault, NoFault
<1>30. CASE LeaveWriter
  BY <1>30, SmallTypes, NoStatusTyped DEF LeaveWriter
<1>31. CASE Restart
  <2>1. faults' \in 0..MaxFaults
    BY <1>31 DEF Restart, NoFault, Fault
  <2>2. phase' \in [Attempts -> Phases]
    BY <1>31 DEF Restart, Phases
  <2>3. memStatus' \in Statuses /\ reservation' \in Reservations
        /\ active' \in Attempts \cup {None} /\ joining' \in Attempts \cup {None}
    BY <1>31, SmallTypes, NoStatusTyped DEF Restart
  <2>4. requests' \in 0..MaxRequests /\ cancelled' \subseteq Attempts
        /\ orphans' \subseteq Attempts
    BY <1>31 DEF Restart
  <2>5. vault' \in {"ready", "pending"} /\ poll' = "none" /\ exiting' = FALSE
        /\ UNCHANGED <<lock, dbStatus, receipt, stopped, completed>>
    BY <1>31 DEF Restart
  <2> QED
    BY <2>1, <2>2, <2>3, <2>4, <2>5
<1>32. CASE UNCHANGED vars
  BY <1>32 DEF vars
<1> QED
  BY <1>1, <1>2, <1>3, <1>4, <1>5, <1>6, <1>7, <1>8, <1>9, <1>10, <1>11, <1>12, <1>13,
      <1>14, <1>15, <1>16, <1>17, <1>18, <1>19, <1>20, <1>21, <1>22, <1>23, <1>24,
      <1>25, <1>26, <1>27, <1>28, <1>29, <1>30, <1>31, <1>32 DEF Next, AttemptStep

\* Every step keeps the slot to its one task, and work before the quiescence.
LEMMA SlotStep ==
  ASSUME TypeOK, SlotInv, WorkInv, [Next]_vars
  PROVE  SlotInv' /\ WorkInv'
<1>. USE SmallTypes DEF TypeOK, SlotInv, WorkInv, Alive, durable, registry, history, maintenance, callers
<1>1. ASSUME NEW a \in Attempts, Start(a) PROVE SlotInv' /\ WorkInv'
  BY <1>1 DEF Start, MoveTo, SlotFree, TaskSlotFree, NextToken, LoopFree
<1>2. ASSUME NEW a \in Attempts, Schedule(a) PROVE SlotInv' /\ WorkInv'
  BY <1>2 DEF Schedule, MoveTo, SlotFree, TaskSlotFree, NextToken, LoopFree
<1>3. ASSUME NEW a \in Attempts, Activate(a) PROVE SlotInv' /\ WorkInv'
  BY <1>3 DEF Activate, MoveTo, MayActivate, TaskSlotFree, LoopFree
<1>4. ASSUME NEW a \in Attempts, RefuseActivation(a) PROVE SlotInv' /\ WorkInv'
  BY <1>4 DEF RefuseActivation, MoveTo, Release, ReleaseRest, DbRelease, Free, LoopFree
<1>5. ASSUME NEW a \in Attempts, ActivationFails(a) PROVE SlotInv' /\ WorkInv'
  BY <1>5 DEF ActivationFails, MoveTo, DbRelease, Free, LoopFree, MayActivate, TaskSlotFree
<1>6. ASSUME NEW a \in Attempts, Register(a) PROVE SlotInv' /\ WorkInv'
  BY <1>6 DEF Register, MoveTo
<1>7. ASSUME NEW a \in Attempts, UndoActivation(a) PROVE SlotInv' /\ WorkInv'
  BY <1>7 DEF UndoActivation, MoveTo, Release, ReleaseRest, DbRelease, Free
<1>8. ASSUME NEW a \in Attempts, StartPipeline(a) PROVE SlotInv' /\ WorkInv'
  BY <1>8 DEF StartPipeline, MoveTo, Running
<1>9. ASSUME NEW a \in Attempts, ReadinessFails(a) PROVE SlotInv' /\ WorkInv'
  BY <1>9 DEF ReadinessFails, MoveTo, Running
<1>10. ASSUME NEW a \in Attempts, Progress(a) PROVE SlotInv' /\ WorkInv'
  BY <1>10 DEF Progress
<1>11. ASSUME NEW a \in Attempts, PipelineDone(a) PROVE SlotInv' /\ WorkInv'
  BY <1>11 DEF PipelineDone, MoveTo, Running
<1>12. ASSUME NEW a \in Attempts, PipelineFails(a) PROVE SlotInv' /\ WorkInv'
  BY <1>12 DEF PipelineFails, MoveTo, Running
<1>13. ASSUME NEW a \in Attempts, DeliverCancel(a) PROVE SlotInv' /\ WorkInv'
  BY <1>13 DEF DeliverCancel, MoveTo
<1>14. ASSUME NEW a \in Attempts, Finish(a) PROVE SlotInv' /\ WorkInv'
  BY <1>14 DEF Finish, MoveTo, Unregister, ReleaseRest, DbRelease, Free, LoopFree
<1>15. ASSUME NEW a \in Attempts, OrphanReports(a) PROVE SlotInv' /\ WorkInv'
  BY <1>15 DEF OrphanReports
<1>16. ASSUME NEW a \in Attempts, OrphanEnds(a) PROVE SlotInv' /\ WorkInv'
  BY <1>16 DEF OrphanEnds
<1>17. CASE Authorize
  BY <1>17 DEF Authorize
<1>18. CASE StartRefused
  BY <1>18 DEF StartRefused
<1>19. ASSUME NEW a \in Attempts, ScheduleSkipped(a) PROVE SlotInv' /\ WorkInv'
  BY <1>19 DEF ScheduleSkipped, MoveTo, NextToken, SlotFree, TaskSlotFree, LoopFree
<1>20. CASE Stop
  BY <1>20 DEF Stop
<1>21. CASE Shutdown
  BY <1>21 DEF Shutdown
<1>22. CASE PollArrives
  BY <1>22 DEF PollArrives
<1>23. CASE Poll
  BY <1>23 DEF Poll
<1>24. CASE PollClears
  BY <1>24 DEF PollClears
<1>25. CASE ReservationsAge
  BY <1>25 DEF ReservationsAge, Aged, Locks
<1>26. CASE LockAges
  BY <1>26 DEF LockAges, Aged, Locks
<1>27. CASE Quiesce
  BY <1>27 DEF Quiesce
<1>28. CASE QuiesceDone
  BY <1>28 DEF QuiesceDone, ClearTraces, Joined, LoopFree
<1>29. CASE EnterWriter
  BY <1>29 DEF EnterWriter, ClearTraces, Drained, Occupied
<1>30. CASE LeaveWriter
  BY <1>30 DEF LeaveWriter
<1>31. CASE Restart
  BY <1>31 DEF Restart
<1>32. CASE UNCHANGED vars
  BY <1>32 DEF vars
<1> QED
  BY <1>1, <1>2, <1>3, <1>4, <1>5, <1>6, <1>7, <1>8, <1>9, <1>10, <1>11, <1>12, <1>13,
      <1>14, <1>15, <1>16, <1>17, <1>18, <1>19, <1>20, <1>21, <1>22, <1>23, <1>24,
      <1>25, <1>26, <1>27, <1>28, <1>29, <1>30, <1>31, <1>32 DEF Next, AttemptStep

\* What update_status writes: the entry it knew, with the new state.
LEMMA UpdateEffect ==
  ASSUME TypeOK, NEW state \in StatusStates, UpdateStatus(state)
  PROVE  /\ memStatus # NoStatus =>
              memStatus'.run = memStatus.run /\ memStatus'.state = state
         /\ memStatus' = memStatus \/ memStatus'.state = state
         /\ dbStatus' \in {dbStatus, memStatus', NoStatus}
         /\ receipt' # receipt => state = "done" /\ memStatus'.state = "done"
         /\ receipt' # receipt => receipt'.run = memStatus'.run
         /\ memStatus' = memStatus \/ memStatus'.run \in {memStatus.run, dbStatus.run}
<1> DEFINE s == [Known EXCEPT !.state = state,
                    !.stale = @ /\ {state, Known.state} \subseteq TerminalStates]
<1>1. Known \in Statuses
  BY NoStatusTyped DEF Known, TypeOK
<1>2. s.run = Known.run /\ s.state = state
  BY <1>1 DEF Statuses
<1>3. CASE Known # NoStatus
  <2>1. memStatus' = s /\ (dbStatus' = dbStatus \/ dbStatus' = s)
        /\ (receipt' = receipt \/ (state = "done" /\ receipt'.run = s.run))
    BY <1>2, <1>3 DEF UpdateStatus, Publish, Persist, ReceiptAfter
  <2>2. Known.run \in {memStatus.run, dbStatus.run}
        /\ (memStatus # NoStatus => Known = memStatus)
    BY <1>3 DEF Known
  <2>3. memStatus'.run = Known.run /\ memStatus'.state = state
    BY <1>2, <2>1
  <2> HIDE DEF s
  <2> QED
    BY <1>2, <2>1, <2>2, <2>3
<1>4. CASE Known = NoStatus
  <2>1. memStatus = NoStatus
    BY <1>4 DEF Known
  <2>2. memStatus' = memStatus /\ receipt' = receipt /\ dbStatus' \in {dbStatus, NoStatus}
    BY <1>4 DEF UpdateStatus
  <2> QED
    BY <2>1, <2>2
<1> QED
  BY <1>3, <1>4

\* Every step keeps the statuses and receipts true.
LEMMA StatusStep ==
  ASSUME TypeOK, SlotInv, WorkInv, StatusInv, [Next]_vars
  PROVE  StatusInv'
<1>. USE SmallTypes DEF TypeOK, SlotInv, WorkInv, StatusInv, Alive, NoStatus, durable, registry, history,
         maintenance, callers
<1>1. ASSUME NEW a \in Attempts, Start(a) PROVE StatusInv'
  BY <1>1 DEF Start, MoveTo, SlotFree, TaskSlotFree, NextToken, LoopFree, Publish,
      Persist, ReceiptAfter
<1>2. ASSUME NEW a \in Attempts, Schedule(a) PROVE StatusInv'
  BY <1>2 DEF Schedule, MoveTo, SlotFree, TaskSlotFree, NextToken, LoopFree, Publish,
      Persist, ReceiptAfter
<1>3. ASSUME NEW a \in Attempts, Activate(a) PROVE StatusInv'
  BY <1>3 DEF Activate, MoveTo, MayActivate, TaskSlotFree, LoopFree
<1>4. ASSUME NEW a \in Attempts, RefuseActivation(a) PROVE StatusInv'
  BY <1>4 DEF RefuseActivation, MoveTo, Release, ReleaseRest, DbRelease
<1>5. ASSUME NEW a \in Attempts, ActivationFails(a) PROVE StatusInv'
  BY <1>5 DEF ActivationFails, MoveTo, DbRelease
<1>6. ASSUME NEW a \in Attempts, Register(a) PROVE StatusInv'
  BY <1>6 DEF Register, MoveTo
<1>7. ASSUME NEW a \in Attempts, UndoActivation(a) PROVE StatusInv'
  BY <1>7 DEF UndoActivation, MoveTo, Release, ReleaseRest, DbRelease
<1>8. ASSUME NEW a \in Attempts, StartPipeline(a) PROVE StatusInv'
  BY <1>8 DEF StartPipeline, MoveTo, Running, Publish, Persist, ReceiptAfter
<1>9. ASSUME NEW a \in Attempts, ReadinessFails(a) PROVE StatusInv'
  BY <1>9 DEF ReadinessFails, MoveTo, Running, Publish, Persist, ReceiptAfter
<1>10. ASSUME NEW a \in Attempts, Progress(a) PROVE StatusInv'
  <2>1. UpdateStatus("running")
    BY <1>10 DEF Progress
  <2> QED
    BY <1>10, <2>1, UpdateEffect DEF Progress, StatusStates, Running
<1>11. ASSUME NEW a \in Attempts, PipelineDone(a) PROVE StatusInv'
  <2>1. UpdateStatus("done")
    BY <1>11 DEF PipelineDone
  <2> QED
    BY <1>11, <2>1, UpdateEffect DEF PipelineDone, StatusStates, Running, MoveTo
<1>12. ASSUME NEW a \in Attempts, PipelineFails(a) PROVE StatusInv'
  <2>1. UpdateStatus("error")
    BY <1>12 DEF PipelineFails
  <2> QED
    BY <1>12, <2>1, UpdateEffect DEF PipelineFails, StatusStates, Running, MoveTo
<1>13. ASSUME NEW a \in Attempts, DeliverCancel(a) PROVE StatusInv'
  BY <1>13 DEF DeliverCancel, MoveTo
<1>14. ASSUME NEW a \in Attempts, Finish(a) PROVE StatusInv'
  BY <1>14 DEF Finish, MoveTo, ReleaseRest, DbRelease
<1>15. ASSUME NEW a \in Attempts, OrphanReports(a) PROVE StatusInv'
  <2>1. Known.state \in StatusStates
    BY NoStatusTyped DEF Known, Statuses
  <2>2. UpdateStatus(Known.state)
    BY <1>15 DEF OrphanReports
  <2>3. Known.state = "done" => Known.run \in completed
    BY DEF Known
  <2>4. memStatus # NoStatus => Known = memStatus
    BY DEF Known
  <2>5. memStatus'.state = "done" => memStatus'.run = Known.run \/ memStatus' = memStatus
    <3>1. CASE Known = NoStatus
      BY <2>2, <3>1 DEF UpdateStatus
    <3>2. CASE Known # NoStatus
      <4> DEFINE s == [Known EXCEPT !.state = Known.state,
                         !.stale = @ /\ {Known.state, Known.state} \subseteq TerminalStates]
      <4>1. memStatus' = s
        BY <2>2, <3>2 DEF UpdateStatus, Publish
      <4>2. Known \in Statuses
        BY NoStatusTyped DEF Known
      <4>3. s.run = Known.run
        BY <4>2 DEF Statuses
      <4> QED  BY <4>1, <4>3
    <3> QED  BY <3>1, <3>2
  <2>6. memStatus'.state = "done" => memStatus'.run \in completed
    BY <2>1, <2>2, <2>3, <2>5, UpdateEffect
  <2>7. UNCHANGED <<phase, completed>>
    BY <1>15 DEF OrphanReports
  <2>8. memStatus # NoStatus =>
          memStatus'.run = memStatus.run /\ memStatus'.state = memStatus.state
    BY <2>1, <2>2, <2>4, UpdateEffect
  <2> QED
    BY <2>1, <2>2, <2>6, <2>7, <2>8, UpdateEffect
<1>16. ASSUME NEW a \in Attempts, OrphanEnds(a) PROVE StatusInv'
  BY <1>16 DEF OrphanEnds
<1>17. CASE Authorize
  BY <1>17 DEF Authorize
<1>18. CASE StartRefused
  BY <1>18 DEF StartRefused, CleanStatus, CleanPersisted
<1>19. ASSUME NEW a \in Attempts, ScheduleSkipped(a) PROVE StatusInv'
  BY <1>19 DEF ScheduleSkipped, MoveTo, NextToken, SlotFree, TaskSlotFree, LoopFree
<1>20. CASE Stop
  <2>1. UpdateStatus("stopped")
    BY <1>20 DEF Stop
  <2> QED
    BY <1>20, <2>1, UpdateEffect DEF Stop, StatusStates
<1>21. CASE Shutdown
  <2>1. active # None => UpdateStatus("error")
    BY <1>21 DEF Shutdown
  <2> QED
    BY <1>21, <2>1, UpdateEffect DEF Shutdown, StatusStates
<1>22. CASE PollArrives
  BY <1>22 DEF PollArrives
<1>23. CASE Poll
  BY <1>23 DEF Poll, CleanStatus
<1>24. CASE PollClears
  BY <1>24 DEF PollClears
<1>25. CASE ReservationsAge
  BY <1>25 DEF ReservationsAge, Aged, Statuses
<1>26. CASE LockAges
  BY <1>26 DEF LockAges, Aged, Statuses
<1>27. CASE Quiesce
  BY <1>27 DEF Quiesce
<1>28. CASE QuiesceDone
  BY <1>28 DEF QuiesceDone, ClearTraces, Joined
<1>29. CASE EnterWriter
  BY <1>29 DEF EnterWriter, ClearTraces, NoReservation, Drained, Occupied
<1>30. CASE LeaveWriter
  BY <1>30 DEF LeaveWriter
<1>31. CASE Restart
  BY <1>31 DEF Restart
<1>32. CASE UNCHANGED vars
  BY <1>32 DEF vars
<1> QED
  BY <1>1, <1>2, <1>3, <1>4, <1>5, <1>6, <1>7, <1>8, <1>9, <1>10, <1>11, <1>12, <1>13,
      <1>14, <1>15, <1>16, <1>17, <1>18, <1>19, <1>20, <1>21, <1>22, <1>23, <1>24,
      <1>25, <1>26, <1>27, <1>28, <1>29, <1>30, <1>31, <1>32 DEF Next, AttemptStep

\* Every step keeps stopped searches stopped.
LEMMA StopStep ==
  ASSUME TypeOK, SlotInv, StatusInv, StopInv, [Next]_vars
  PROVE  StopInv'
<1>. USE SmallTypes DEF TypeOK, SlotInv, StatusInv, StopInv, Alive, durable, registry, history, maintenance, callers
<1>1. ASSUME NEW a \in Attempts, Start(a) PROVE StopInv'
  BY <1>1 DEF Start, MoveTo, SlotFree, TaskSlotFree, NextToken, LoopFree, NoReservation
<1>2. ASSUME NEW a \in Attempts, Schedule(a) PROVE StopInv'
  BY <1>2 DEF Schedule, MoveTo, SlotFree, TaskSlotFree, NextToken, LoopFree, NoReservation
<1>3. ASSUME NEW a \in Attempts, Activate(a) PROVE StopInv'
  BY <1>3 DEF Activate, MoveTo, MayActivate
<1>4. ASSUME NEW a \in Attempts, RefuseActivation(a) PROVE StopInv'
  BY <1>4 DEF RefuseActivation, MoveTo, Release, Unreserve, NoReservation
<1>5. ASSUME NEW a \in Attempts, ActivationFails(a) PROVE StopInv'
  BY <1>5 DEF ActivationFails, MoveTo, NoReservation
<1>6. ASSUME NEW a \in Attempts, Register(a) PROVE StopInv'
  BY <1>6 DEF Register, MoveTo, NoReservation
<1>7. ASSUME NEW a \in Attempts, UndoActivation(a) PROVE StopInv'
  BY <1>7 DEF UndoActivation, MoveTo, Release, Unreserve, NoReservation
<1>8. ASSUME NEW a \in Attempts, StartPipeline(a) PROVE StopInv'
  BY <1>8 DEF StartPipeline, MoveTo, Running
<1>9. ASSUME NEW a \in Attempts, ReadinessFails(a) PROVE StopInv'
  BY <1>9 DEF ReadinessFails, MoveTo, Running
<1>10. ASSUME NEW a \in Attempts, Progress(a) PROVE StopInv'
  BY <1>10 DEF Progress
<1>11. ASSUME NEW a \in Attempts, PipelineDone(a) PROVE StopInv'
  BY <1>11 DEF PipelineDone, MoveTo, Running
<1>12. ASSUME NEW a \in Attempts, PipelineFails(a) PROVE StopInv'
  BY <1>12 DEF PipelineFails, MoveTo, Running
<1>13. ASSUME NEW a \in Attempts, DeliverCancel(a) PROVE StopInv'
  BY <1>13 DEF DeliverCancel, MoveTo
<1>14. ASSUME NEW a \in Attempts, Finish(a) PROVE StopInv'
  BY <1>14 DEF Finish, MoveTo, Unregister, NoReservation
<1>15. ASSUME NEW a \in Attempts, OrphanReports(a) PROVE StopInv'
  BY <1>15 DEF OrphanReports
<1>16. ASSUME NEW a \in Attempts, OrphanEnds(a) PROVE StopInv'
  BY <1>16 DEF OrphanEnds
<1>17. CASE Authorize
  BY <1>17 DEF Authorize
<1>18. CASE StartRefused
  BY <1>18 DEF StartRefused, CleanReservation, NoReservation
<1>19. ASSUME NEW a \in Attempts, ScheduleSkipped(a) PROVE StopInv'
  BY <1>19 DEF ScheduleSkipped, MoveTo, NextToken, NoReservation
<1>20. CASE Stop
  BY <1>20 DEF Stop, CancelTask, NoReservation, LoopFree
<1>21. CASE Shutdown
  BY <1>21 DEF Shutdown
<1>22. CASE PollArrives
  BY <1>22 DEF PollArrives
<1>23. CASE Poll
  BY <1>23 DEF Poll, CleanReservation, NoReservation
<1>24. CASE PollClears
  BY <1>24 DEF PollClears
<1>25. CASE ReservationsAge
  BY <1>25 DEF ReservationsAge, Reservations
<1>26. CASE LockAges
  BY <1>26 DEF LockAges
<1>27. CASE Quiesce
  BY <1>27 DEF Quiesce, CancelTask, NoReservation
<1>28. CASE QuiesceDone
  BY <1>28 DEF QuiesceDone, ClearTraces, NoReservation
<1>29. CASE EnterWriter
  BY <1>29 DEF EnterWriter, ClearTraces, NoReservation, Drained, Occupied
<1>30. CASE LeaveWriter
  BY <1>30 DEF LeaveWriter
<1>31. CASE Restart
  BY <1>31 DEF Restart
<1>32. CASE UNCHANGED vars
  BY <1>32 DEF vars
<1> QED
  BY <1>1, <1>2, <1>3, <1>4, <1>5, <1>6, <1>7, <1>8, <1>9, <1>10, <1>11, <1>12, <1>13,
      <1>14, <1>15, <1>16, <1>17, <1>18, <1>19, <1>20, <1>21, <1>22, <1>23, <1>24,
      <1>25, <1>26, <1>27, <1>28, <1>29, <1>30, <1>31, <1>32 DEF Next, AttemptStep

-----------------------------------------------------------------------------
(* Receipts                                                                *)

\* What a step may do to the receipt and the persisted status: a new receipt is
\* that of a later, completed run, and a persisted "done" has its receipt.
ReceiptMoves ==
  /\ completed \subseteq completed'
  /\ dbStatus'.state = "done" => dbStatus'.run <= receipt'.run
  /\ \/ receipt' = receipt
     \/ /\ receipt.run < receipt'.run /\ receipt'.run \in completed'
        /\ receipt'.count = receipt.count + 1

\* Such a step counts at most one more run, and that run is a new one.
LEMMA ReceiptsFollow ==
  ASSUME TypeOK, TypeOK', ReceiptInv, ReceiptMoves
  PROVE  ReceiptInv'
<1>1. IsFiniteSet(completed') /\ IsFiniteSet(Receipted) /\ IsFiniteSet(Receipted')
  <2>1. IsFiniteSet(Attempts)
    BY FS_Interval, SearchAssumption DEF Attempts
  <2> QED
    BY <2>1, FS_Subset DEF TypeOK, Receipted
<1>2. receipt.run \in Nat /\ receipt'.run \in Nat /\ receipt.count \in Nat
      /\ receipt'.count \in Nat /\ Attempts \subseteq Nat
  BY SearchAssumption DEF TypeOK, Attempts, None
<1>3. Cardinality(Receipted) \in Nat /\ Cardinality(Receipted') \in Nat
  BY <1>1, FS_CardinalityType
<1>4. CASE receipt' = receipt
  <2>1. Receipted \subseteq Receipted'
    BY <1>4 DEF ReceiptMoves, Receipted
  <2>2. Cardinality(Receipted) <= Cardinality(Receipted')
    BY <1>1, <2>1, FS_Subset
  <2> QED
    BY <1>2, <1>3, <1>4, <2>2 DEF ReceiptInv, ReceiptMoves
<1>5. CASE receipt.run < receipt'.run /\ receipt'.run \in completed'
           /\ receipt'.count = receipt.count + 1
  <2> DEFINE r == receipt'.run
  <2>1. r \notin Receipted
    BY <1>2, <1>5 DEF Receipted
  <2>2. Receipted \cup {r} \subseteq Receipted'
    <3>1. ASSUME NEW a \in Receipted PROVE a \in Receipted'
      <4>1. a \in completed' /\ a \in Nat /\ a <= receipt.run
        BY <1>2 DEF Receipted, ReceiptMoves, TypeOK
      <4> QED
        BY <1>2, <1>5, <4>1 DEF Receipted
    <3> QED
      BY <1>2, <1>5, <3>1 DEF Receipted
  <2>3. Cardinality(Receipted \cup {r}) = Cardinality(Receipted) + 1
    BY <1>1, <2>1, FS_AddElement
  <2>4. Cardinality(Receipted \cup {r}) <= Cardinality(Receipted')
    BY <1>1, <2>2, FS_Subset
  <2> QED
    BY <1>2, <1>3, <1>5, <2>3, <2>4 DEF ReceiptInv, ReceiptMoves
<1> QED
  BY <1>4, <1>5 DEF ReceiptMoves

\* Saving a snapshot, or losing it, moves the receipt as described.
LEMMA PersistMoves ==
  ASSUME TypeOK, ReceiptInv, completed \subseteq completed', NEW s \in Statuses,
         Persist(s), s.state = "done" => s.run \in completed'
  PROVE  ReceiptMoves
<1>1. receipt.run \in Nat /\ receipt.count \in Nat /\ s.run \in Nat
  BY SearchAssumption DEF TypeOK, Attempts, None, Statuses
<1>2. CASE dbStatus' = s /\ receipt' = ReceiptAfter(s)
  BY <1>1, <1>2 DEF ReceiptAfter, ReceiptMoves
<1>3. CASE UNCHANGED <<dbStatus, receipt>>
  BY <1>3 DEF ReceiptInv, ReceiptMoves
<1> QED
  BY <1>2, <1>3 DEF Persist

\* The same for update_status.
LEMMA UpdateMoves ==
  ASSUME TypeOK, ReceiptInv, completed \subseteq completed', NEW state \in StatusStates,
         UpdateStatus(state), Known # NoStatus /\ state = "done" => Known.run \in completed'
  PROVE  ReceiptMoves
<1> DEFINE s == [Known EXCEPT !.state = state,
                    !.stale = @ /\ {state, Known.state} \subseteq TerminalStates]
<1>1. Known \in Statuses
  BY NoStatusTyped DEF Known, TypeOK
<1>2. s \in Statuses /\ s.run = Known.run /\ s.state = state
  BY <1>1 DEF Statuses
<1>3. CASE Known # NoStatus
  <2>1. Persist(s)
    BY <1>3 DEF UpdateStatus, Publish
  <2> HIDE DEF s
  <2> QED
    BY <1>2, <1>3, <2>1, PersistMoves
<1>4. CASE Known = NoStatus
  BY <1>4 DEF UpdateStatus, ReceiptInv, ReceiptMoves, NoStatus
<1> QED
  BY <1>3, <1>4

\* A step that writes no status: the persisted one is what it was, or gone.
LEMMA QuietMoves ==
  ASSUME ReceiptInv, receipt' = receipt, completed' = completed,
         \/ dbStatus' \in {dbStatus, NoStatus} \/ dbStatus'.state # "done"
         \/ dbStatus'.state = dbStatus.state /\ dbStatus'.run = dbStatus.run
  PROVE  ReceiptMoves
BY DEF ReceiptInv, ReceiptMoves, NoStatus

\* Every step moves the receipt as described.
LEMMA NextMoves ==
  ASSUME TypeOK, SlotInv, StatusInv, ReceiptInv, [Next]_vars
  PROVE  ReceiptMoves
<1>. USE DEF durable, registry, history, maintenance, callers
<1>1. ASSUME NEW a \in Attempts, NEW st \in {"reserved", "running", "error"},
             Persist([state |-> st, run |-> a, stale |-> FALSE]), completed' = completed
      PROVE  ReceiptMoves
  <2> DEFINE s == [state |-> st, run |-> a, stale |-> FALSE]
  <2>1. s \in Statuses /\ s.state # "done"
    BY DEF Statuses, StatusStates
  <2> HIDE DEF s
  <2>2. Persist(s)
    BY <1>1 DEF s
  <2> QED
    BY <1>1, <2>1, <2>2, PersistMoves
<1>2. ASSUME NEW a \in Attempts, Start(a) \/ Schedule(a) PROVE ReceiptMoves
  BY <1>1, <1>2 DEF Start, Schedule, Publish
<1>3. ASSUME NEW a \in Attempts, StartPipeline(a) \/ ReadinessFails(a) PROVE ReceiptMoves
  BY <1>1, <1>3 DEF StartPipeline, ReadinessFails, Publish
<1>4. ASSUME NEW a \in Attempts, ScheduleSkipped(a) PROVE ReceiptMoves
  BY <1>4, QuietMoves DEF ScheduleSkipped
<1>5. ASSUME NEW a \in Attempts, Activate(a) \/ Register(a) \/ DeliverCancel(a) \/ OrphanEnds(a)
      PROVE  ReceiptMoves
  BY <1>5, QuietMoves DEF Activate, Register, DeliverCancel, OrphanEnds
<1>6. ASSUME NEW a \in Attempts,
             RefuseActivation(a) \/ ActivationFails(a) \/ UndoActivation(a) \/ Finish(a)
      PROVE  ReceiptMoves
  <2>1. receipt' = receipt /\ completed' = completed /\ dbStatus' \in {dbStatus, NoStatus}
    BY <1>6 DEF RefuseActivation, ActivationFails, UndoActivation, Finish, Release,
       ReleaseRest, DbRelease
  <2> QED
    BY <2>1, QuietMoves
<1>7. ASSUME NEW state \in StatusStates \ {"done"}, UpdateStatus(state), completed' = completed
      PROVE  ReceiptMoves
  BY <1>7, UpdateMoves
<1>8. ASSUME NEW a \in Attempts, Progress(a) \/ PipelineFails(a) PROVE ReceiptMoves
  BY <1>7, <1>8 DEF Progress, PipelineFails, StatusStates
<1>9. ASSUME NEW a \in Attempts, PipelineDone(a) PROVE ReceiptMoves
  <2>1. UpdateStatus("done") /\ completed' = completed \cup {a}
    BY <1>9 DEF PipelineDone
  <2>2. Known # NoStatus => Known.run = a
    BY <1>9, SmallTypes DEF PipelineDone, Running, StatusInv, Known, NoStatus
  <2> QED
    BY <2>1, <2>2, UpdateMoves DEF StatusStates
<1>10. ASSUME NEW a \in Attempts, OrphanReports(a) PROVE ReceiptMoves
  <2>1. UpdateStatus(Known.state) /\ completed' = completed
    BY <1>10 DEF OrphanReports
  <2>2. Known.state \in StatusStates
    BY NoStatusTyped DEF Known, TypeOK, Statuses
  <2>3. Known.state = "done" => Known.run \in completed
    BY DEF Known, StatusInv, NoStatus
  <2> QED
    BY <2>1, <2>2, <2>3, UpdateMoves
<1>11. CASE Stop
  BY <1>7, <1>11 DEF Stop, StatusStates
<1>12. CASE Shutdown
  <2>1. completed' = completed
    BY <1>12 DEF Shutdown
  <2>2. UpdateStatus("error") \/ UNCHANGED <<dbStatus, receipt>>
    BY <1>12 DEF Shutdown
  <2> QED
    BY <1>7, <2>1, <2>2, QuietMoves DEF StatusStates
<1>13. CASE Authorize \/ StartRefused \/ PollArrives \/ Poll \/ PollClears
  BY <1>13, QuietMoves DEF Authorize, StartRefused, PollArrives, Poll, PollClears,
     CleanPersisted
<1>14. CASE ReservationsAge \/ LockAges
  <2>1. receipt' = receipt /\ completed' = completed
        /\ dbStatus'.state = dbStatus.state /\ dbStatus'.run = dbStatus.run
    BY <1>14 DEF ReservationsAge, LockAges, Aged, TypeOK, Statuses
  <2> QED
    BY <2>1, QuietMoves
<1>15. CASE Quiesce \/ QuiesceDone \/ EnterWriter \/ LeaveWriter \/ Restart
  BY <1>15, QuietMoves DEF Quiesce, QuiesceDone, EnterWriter, LeaveWriter, Restart,
     ClearTraces
<1>16. CASE UNCHANGED vars
  BY <1>16, QuietMoves DEF vars
<1> QED
  BY <1>2, <1>3, <1>4, <1>5, <1>6, <1>8, <1>9, <1>10, <1>11, <1>12, <1>13, <1>14, <1>15,
     <1>16 DEF Next, AttemptStep

-----------------------------------------------------------------------------
(* The theorems                                                            *)

\* Nothing runs, nothing is stored.
LEMMA InitEstablishes == Init => IInv
<1> SUFFICES ASSUME Init PROVE IInv
  OBVIOUS
<1>1. receipt \in [run : Attempts \cup {None}, count : 0..MaxAttempts]
  BY SearchAssumption DEF Init
<1>2. requests \in 0..MaxRequests /\ faults \in 0..MaxFaults
  BY SearchAssumption DEF Init
<1>3. phase \in [Attempts -> Phases]
  BY DEF Init, Phases
<1>4. TypeOK
  BY <1>1, <1>2, <1>3, SmallTypes, NoStatusTyped DEF Init, TypeOK
<1>5. CountInv
  BY DEF Init, CountInv, None
<1>6. SlotInv /\ WorkInv
  BY SmallTypes DEF Init, SlotInv, WorkInv, Alive
<1>7. StatusInv /\ StopInv
  BY DEF Init, StatusInv, StopInv, NoStatus
<1>8. ReceiptInv
  <2>1. Receipted = {} /\ receipt.count = 0 /\ dbStatus.state # "done"
    BY DEF Init, Receipted, NoStatus
  <2>2. Cardinality(Receipted) = 0
    BY <2>1, FS_EmptySet
  <2> QED
    BY <2>1, <2>2 DEF ReceiptInv
<1> QED
  BY <1>4, <1>5, <1>6, <1>7, <1>8 DEF IInv

\* Every step of Next, and every stutter, preserves the inductive invariant.
LEMMA StepPreserves == IInv /\ [Next]_vars => IInv'
BY TypeStep, SlotStep, StatusStep, StopStep, NextMoves, ReceiptsFollow DEF IInv

\* The inductive invariant holds in every behaviour.
LEMMA InvariantHolds == Spec => []IInv
BY InitEstablishes, StepPreserves, PTL DEF Spec

\* The registries, stores and counters keep their types, and a lock has a holder
\* exactly when it is not free (search_status.py, profile_repository.py).
THEOREM SearchTypeCorrect == Spec => []TypeOK
BY InvariantHolds, PTL DEF IInv

\* A scheduled run never overlaps with a manually triggered one, for any number of
\* reservations and with both TTLs passing at any time (register_task).
THEOREM OneSearchAtATime == Spec => []SingleRun
<1>1. IInv => SingleRun
  BY SmallTypes DEF IInv, SlotInv, SingleRun
<1> QED
  BY <1>1, InvariantHolds, PTL

\* The running pipeline is registered and holds the active database lock, whatever
\* late, refused or finished attempts release (release_task).
THEOREM RunningSearchOwnsLock == Spec => []RunOwnsLock
<1>1. IInv => RunOwnsLock
  BY DEF IInv, SlotInv, RunOwnsLock, Alive
<1> QED
  BY <1>1, InvariantHolds, PTL

\* The registry of running tasks never names a finished one (unregister_task).
THEOREM RegistryIsExact == Spec => []RegistryExact
<1>1. IInv => RegistryExact
  BY DEF IInv, TypeOK, SlotInv, RegistryExact
<1> QED
  BY <1>1, InvariantHolds, PTL

\* One attempt owns the profile: it alone runs, holds lock and slot, and the registry
\* knows no other (register_task, release_task, unregister_task).
THEOREM OneOwnerAlways == Spec => []OneOwner
BY OneSearchAtATime, RunningSearchOwnsLock, RegistryIsExact, PTL DEF OneOwner

\* A search the user was told is stopped neither goes on, begins, nor completes
\* (stop_search, cancel_task).
THEOREM StoppedStaysStopped == Spec => []StopIsFinal
<1>1. IInv => StopIsFinal
  <2> SUFFICES ASSUME IInv, NEW a \in stopped
               PROVE  /\ a \notin completed /\ receipt.run # a
                      /\ phase[a] \notin {"idle", "activating"}
                      /\ phase[a] \in {"readiness", "pipeline"} => a \in cancelled
                      /\ phase[a] = "queued" => reservation.run # a
    BY DEF StopIsFinal
  <2>1. a # None
    BY SmallTypes DEF IInv, TypeOK
  <2> QED
    BY <2>1 DEF IInv, StopInv, StatusInv
<1> QED
  BY <1>1, InvariantHolds, PTL

\* The receipt counts each completed run at most once, never one that failed or was
\* stopped, and no persisted "done" is without it (update_search_status).
THEOREM ReceiptsAreExact == Spec => []ReceiptsExact
<1>1. IInv => ReceiptsExact
  <2> SUFFICES ASSUME IInv PROVE ReceiptsExact
    OBVIOUS
  <2>1. IsFiniteSet(completed)
    <3>1. IsFiniteSet(Attempts)
      BY FS_Interval, SearchAssumption DEF Attempts
    <3> QED
      BY <3>1, FS_Subset DEF IInv, TypeOK
  <2>2. Cardinality(Receipted) <= Cardinality(completed)
        /\ Cardinality(Receipted) \in Nat /\ Cardinality(completed) \in Nat
    BY <2>1, FS_Subset, FS_CardinalityType DEF Receipted
  <2>3. receipt.count \in Nat /\ receipt.run \in Nat /\ dbStatus.run \in Nat
    BY SearchAssumption DEF IInv, TypeOK, Statuses, Attempts, None
  <2> QED
    BY <2>2, <2>3 DEF IInv, ReceiptInv, StatusInv, ReceiptsExact
<1> QED
  BY <1>1, InvariantHolds, PTL

\* After cancel_and_clear_tasks no search reaches or continues its pipeline, not
\* even one authorised before the maintenance began (run_search's re-check).
THEOREM MaintenanceFindsNoSearch == Spec => []MaintenanceQuiesced
<1>1. IInv => MaintenanceQuiesced
  BY DEF IInv, WorkInv, MaintenanceQuiesced
<1> QED
  BY <1>1, InvariantHolds, PTL

=============================================================================
