----------------------------- MODULE VaultGate -----------------------------
(***************************************************************************)
(* The process-local activity gate of backend/career/activity.py and the  *)
(* tasks of backend/api/middleware.py, services/scheduler.py and the       *)
(* maintenance routes that go through it.                                  *)
(*                                                                         *)
(* One asyncio.Condition guards three fields.  Its lock is never held      *)
(* across an await (Condition.wait releases it), so on the single event    *)
(* loop every critical section is one atomic step.  What is not atomic is  *)
(* sleeping: a waiter re-evaluates its predicate only after a notify_all.  *)
(* "asleep" holds the waiters no notify_all has reached since they last    *)
(* evaluated it, which is what makes a lost wake-up expressible.           *)
(*                                                                         *)
(* Init, Next and their kin carry the prefix "Gate", so that a module may  *)
(* extend this one together with VaultMaintenance.                         *)
(***************************************************************************)
EXTENDS Integers, FiniteSets

CONSTANTS Readers,       \* private requests and scheduled searches: reader()
          Probes,        \* readiness probes: try_reader()
          Maintainers,   \* reset, restore and erasure requests
          NoTask

Tasks == Readers \cup Probes \cup Maintainers

ASSUME TaskAssumption ==
  /\ IsFiniteSet(Readers) /\ IsFiniteSet(Probes) /\ IsFiniteSet(Maintainers)
  /\ Readers \cap Probes = {}
  /\ Readers \cap Maintainers = {}
  /\ Probes \cap Maintainers = {}
  /\ NoTask \notin Tasks

VARIABLES readers,         \* _readers
          writer,          \* _writer
          waitingWriters,  \* _waiting_writers
          lockHolder,      \* the task inside maintenance(), or NoTask
          pc,              \* where each task stands
          asleep           \* waiters not notified since their last evaluation

gate == <<readers, writer, waitingWriters>>
gateVars == <<readers, writer, waitingWriters, lockHolder, pc, asleep>>

Places == {"out", "waiting", "inside", "queued", "preparing", "writing"}

GateTypeOK ==
  /\ readers \in Nat
  /\ writer \in BOOLEAN
  /\ waitingWriters \in Nat
  /\ lockHolder \in Maintainers \cup {NoTask}
  /\ pc \in [Tasks -> Places]
  /\ \A t \in Readers : pc[t] \in {"out", "waiting", "inside"}
  /\ \A t \in Probes : pc[t] \in {"out", "inside"}
  /\ \A t \in Maintainers : pc[t] # "inside"
  /\ asleep \in SUBSET Tasks

GateInit ==
  /\ readers = 0
  /\ writer = FALSE
  /\ waitingWriters = 0
  /\ lockHolder = NoTask
  /\ pc = [t \in Tasks |-> "out"]
  /\ asleep = {}

MoveTo(t, place) == pc' = [pc EXCEPT ![t] = place]
NotifyAll == asleep' = {}

-----------------------------------------------------------------------------
(* reader()                                                                *)

ReaderMayEnter == ~writer /\ waitingWriters = 0

Admit(r) ==
  /\ readers' = readers + 1
  /\ MoveTo(r, "inside")
  /\ UNCHANGED <<writer, waitingWriters, lockHolder>>

Sleep(t) ==
  /\ MoveTo(t, "waiting")
  /\ asleep' = asleep \cup {t}

EnterReader(r) ==
  /\ pc[r] = "out"
  /\ ReaderMayEnter
  /\ Admit(r)
  /\ UNCHANGED asleep

BlockReader(r) ==
  /\ pc[r] = "out"
  /\ ~ReaderMayEnter
  /\ Sleep(r)
  /\ UNCHANGED <<gate, lockHolder>>

\* A notified reader runs its predicate again: it enters or goes back to sleep.
WakeReader(r) ==
  /\ pc[r] = "waiting" /\ r \notin asleep
  /\ ReaderMayEnter
  /\ Admit(r)
  /\ UNCHANGED asleep

ResleepReader(r) ==
  /\ pc[r] = "waiting" /\ r \notin asleep
  /\ ~ReaderMayEnter
  /\ Sleep(r)
  /\ UNCHANGED <<gate, lockHolder>>

\* CancelledError inside wait_for: the reader has not counted itself yet.
CancelReader(r) ==
  /\ pc[r] = "waiting"
  /\ MoveTo(r, "out")
  /\ asleep' = asleep \ {r}
  /\ UNCHANGED <<gate, lockHolder>>

\* The finally block of reader() and of a try_reader() that acquired.
LeaveReader(t) ==
  /\ pc[t] = "inside"
  /\ readers' = readers - 1
  /\ MoveTo(t, "out")
  /\ NotifyAll
  /\ UNCHANGED <<writer, waitingWriters, lockHolder>>

(* try_reader(): a probe that is refused never joins the wait queue.       *)

EnterProbe(p) ==
  /\ pc[p] = "out"
  /\ ReaderMayEnter
  /\ lockHolder = NoTask
  /\ Admit(p)
  /\ UNCHANGED asleep

-----------------------------------------------------------------------------
(* maintenance() around writer(), as the three maintenance routes nest them *)

\* Fault: the writer enters without waiting for the readers to drain.
WriterMayEnter_NoDrain == ~writer

WriterMayEnter == ~writer /\ readers = 0

QueueMaintenance(m) ==
  /\ pc[m] = "out"
  /\ MoveTo(m, "queued")
  /\ UNCHANGED <<gate, lockHolder, asleep>>

LockMaintenance(m) ==
  /\ pc[m] = "queued"
  /\ lockHolder = NoTask
  /\ lockHolder' = m
  /\ MoveTo(m, "preparing")
  /\ UNCHANGED <<gate, asleep>>

\* writer() with the gate already drained: increment, enter and decrement
\* happen in one critical section, whose finally block notifies everybody.
EnterWriter(m) ==
  /\ pc[m] = "preparing"
  /\ WriterMayEnter
  /\ writer' = TRUE
  /\ MoveTo(m, "writing")
  /\ NotifyAll
  /\ UNCHANGED <<readers, waitingWriters, lockHolder>>

BlockWriter(m) ==
  /\ pc[m] = "preparing"
  /\ ~WriterMayEnter
  /\ waitingWriters' = waitingWriters + 1
  /\ Sleep(m)
  /\ UNCHANGED <<readers, writer, lockHolder>>

WakeWriter(m) ==
  /\ pc[m] = "waiting" /\ m \notin asleep
  /\ WriterMayEnter
  /\ writer' = TRUE
  /\ waitingWriters' = waitingWriters - 1
  /\ MoveTo(m, "writing")
  /\ NotifyAll
  /\ UNCHANGED <<readers, lockHolder>>

ResleepWriter(m) ==
  /\ pc[m] = "waiting" /\ m \notin asleep
  /\ ~WriterMayEnter
  /\ Sleep(m)
  /\ UNCHANGED <<gate, lockHolder>>

\* Fault: cancellation leaves the writer's priority behind.
CancelWriter_KeepsPriority(m) ==
  /\ pc[m] = "waiting"
  /\ NotifyAll
  /\ MoveTo(m, "out")
  /\ lockHolder' = NoTask
  /\ UNCHANGED gate

\* Fault: cancellation withdraws the priority but notifies nobody.
CancelWriter_Silent(m) ==
  /\ pc[m] = "waiting"
  /\ waitingWriters' = waitingWriters - 1
  /\ asleep' = asleep \ {m}
  /\ MoveTo(m, "out")
  /\ lockHolder' = NoTask
  /\ UNCHANGED <<readers, writer>>

\* Cancelled inside wait_for: the finally block withdraws the priority, wakes
\* everybody, and the exception unwinds through maintenance().
CancelWriter(m) ==
  /\ pc[m] = "waiting"
  /\ waitingWriters' = waitingWriters - 1
  /\ NotifyAll
  /\ MoveTo(m, "out")
  /\ lockHolder' = NoTask
  /\ UNCHANGED <<readers, writer>>

LeaveWriter(m) ==
  /\ pc[m] = "writing"
  /\ writer' = FALSE
  /\ NotifyAll
  /\ MoveTo(m, "out")
  /\ lockHolder' = NoTask
  /\ UNCHANGED <<readers, waitingWriters>>

\* The lifecycle transition was refused, or the request was cancelled, before
\* the writer permit was asked for.
AbandonMaintenance(m) ==
  /\ pc[m] \in {"queued", "preparing"}
  /\ MoveTo(m, "out")
  /\ lockHolder' = IF lockHolder = m THEN NoTask ELSE lockHolder
  /\ UNCHANGED <<gate, asleep>>

-----------------------------------------------------------------------------
ReaderStep(r) ==
  \/ EnterReader(r) \/ BlockReader(r) \/ WakeReader(r) \/ ResleepReader(r)
  \/ CancelReader(r) \/ LeaveReader(r)

ProbeStep(p) == EnterProbe(p) \/ LeaveReader(p)

MaintainerStep(m) ==
  \/ QueueMaintenance(m) \/ LockMaintenance(m) \/ AbandonMaintenance(m)
  \/ EnterWriter(m) \/ BlockWriter(m) \/ WakeWriter(m) \/ ResleepWriter(m)
  \/ CancelWriter(m) \/ LeaveWriter(m)

GateNext ==
  \/ \E r \in Readers : ReaderStep(r)
  \/ \E p \in Probes : ProbeStep(p)
  \/ \E m \in Maintainers : MaintainerStep(m)

GateSpec == GateInit /\ [][GateNext]_gateVars

(***************************************************************************)
(* The loop eventually runs every ready callback and every request body    *)
(* ends (weak fairness).  asyncio.Lock is FIFO and a notified reader is    *)
(* scheduled before any maintainer that becomes ready after it, so a       *)
(* waiter that could proceed again and again does (strong fairness).       *)
(* Nobody is obliged to send a request or to cancel one.                   *)
(***************************************************************************)
ReaderProgress(r) ==
  /\ WF_gateVars(ResleepReader(r)) /\ WF_gateVars(LeaveReader(r))
  /\ SF_gateVars(WakeReader(r))

MaintainerProgress(m) ==
  /\ SF_gateVars(LockMaintenance(m))
  /\ WF_gateVars(EnterWriter(m) \/ BlockWriter(m))
  /\ WF_gateVars(WakeWriter(m)) /\ WF_gateVars(ResleepWriter(m))
  /\ WF_gateVars(LeaveWriter(m))

FairSpec ==
  /\ GateSpec
  /\ \A r \in Readers : ReaderProgress(r)
  /\ \A p \in Probes : WF_gateVars(LeaveReader(p))
  /\ \A m \in Maintainers : MaintainerProgress(m)

-----------------------------------------------------------------------------
(* Properties                                                              *)

Inside == {t \in Readers \cup Probes : pc[t] = "inside"}
Waiting == {m \in Maintainers : pc[m] = "waiting"}
Writing == {m \in Maintainers : pc[m] = "writing"}

\* "previously authorized work drains before any destructive snapshot is
\* changed": while a maintenance operation is in its writer section no request,
\* scheduled search or probe is, and no second maintenance operation.
WriterExcludesActivity ==
  \A m \in Writing : Inside = {} /\ Writing = {m}

\* The two counters are the numbers of tasks they stand for, whatever mixture
\* of cancellations, refusals and wake-ups led here: a leaked increment would
\* close the gate for good, a leaked decrement would open it under a writer.
CountersExact ==
  /\ readers = Cardinality(Inside)
  /\ waitingWriters = Cardinality(Waiting)
  /\ writer <=> Writing # {}

\* A task that sleeps without a pending notification is still blocked: the
\* last step that made its predicate true has notified it.  This is what the
\* notify_all in the finally block of writer() is for.
NoLostWakeup ==
  /\ \A r \in Readers \cap asleep : ~ReaderMayEnter
  /\ \A m \in Maintainers \cap asleep : ~WriterMayEnter

\* A request that queued behind maintenance is eventually admitted (or gives
\* up), even when the maintainer that blocked it was cancelled while waiting.
ReaderNotStranded ==
  \A r \in Readers : pc[r] = "waiting" ~> pc[r] # "waiting"

\* A maintenance request reaches its writer section (or gives up) although
\* requests and probes keep arriving: the writer has priority.
WriterNotStarved ==
  \A m \in Maintainers : pc[m] = "preparing" ~> pc[m] \in {"writing", "out"}

\* Neither side of the gate starves the other (the priority of writer() and the
\* notification when a waiting writer gives up).
EveryoneServed == ReaderNotStranded /\ WriterNotStarved
=============================================================================
