-------------------------------- MODULE MuSched --------------------------------
(***************************************************************************)
(* mulib's run-to-completion scheduler (core/mu_sched.c).  The foreground  *)
(* loops over mu_sched_step, which runs one task to its end; the task, and *)
(* the program outside a step, call the scheduler to queue more work; an   *)
(* interrupt may queue a task between any two of these steps.  Tasks come  *)
(* from three queues: those an interrupt queued, those deferred to a time, *)
(* and those to be run as soon as possible.                                *)
(*                                                                         *)
(* The interrupt queue and the asap queue are the FIFOs that MuSpsc and    *)
(* MuMqueue are shown to implement.  The deferred queue is the sorted      *)
(* array, soonest task last.                                               *)
(***************************************************************************)
EXTENDS MuTime, Sequences, FiniteSets

CONSTANTS Tasks,        \* the task objects of the program
          IsrTasks,     \* those that interrupts schedule
          NoTask,       \* the C null pointer
          MaxIrq,       \* tasks s_irq_store holds: one less than its length
          MaxAsap,      \* MU_CONFIG_SCHED_MAX_ASAP_TASKS
          MaxDeferred,  \* MU_CONFIG_SCHED_MAX_DEFERRED_TASKS
          Delays,       \* how far from now callers defer; past times are negative
          MaxLag        \* bound: no deferred task is served later than this

ASSUME TasksAssumption == NoTask \notin Tasks /\ IsrTasks \subseteq Tasks

ASSUME LimitsAssumption == MaxIrq \in Nat /\ MaxAsap \in Nat /\ MaxDeferred \in Nat

\* Times that are compared lie within half the range of the clock (2^63 ticks).
ASSUME WindowAssumption ==
  /\ MaxLag \in 0 .. HalfRange - 1
  /\ Delays \subseteq RelTime
  /\ \A d \in Delays : d >= -MaxLag /\ d + MaxLag < HalfRange

VARIABLES now,       \* what clock_fn returns
          irq,       \* irq_tasks, oldest first
          asap,      \* asap_tasks, oldest first
          deferred,  \* s_deferred_tasks up to deferred_task_count
          curr,      \* curr_task
          idle       \* idle_task

vars == <<now, irq, asap, deferred, curr, idle>>

Entry == [at : AbsTime, task : Tasks]   \* deferred_task_t

TypeOK ==
  /\ now \in AbsTime
  /\ irq \in Seq(IsrTasks) /\ Len(irq) <= MaxIrq
  /\ asap \in Seq(Tasks \union {NoTask}) /\ Len(asap) <= MaxAsap
  /\ deferred \in Seq(Entry) /\ Len(deferred) <= MaxDeferred
  /\ curr \in Tasks \union {NoTask}
  /\ idle \in Tasks \union {NoTask}

Init ==   \* mu_sched_init
  /\ now \in AbsTime
  /\ irq = <<>>
  /\ asap = <<>>
  /\ deferred = <<>>
  /\ curr = NoTask
  /\ idle = NoTask

-------------------------------------------------------------------------------
(* mu_sched_step picks a task; the task then runs until TaskReturn.  An    *)
(* interrupt between two of the picks' tests is one that came after the    *)
(* step: no test is repeated.                                              *)

Soonest == deferred[Len(deferred)]   \* peek_next_deferred_task

\* Fault: the comparison is off by one tick.
DueEarly == deferred # <<>> /\ ~Precedes(Offset(now, 1), Soonest.at)

Due == deferred # <<>> /\ ~Precedes(now, Soonest.at)

\* Fault: the task is fetched and not called.
StepIrqDropped ==
  /\ curr = NoTask
  /\ irq # <<>>
  /\ irq' = Tail(irq)
  /\ UNCHANGED <<now, asap, deferred, curr, idle>>

StepIrq ==
  /\ curr = NoTask
  /\ irq # <<>>
  /\ curr' = Head(irq)
  /\ irq' = Tail(irq)
  /\ UNCHANGED <<now, asap, deferred, idle>>

\* Fault: the count is not decremented.
StepDeferredKept ==
  /\ curr = NoTask
  /\ irq = <<>>
  /\ Due
  /\ curr' = Soonest.task
  /\ UNCHANGED <<now, irq, asap, deferred, idle>>

StepDeferred ==   \* fetch_runnable_deferred_task
  /\ curr = NoTask
  /\ irq = <<>>
  /\ Due
  /\ curr' = Soonest.task
  /\ deferred' = SubSeq(deferred, 1, Len(deferred) - 1)
  /\ UNCHANGED <<now, irq, asap, idle>>

\* Fault: the idle task goes first.
StepAsapAfterIdle ==
  /\ curr = NoTask
  /\ irq = <<>>
  /\ ~Due
  /\ asap # <<>>
  /\ idle = NoTask
  /\ curr' = Head(asap)
  /\ asap' = Tail(asap)
  /\ UNCHANGED <<now, irq, deferred, idle>>

StepAsap ==
  /\ curr = NoTask
  /\ irq = <<>>
  /\ ~Due
  /\ asap # <<>>
  /\ curr' = Head(asap)   \* NoTask if NULL was queued: nothing is called
  /\ asap' = Tail(asap)
  /\ UNCHANGED <<now, irq, deferred, idle>>

StepIdle ==
  /\ curr = NoTask
  /\ irq = <<>>
  /\ ~Due
  /\ asap = <<>>
  /\ curr' = idle
  /\ UNCHANGED <<now, irq, asap, deferred, idle>>

Step == StepIrq \/ StepDeferred \/ StepAsap \/ StepIdle

TaskReturn ==
  /\ curr # NoTask
  /\ curr' = NoTask
  /\ UNCHANGED <<now, irq, asap, deferred, idle>>

-------------------------------------------------------------------------------
(* The calls of the foreground: of the running task if there is one, else  *)
(* of the program outside mu_sched_step.                                   *)

\* The asap queue after mu_sched_asap: a full one does not take the task.
Queued(queue, t) == IF Len(queue) < MaxAsap THEN Append(queue, t) ELSE queue

\* mu_sched_asap.  A task that transfers to no task queues NULL.
Asap(t) ==
  /\ asap' = Queued(asap, t)
  /\ UNCHANGED <<now, irq, deferred, curr, idle>>

\* Where sched_aux puts a new entry: behind every entry that follows it in
\* time, before the others.  The array holds the soonest last.
InsertionPoints(d, at) ==
  {i \in 0 .. Len(d) :
     /\ i # 0 => Follows(d[i].at, at)
     /\ \A k \in i + 1 .. Len(d) : ~Follows(d[k].at, at)}

Inserted(d, i, e) ==
  [k \in 1 .. Len(d) + 1 |-> IF k <= i THEN d[k] ELSE IF k = i + 1 THEN e ELSE d[k - 1]]

\* Fault: the search stops at an entry of the same time as well.
SchedAuxAhead(t, at) ==
  /\ IF Len(deferred) = MaxDeferred
     THEN UNCHANGED deferred
     ELSE \E i \in 0 .. Len(deferred) :
            /\ i # 0 => ~Precedes(deferred[i].at, at)
            /\ \A k \in i + 1 .. Len(deferred) : Precedes(deferred[k].at, at)
            /\ deferred' = Inserted(deferred, i, [at |-> at, task |-> t])
  /\ UNCHANGED <<now, irq, asap, curr, idle>>

\* Fault: the new entry is added at the end without a search.
SchedAuxUnsorted(t, at) ==
  /\ deferred' = IF Len(deferred) = MaxDeferred
                 THEN deferred ELSE Append(deferred, [at |-> at, task |-> t])
  /\ UNCHANGED <<now, irq, asap, curr, idle>>

\* Fault: the array is not checked for room.
SchedAuxNoLimit(t, at) ==
  /\ \E i \in InsertionPoints(deferred, at) :
       deferred' = Inserted(deferred, i, [at |-> at, task |-> t])
  /\ UNCHANGED <<now, irq, asap, curr, idle>>

\* The arrays that sched_aux makes of d: unchanged if there is no room.
Scheduled(d, t, at) ==
  IF Len(d) = MaxDeferred
  THEN {d} ELSE {Inserted(d, i, [at |-> at, task |-> t]) : i \in InsertionPoints(d, at)}

SchedAux(t, at) ==
  /\ deferred' \in Scheduled(deferred, t, at)
  /\ UNCHANGED <<now, irq, asap, curr, idle>>

\* mu_sched_defer_until and mu_sched_defer_for.
DeferUntil(t, at) == SchedAux(t, at)
DeferFor(t, in) == SchedAux(t, Offset(now, in))

\* The array d without the entries of t, the others closed up in their order.
Kept(d, t) == {k \in DOMAIN d : d[k].task # t}
InOrder(S) ==
  {f \in [1 .. Cardinality(S) -> S] :
     \A i, j \in 1 .. Cardinality(S) : i < j => f[i] < f[j]}
Removals(d, t) ==
  {[k \in 1 .. Cardinality(Kept(d, t)) |-> d[f[k]]] : f \in InOrder(Kept(d, t))}

\* Fault: the search stops at the first entry found, from the end.
RemoveDeferredOne(t) ==
  /\ \E k \in DOMAIN deferred :
       /\ deferred[k].task = t
       /\ \A j \in k + 1 .. Len(deferred) : deferred[j].task # t
       /\ deferred' = SubSeq(deferred, 1, k - 1) \o SubSeq(deferred, k + 1, Len(deferred))
  /\ UNCHANGED <<now, irq, asap, curr, idle>>

RemoveDeferred(t) ==   \* mu_sched_remove_deferred_task
  /\ deferred' \in Removals(deferred, t)
  /\ UNCHANGED <<now, irq, asap, curr, idle>>

Reset ==   \* mu_sched_reset
  /\ deferred' = <<>>
  /\ UNCHANGED <<now, irq, asap, curr, idle>>

SetIdle(t) ==   \* mu_sched_set_idle_task
  /\ idle' = t
  /\ UNCHANGED <<now, irq, asap, deferred, curr>>

Call ==
  \/ \E t \in Tasks \union {NoTask} : Asap(t) \/ SetIdle(t)
  \/ \E t \in Tasks, d \in Delays : DeferUntil(t, Offset(now, d)) \/ DeferFor(t, d)
  \/ \E t \in Tasks : RemoveDeferred(t)
  \/ Reset

-------------------------------------------------------------------------------
(* The environment: interrupts and the clock. *)

FromIsr(t) ==   \* mu_sched_from_isr
  /\ irq' = IF Len(irq) < MaxIrq THEN Append(irq, t) ELSE irq
  /\ UNCHANGED <<now, asap, deferred, curr, idle>>

Tick ==
  /\ \A k \in DOMAIN deferred : Difference(deferred[k].at, now) > -MaxLag
  /\ now' = Offset(now, 1)
  /\ UNCHANGED <<irq, asap, deferred, curr, idle>>

Next == Step \/ TaskReturn \/ Call \/ (\E t \in IsrTasks : FromIsr(t)) \/ Tick

Spec == Init /\ [][Next]_vars
\* The superloop never stops stepping, every task returns (run to completion)
\* and the clock does not stop; nothing is owed by interrupts or by callers.
FairSpec == Spec /\ WF_vars(Step) /\ WF_vars(TaskReturn) /\ SF_vars(Tick)

-------------------------------------------------------------------------------
(* The array is in descending time order, across a wrap of the clock: what *)
(* peek_next_deferred_task finds at its end is the soonest entry.          *)
DeferredSorted ==
  \A k, l \in DOMAIN deferred : k < l => ~Precedes(deferred[k].at, deferred[l].at)

(* A step that takes a task out of the deferred queue takes one whose time *)
(* has come, and none that waits with it has an earlier time.              *)
RunsEarliestDue ==
  [][curr = NoTask /\ curr' # NoTask /\ deferred' # deferred =>
       \E k \in DOMAIN deferred :
         /\ deferred[k].task = curr'
         /\ ~Precedes(now, deferred[k].at)
         /\ \A l \in DOMAIN deferred : ~Precedes(deferred[l].at, deferred[k].at)]_vars

\* The tasks booked for a time, oldest booking first: it is deepest in the
\* array, and entries for one time lie next to each other.
BookedFor(d, at) ==
  LET same == {k \in DOMAIN d : d[k].at = at}
      last == CHOOSE k \in same : same \subseteq 1 .. k
  IN  [k \in 1 .. Cardinality(same) |-> d[last + 1 - k].task]

Booked == INSTANCE Calendar
  WITH calendar <- [at \in AbsTime |-> BookedFor(deferred, at)], running <- curr

(* mu_sched's array with its linear search, memmove and count keeps the    *)
(* promises of the calendar: deferred tasks run in the order of their      *)
(* times and, among equal times, in the order they were deferred; none is  *)
(* run early, lost, or run twice; removing a task removes all it booked.   *)
ImplementsCalendar == Booked!CalendarSpec

Waits(t, queue) == \E k \in DOMAIN queue : queue[k] = t
Deferred(t) == \E k \in DOMAIN deferred : deferred[k].task = t

(* A task that an interrupt managed to queue runs: no load of timers, asap *)
(* tasks or further interrupts starves it.                                 *)
IrqServed == \A t \in IsrTasks : Waits(t, irq) ~> curr = t

(* A deferred task runs unless it is removed or interrupts occupy the      *)
(* scheduler again and again: tasks that defer themselves again, even by   *)
(* no time at all, cannot keep another from its turn.                      *)
DeferredServed ==
  <>[](irq = <<>>) => \A t \in Tasks : Deferred(t) ~> (curr = t \/ ~Deferred(t))

(* An asap task runs unless interrupts or due timers occupy the scheduler  *)
(* again and again.                                                        *)
AsapServed ==
  \A t \in Tasks : <>[](irq = <<>> /\ ~Due) => (Waits(t, asap) ~> curr = t)

(* Each of the three queues is served, as long as those that go before it  *)
(* leave it the time.                                                      *)
QueuesServed == IrqServed /\ DeferredServed /\ AsapServed
===============================================================================
