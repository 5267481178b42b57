-------------------------------- MODULE MuTimer --------------------------------
(***************************************************************************)
(* mulib's timers (core/mu_timer.c): each is a task that the scheduler's   *)
(* deferred queue runs when the timer expires, shared here with tasks that *)
(* defer themselves.  on_completion is called inside the timer's task, so  *)
(* it is the code that runs while curr is the timer: it may start and stop *)
(* every timer, the expiring one included, before the step returns.        *)
(*                                                                         *)
(* Interrupts and asap tasks reach a timer only as a delay of the step     *)
(* that serves it; MuSched has them.                                       *)
(***************************************************************************)
EXTENDS MuSched

CONSTANTS Timers,      \* the tasks that are timers
          Others,      \* tasks that defer themselves
          Tics,        \* the values of delay_tics
          FreshStates  \* what timer->state may hold after mu_timer_init

States == {"IDLE", "RUNNING", "ERROR"}   \* mu_timer_state_t
Unset == -HalfRange - 1                  \* delay_until before the first start

ASSUME TimersAssumption ==
  /\ Timers \subseteq Tasks /\ Others \subseteq Tasks \ Timers
  /\ Tics \subseteq Delays /\ \A d \in Tics : d >= 0
  /\ FreshStates \subseteq States

VARIABLE timer   \* the fields of each mu_timer_t

timerVars == <<vars, timer>>

\* mu_timer_init leaves every field of the timer but its task as it was.
TimerInit ==
  /\ Init
  /\ \E s \in FreshStates, d \in Tics :
       timer = [t \in Timers |-> [state |-> s, tics |-> d, until |-> Unset, periodic |-> FALSE]]

Running(t) == timer[t].state = "RUNNING"

\* The deferred arrays that mu_timer_stop may leave.
Stopped(t) == IF Running(t) THEN Removals(deferred, t) ELSE {deferred}

Stop(t) ==   \* mu_timer_stop
  /\ deferred' \in Stopped(t)
  /\ timer' = [timer EXCEPT ![t].state = "IDLE"]
  /\ UNCHANGED <<now, irq, asap, curr, idle>>

Started(d, periodic) ==
  [state |-> "RUNNING", tics |-> d, until |-> Offset(now, d), periodic |-> periodic]

\* Fault: a running timer is started again without being stopped.
StartAgain(t, d, periodic) ==
  /\ deferred' \in Scheduled(deferred, t, Offset(now, d))
  /\ timer' = [timer EXCEPT ![t] = Started(d, periodic)]
  /\ UNCHANGED <<now, irq, asap, curr, idle>>

Start(t, d, periodic) ==   \* mu_timer_start; the result of the deferral is not looked at
  /\ \E kept \in Stopped(t) : deferred' \in Scheduled(kept, t, Offset(now, d))
  /\ timer' = [timer EXCEPT ![t] = Started(d, periodic)]
  /\ UNCHANGED <<now, irq, asap, curr, idle>>

-------------------------------------------------------------------------------
(* mu_timer_fn, up to its call of on_completion. *)

NextUntil(t) == Offset(timer[t].until, timer[t].tics)

\* Fault: the entry that expired is dropped after the timer's task has run.
RearmEarly(t) ==
  /\ Running(t) /\ timer[t].periodic
  /\ timer' = [timer EXCEPT ![t].until = NextUntil(t)]
  /\ \E d \in Scheduled(deferred, t, NextUntil(t)) : deferred' = SubSeq(d, 1, Len(d) - 1)

Rearm(t) ==
  /\ Running(t) /\ timer[t].periodic
  /\ timer' = [timer EXCEPT ![t].until = NextUntil(t)]
  /\ deferred' \in Scheduled(SubSeq(deferred, 1, Len(deferred) - 1), t, NextUntil(t))

Finish(t) ==   \* one shot; a timer that is not running does nothing
  /\ ~(Running(t) /\ timer[t].periodic)
  /\ timer' = IF Running(t) THEN [timer EXCEPT ![t].state = "IDLE"] ELSE timer
  /\ deferred' = SubSeq(deferred, 1, Len(deferred) - 1)

Expire(t) ==   \* the step that fetches the timer's task
  /\ curr = NoTask
  /\ Due
  /\ Soonest.task = t
  /\ Rearm(t) \/ Finish(t)
  /\ curr' = t
  /\ UNCHANGED <<now, irq, asap, idle>>

-------------------------------------------------------------------------------
\* The steps and calls of the other tasks.
OtherStep ==
  /\ StepIdle \/ (StepDeferred /\ Soonest.task \in Others)
  /\ UNCHANGED timer

OtherCall ==
  /\ \E t \in Others : RemoveDeferred(t) \/ \E d \in Delays : DeferFor(t, d)
  /\ UNCHANGED timer

TimerStep == OtherStep \/ \E t \in Timers : Expire(t)
Return == TaskReturn /\ UNCHANGED timer
ClockTick == Tick /\ UNCHANGED timer

Set(t) == Stop(t) \/ \E d \in Tics, periodic \in BOOLEAN : Start(t, d, periodic)

-------------------------------------------------------------------------------
EntriesOf(t) == {k \in DOMAIN deferred : deferred[k].task = t}
Armed(t) == Running(t) /\ EntriesOf(t) # {}

(* No stop, restart, expiry or callback leaves a stale deferral behind:    *)
(* what the queue holds of a timer is one entry, of a running timer, at    *)
(* its delay_until.  So on_completion is never called for a timer that was *)
(* stopped, nor at a time of an earlier start, nor twice for one expiry;   *)
(* and mu_timer_fn reads no field that a start has not set.                *)
TimerEntries ==
  \A t \in Timers :
    /\ Cardinality(EntriesOf(t)) <= 1
    /\ \A k \in EntriesOf(t) : Running(t) /\ deferred[k].at = timer[t].until

(* A timer that has its place in the queue keeps it: neither its expiry    *)
(* nor a restart loses the place to another task of a full queue.          *)
ArmedKept == \A t \in Timers : Armed(t) /\ Running(t)' => Armed(t)'
ArmedStaysArmed == [][ArmedKept]_timerVars

===============================================================================
