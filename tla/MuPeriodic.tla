------------------------------- MODULE MuPeriodic -------------------------------
(***************************************************************************)
(* mulib's older periodic timer (laboratory/mu_periodic.c), in the queue   *)
(* that MuTimer's timers and other tasks share.  It calls its target       *)
(* itself, in mu_periodic_start and when it expires, and defers its task   *)
(* only when the target has returned; "calls" is the stack of those calls. *)
(* The target may start and stop any timer, the periodic one included.     *)
(***************************************************************************)
EXTENDS MuTimer

CONSTANTS Periodic,   \* the mu_periodic_t's task
          Periods,    \* the values of period: strictly positive
          MaxNest     \* bound: how deep calls of the target nest

ASSUME PeriodicAssumption ==
  /\ Periodic \in Tasks \ (Timers \union Others)
  /\ Periods \subseteq Delays /\ \A d \in Periods : d > 0

VARIABLES period,     \* timer->_period: 0 if the timer is stopped
          triggerAt,  \* timer->_trigger_at
          calls,      \* the calls of the target that have not returned, by whom
          meddled,    \* history: it was started or stopped inside a call of its target
          refused     \* history: the queue had no room for it
                      \* (both since it was last stopped outside such a call)

periodic == <<period, triggerAt, calls, meddled, refused>>
periodicVars == <<timerVars, periodic>>

PeriodicInit ==   \* mu_periodic_init
  /\ TimerInit
  /\ period = 0
  /\ triggerAt = Unset
  /\ calls = <<>>
  /\ meddled = FALSE /\ refused = FALSE

IsRunning == period # 0

Defers(at) ==
  /\ deferred' \in Scheduled(deferred, Periodic, at)
  /\ refused' = (refused \/ deferred' = deferred)

PeriodicStart(d) ==   \* mu_periodic_start, up to the call of the target
  /\ ~IsRunning /\ Len(calls) < MaxNest
  /\ period' = d
  /\ triggerAt' = Offset(now, d)
  /\ calls' = Append(calls, "start")
  /\ meddled' = (meddled \/ calls # <<>>)
  /\ UNCHANGED <<timerVars, refused>>

\* Fault: the deferral is left in the queue.
PeriodicStopKeeps ==
  /\ IsRunning
  /\ period' = 0
  /\ meddled' = (calls # <<>>) /\ refused' = FALSE
  /\ UNCHANGED <<timerVars, triggerAt, calls>>

PeriodicStop ==   \* mu_periodic_stop
  /\ IsRunning
  /\ deferred' \in Removals(deferred, Periodic)
  /\ period' = 0
  /\ meddled' = (calls # <<>>) /\ refused' = FALSE
  /\ UNCHANGED <<now, irq, asap, curr, idle, timer, triggerAt, calls>>

PeriodicExpire ==   \* timer_fn, up to the call of the target
  /\ calls = <<>>
  /\ StepDeferred /\ curr' = Periodic
  /\ calls' = IF IsRunning THEN <<"expiry">> ELSE <<>>
  /\ UNCHANGED <<timer, period, triggerAt, meddled, refused>>

TargetReturns ==   \* it is not looked at again whether the timer is running
  /\ calls # <<>>
  /\ triggerAt' = IF calls[Len(calls)] = "start" THEN triggerAt ELSE Offset(triggerAt, period)
  /\ Defers(triggerAt')
  /\ calls' = SubSeq(calls, 1, Len(calls) - 1)
  /\ UNCHANGED <<now, irq, asap, curr, idle, timer, period, meddled>>

PeriodicNext ==
  \/ (calls = <<>>) /\ (TimerStep \/ Return) /\ UNCHANGED periodic
  \/ (OtherCall \/ ClockTick \/ \E t \in Timers : Set(t)) /\ UNCHANGED periodic
  \/ PeriodicExpire \/ TargetReturns \/ PeriodicStop \/ \E d \in Periods : PeriodicStart(d)

PeriodicSpec == PeriodicInit /\ [][PeriodicNext]_periodicVars

-------------------------------------------------------------------------------
(* The queue holds one entry of the periodic timer just while it is        *)
(* running and its target does not run, at its trigger time, so that the   *)
(* target is called "once every interval" (mu_periodic.h) and not after a  *)
(* stop; provided that, since the last stop from outside, the queue has    *)
(* had room for it and no call of the target has started or stopped the    *)
(* timer: the call defers it regardless when the target returns.           *)
KeepsPace ==
  ~meddled /\ ~refused =>
    /\ Cardinality(EntriesOf(Periodic)) = IF IsRunning /\ calls = <<>> THEN 1 ELSE 0
    /\ \A k \in EntriesOf(Periodic) : deferred[k].at = triggerAt
===============================================================================
