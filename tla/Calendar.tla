-------------------------------- MODULE Calendar --------------------------------
(***************************************************************************)
(* What mu_sched promises those who defer a task: a calendar with, for     *)
(* each time, the tasks booked for it in the order they were booked.  A    *)
(* booking ends when its task is run, not before its time, after every     *)
(* booking for an earlier time and every older one for the same time; or   *)
(* when it is cancelled.                                                   *)
(***************************************************************************)
EXTENDS MuTime, Sequences

CONSTANTS Tasks, NoTask

VARIABLES now, calendar, running

calendarVars == <<now, calendar, running>>

CalendarInit ==
  /\ now \in AbsTime
  /\ calendar = [at \in AbsTime |-> <<>>]
  /\ running = NoTask

Book(t, at) ==
  /\ UNCHANGED <<now, running>>
  /\ calendar'[at] = Append(calendar[at], t)
  /\ calendar' = [calendar EXCEPT ![at] = calendar'[at]]

RunBooked(at) ==
  /\ running = NoTask
  /\ calendar[at] # <<>>
  /\ ~Precedes(now, at)
  /\ UNCHANGED now
  /\ running' = Head(calendar[at])
  /\ \A other \in AbsTime : calendar[other] # <<>> => ~Precedes(other, at)
  /\ calendar' = [calendar EXCEPT ![at] = Tail(@)]

RunOther ==   \* a task of the other queues, or the idle task
  /\ running = NoTask
  /\ running' \in Tasks
  /\ UNCHANGED <<now, calendar>>

Finish == running' = NoTask /\ UNCHANGED <<now, calendar>>

\* In after, t is gone from the queue; the others are there, in their order.
Without(t, queue, after) ==
  /\ after \in Seq(Tasks \ {t})
  /\ \E f \in [DOMAIN after -> DOMAIN queue] :
       /\ \A i, j \in DOMAIN after : i < j => f[i] < f[j]
       /\ \A k \in DOMAIN queue : queue[k] # t => \E i \in DOMAIN after : f[i] = k
       /\ \A i \in DOMAIN after : after[i] = queue[f[i]]

Cancel(t) ==
  /\ UNCHANGED <<now, running>>
  /\ \A at \in AbsTime : Without(t, calendar[at], calendar'[at])
  /\ calendar' = [at \in AbsTime |-> calendar'[at]]

CancelAll ==
  /\ UNCHANGED <<now, running>>
  /\ calendar' = [at \in AbsTime |-> <<>>]

Tick == now' = Offset(now, 1) /\ UNCHANGED <<calendar, running>>

CalendarNext ==
  \/ Tick
  \/ Finish
  \/ RunOther
  \/ \E at \in AbsTime : RunBooked(at)
  \/ \E t \in Tasks, at \in AbsTime : Book(t, at)
  \/ CancelAll
  \/ \E t \in Tasks : Cancel(t)

CalendarSpec == CalendarInit /\ [][CalendarNext]_calendarVars
===============================================================================
