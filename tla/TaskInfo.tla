-------------------------------- MODULE TaskInfo --------------------------------
(***************************************************************************)
(* The log of what the tasks do (task_info.c): mu_task calls one hook      *)
(* before it calls a task and another before it changes a task's state,    *)
(* and task_info logs both at level DEBUG, and at level WARN the end of a  *)
(* task in an error.  A line has a kind and what it names: tasks, or a     *)
(* task's states; a state is the number of its enumeration.                *)
(*                                                                         *)
(* task_info.c asks bb_log, which the repository does not have, whether    *)
(* DEBUG is reported; it is taken for the logger that MU_LOG_DEBUG uses.   *)
(***************************************************************************)
EXTENDS MuSched, MuLog

CONSTANTS StateNames,  \* of the tasks with a task_info, the sequence of names
          Unknown      \* what a task or a state without a name is called

ASSUME NamesAssumption == DOMAIN StateNames \subseteq Tasks

VARIABLES state,   \* of each task
          hooks,   \* whether task_info_init was called
          prev     \* s_prev_task

infoVars == <<state, hooks, prev>>

InfoInit ==
  /\ state = [t \in Tasks |-> 0]
  /\ hooks = FALSE
  /\ prev = NoTask

TaskInfoInit ==   \* prev is compared with NULL, not set to it
  /\ hooks' = TRUE
  /\ UNCHANGED <<state, prev>>

TaskName(t) == IF t \in DOMAIN StateNames THEN t ELSE Unknown   \* task_info_task_name

StateName(t, s) ==   \* task_info_state_name
  IF t \notin DOMAIN StateNames THEN NoTask
  ELSE IF s < Len(StateNames[t]) THEN StateNames[t][s + 1] ELSE Unknown

-------------------------------------------------------------------------------
(* mu_task_call, when the scheduler has picked task t: the hook, then fn.  *)

CallHook(t) ==   \* task_call_hook
  LET tells == hooks /\ IsReporting(DEBUG) /\ t \notin {idle, prev}
  IN  /\ prev' = IF tells THEN t ELSE prev
      /\ lines' = IF tells THEN Log(DEBUG, <<"call", TaskName(prev), TaskName(t)>>) ELSE <<>>

\* A queued NULL is no call.
TaskCall ==
  /\ StepIrq \/ StepAsap \/ StepIdle
  /\ IF curr' = NoTask THEN lines' = <<>> /\ UNCHANGED prev ELSE CallHook(curr')
  /\ UNCHANGED <<state, hooks, level, logging>>

-------------------------------------------------------------------------------
(* mu_task_set_state, the part of wait, yield and transfer that logs.      *)

StateLine(t, from, to) == <<"state", StateName(t, from), StateName(t, to)>>

\* Fault: the hook is called after the state is set.
StateHookAfter(t, to) ==
  IF hooks /\ to # state[t] /\ IsReporting(DEBUG) /\ t \in DOMAIN StateNames
  THEN Log(DEBUG, StateLine(t, to, to)) ELSE <<>>

StateHook(t, to) ==   \* state_change_hook: a task without user_info is not told of
  IF hooks /\ to # state[t] /\ IsReporting(DEBUG) /\ t \in DOMAIN StateNames
  THEN Log(DEBUG, StateLine(t, state[t], to)) ELSE <<>>

SetState(t, to, before) ==   \* before: the lines logged before in this step
  /\ state' = [state EXCEPT ![t] = to]
  /\ lines' = before \o StateHook(t, to)

Wait(t, to) == SetState(t, to, <<>>) /\ UNCHANGED asap
Yield(t, to) == SetState(t, to, <<>>) /\ asap' = Queued(asap, t)

(* task_info(), and the endgames written before it: warn, then transfer to *)
(* the continuation.                                                       *)
Finish(t, to, hadError, continuation) ==
  /\ SetState(t, to, IF hadError THEN Log(WARN, <<"warn", StateName(t, state[t]), StateName(t, to)>>)
                     ELSE <<>>)
  /\ asap' = Queued(asap, continuation)
================================================================================
