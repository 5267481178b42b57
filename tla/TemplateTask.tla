------------------------------ MODULE TemplateTask ------------------------------
(***************************************************************************)
(* The task that docs/template_task.c gives as the pattern for others:     *)
(* start another module, wait for it or for a timeout, and transfer to the *)
(* task to be called on completion; with the scheduler and the log of      *)
(* task_info.c.                                                            *)
(*                                                                         *)
(* The other module and timeout_mgr are external: the module answers by    *)
(* scheduling the task once for each start, a start that finds it at work  *)
(* lets it go on; an armed timer schedules the task once, when it expires, *)
(* and arming it again cancels that.  Nobody disarms it.                   *)
(***************************************************************************)
EXTENDS TaskInfo

CONSTANTS Template, Caller, Idle   \* the task, its on_completion, the idle task

ASSUME TemplateAssumption ==
  /\ {Template, Caller, Idle} \subseteq Tasks
  /\ Cardinality({Template, Caller, Idle}) = 3

\* TEMPLATE_MGR_STATES
IDLE == 0
START == 1
AWAIT == 2
SUCCESS == 3
ERR == 4
ERR_START_FAILED == 5
ERR_AWAIT_TIMED_OUT == 6
ERR_AWAIT_FAILED == 7

VARIABLES timer,       \* self->timeout_mgr: "off", "armed" or "expired"
          atWork,      \* the other module was started and has not answered
          otherError,  \* what other_module_had_error returns
          busy,        \* the caller has not been called back yet
          stray,       \* history: a wake-up came while the task was not waiting
          ran,         \* history: the last task called that was not the idle task
          missed       \* history: a call was made with DEBUG off after the last line

otherVars == <<timer, atWork, otherError>>
history == <<stray, ran, missed>>
templateVars == <<vars, logVars, infoVars, otherVars, busy, history>>

TemplateInit ==   \* the idle task is installed
  /\ now = 0 /\ irq = <<>> /\ asap = <<>> /\ deferred = <<>>
  /\ curr = NoTask /\ idle = Idle
  /\ LogInit /\ InfoInit
  /\ timer = "off" /\ atWork = FALSE /\ otherError = FALSE
  /\ busy = FALSE /\ stray = FALSE /\ ran = NoTask /\ missed = FALSE

-------------------------------------------------------------------------------
(* template_mgr_fn. *)

\* Fault: the task stays in its state.
EndGameKeepsState(terminal) == Finish(Template, state[Template], terminal >= ERR, Caller)

EndGame(terminal) == Finish(Template, terminal, terminal >= ERR, Caller)

\* Fault: the task yields where it should wait.
StartOtherYields ==
  /\ state[Template] = START
  /\ \/ EndGame(ERR_START_FAILED) /\ UNCHANGED otherVars
     \/ /\ atWork' = TRUE
        /\ Yield(Template, AWAIT)
        /\ timer' = "armed"
        /\ UNCHANGED otherError

\* Fault: the timer is not armed.
StartOtherUnarmed ==
  /\ state[Template] = START
  /\ \/ EndGame(ERR_START_FAILED) /\ UNCHANGED otherVars
     \/ atWork' = TRUE /\ Wait(Template, AWAIT) /\ UNCHANGED <<timer, otherError>>

StartOther ==
  /\ state[Template] = START
  /\ \/ EndGame(ERR_START_FAILED) /\ UNCHANGED otherVars   \* other_module_start fails
     \/ /\ atWork' = TRUE
        /\ Wait(Template, AWAIT)
        /\ timer' = "armed"
        /\ UNCHANGED otherError

Await ==   \* timeout_mgr_check, then other_module_had_error
  /\ state[Template] = AWAIT
  /\ EndGame(IF timer = "expired" THEN ERR_AWAIT_TIMED_OUT
             ELSE IF otherError THEN ERR_AWAIT_FAILED ELSE SUCCESS)
  /\ UNCHANGED otherVars

Rests == state[Template] \notin {START, AWAIT}   \* idle, or a terminal state

TemplateRuns ==
  /\ curr = Template /\ curr' = NoTask
  /\ \/ StartOther \/ Await
     \/ Rests /\ lines' = <<>> /\ UNCHANGED <<state, asap, otherVars>>
  /\ UNCHANGED <<now, irq, deferred, idle, level, logging, hooks, prev, busy, history>>

-------------------------------------------------------------------------------
(* The rest of the program. *)

Start ==   \* template_mgr_start, of a task that has ended
  /\ curr = NoTask /\ ~busy
  /\ busy' = TRUE
  /\ Yield(Template, START)
  /\ UNCHANGED <<now, irq, deferred, curr, idle, level, logging, hooks, prev, otherVars, history>>

CallerRuns ==
  /\ curr = Caller /\ curr' = NoTask
  /\ busy' = FALSE /\ lines' = <<>>
  /\ UNCHANGED <<now, irq, asap, deferred, idle, level, logging, infoVars, otherVars, history>>

IdleRuns ==
  /\ curr = Idle /\ TaskReturn
  /\ lines' = <<>>
  /\ UNCHANGED <<level, logging, infoVars, otherVars, busy, history>>

Schedule ==
  /\ TaskCall
  /\ IF curr' \in {NoTask, Idle} THEN UNCHANGED <<ran, missed>>
     ELSE /\ ran' = curr'
          /\ missed' = (lines' = <<>> /\ (missed \/ ~hooks \/ ~IsReporting(DEBUG)))
  /\ UNCHANGED <<otherVars, busy, stray>>

WakesTemplate ==
  /\ asap' = Queued(asap, Template)
  /\ stray' = (stray \/ state[Template] # AWAIT)
  /\ lines' = <<>>
  /\ UNCHANGED <<now, irq, deferred, curr, idle, level, logging, infoVars, busy, ran, missed>>

Answer ==
  /\ curr = NoTask /\ atWork
  /\ atWork' = FALSE /\ otherError' \in BOOLEAN
  /\ WakesTemplate
  /\ UNCHANGED timer

Expire ==
  /\ curr = NoTask /\ timer = "armed"
  /\ timer' = "expired"
  /\ WakesTemplate
  /\ UNCHANGED <<atWork, otherError>>

Configure ==   \* from outside the tasks
  /\ curr = NoTask
  /\ \/ SetReportingLevel /\ UNCHANGED infoVars
     \/ SetLoggingFunction /\ UNCHANGED infoVars
     \/ TaskInfoInit /\ UNCHANGED <<level, logging>>
  /\ lines' = <<>>
  /\ UNCHANGED <<vars, otherVars, busy, history>>

TaskRuns == TemplateRuns \/ CallerRuns \/ IdleRuns

TemplateNext == Start \/ Schedule \/ TaskRuns \/ Answer \/ Expire \/ Configure

TemplateSpec == TemplateInit /\ [][TemplateNext]_templateVars
\* The superloop steps, tasks return and an armed timer expires; the other
\* module may never answer.
FairTemplateSpec ==
  TemplateSpec /\ WF_templateVars(Schedule) /\ WF_templateVars(TaskRuns) /\ SF_templateVars(Expire)

-------------------------------------------------------------------------------
Turns(t) == Cardinality({k \in DOMAIN asap : asap[k] = t} \union {k \in {0} : curr = t})

(* The caller is called back at most once for each start, and not before   *)
(* the task has ended, whatever answers and timeouts come late.            *)
CalledBackOnce ==
  /\ Turns(Caller) <= 1
  /\ Turns(Caller) = 1 => busy /\ Rests

(* template_task.c says of the task in AWAIT: "Here when other module      *)
(* completes or times out".  That is so as long as no wake-up, of a timer  *)
(* left armed or of an answer to a request given up, came while the task   *)
(* was not waiting: such a one is still queued when the task waits again.  *)
WokenByOutcome ==
  curr = Template /\ state[Template] = AWAIT /\ ~stray => ~atWork \/ timer = "expired"

(* Every start is answered: by the module, or else by the timeout. *)
Ends == busy ~> ~busy

\* Nobody can have missed a line since the hooks were installed.
Open == hooks /\ IsReporting(DEBUG) /\ logging
Told(kind, from, to) == \E k \in DOMAIN lines' : lines'[k] = <<kind, from, to>>

TrueLines ==
  LET from == StateName(Template, state[Template])
      to == StateName(Template, state'[Template])
  IN  /\ Open => Told("state", from, to) = (from # to)
      /\ IsReporting(WARN) /\ logging =>
           Told("warn", from, to) = (from # to /\ state'[Template] >= ERR)
      /\ \A k \in DOMAIN lines' :
           \/ lines'[k] \in {<<"state", from, to>>, <<"warn", from, to>>} /\ from # to
           \/ /\ lines'[k][1] = "call"
              /\ curr = NoTask /\ lines'[k][3] = TaskName(curr')
              /\ ~missed => lines'[k][2] = TaskName(ran)

(* The log is true.  A change of the task's state is told from the state   *)
(* it had to the one it gets, an end in an error is told as a warning at   *)
(* any level up to WARN, and no line is told of what did not happen.  A    *)
(* call told names the task called and, unless calls have gone untold      *)
(* since the last such line, the task that ran before it, the idle task    *)
(* left out.                                                               *)
LogTrue == [][TrueLines]_templateVars
================================================================================
