-------------------------------- MODULE TstatApp --------------------------------
(***************************************************************************)
(* One round of the thermostat (tstat_app.c, model_iface.c): pull the      *)
(* model from the remote side over coms_mgr, compute the relays, push the  *)
(* model back, and call on_completion.  Each of the three tasks starts the *)
(* next one, waits, and is transferred to when that one ends.              *)
(*                                                                         *)
(* The sources are a draft: states are named in two ways (START_RQST and   *)
(* START_PULL are one state here, and tstat_app_start starts in            *)
(* START_PULL_MODEL), and coms_mgr_recv is called without the continuation *)
(* it takes, which is the task that then waits for it.                     *)
(***************************************************************************)
EXTENDS ComsMgr

CONSTANTS App,         \* the tstat_app task; model_iface's is Client
          Caller,      \* the on_completion task of tstat_app_start
          GarbageBool  \* what a bool function that ends without a return returns

ASSUME AppAssumption ==
  /\ {App, Caller} \subseteq Tasks
  /\ Cardinality({App, Caller, Client, Coms}) = 4
  /\ GarbageBool \subseteq BOOLEAN

Iface == Client

VARIABLES app, appError,      \* state and had_error of tstat_app
          iface, ifaceError,  \* state and had_error of model_iface
          busy,               \* the caller has not been called back yet
          misread,            \* history: a request that began was taken for a failure
          sound               \* history: the link was neither disturbed nor misjudged

appVars == <<app, appError>>
ifaceVars == <<iface, ifaceError>>
history == <<misread, sound>>
tstatVars == <<vars, comsVars, appVars, ifaceVars, busy, history>>

(* The types of the program's variables.  With them, the loop that reads   *)
(* bytes stays within the client's buffer (coms_mgr.c): what was read is   *)
(* never longer than its capacity.                                         *)
TstatTypeOK ==
  /\ ComsTypeOK
  /\ app \in {"IDLE", "START_PULL", "AWAIT_PULL", "UPDATE", "START_PUSH", "AWAIT_PUSH"}
  /\ iface \in {"IDLE", "START_PULL", "AWAIT_PULL"}
  /\ {appError, ifaceError, busy, misread, sound} \subseteq BOOLEAN

TstatInit ==
  /\ ComsInit
  /\ app = "IDLE" /\ appError = FALSE
  /\ iface = "IDLE" /\ ifaceError = FALSE
  /\ busy = FALSE /\ misread = FALSE /\ sound = TRUE

\* tstat_app_start; the caller starts a round when it knows that none is under way.
Start ==
  /\ curr = NoTask /\ ~busy
  /\ Quiet
  /\ app' = "START_PULL" /\ appError' = FALSE
  /\ asap' = Queued(asap, App)
  /\ busy' = TRUE
  /\ UNCHANGED <<now, irq, deferred, curr, idle, comsVars, ifaceVars, history>>

-------------------------------------------------------------------------------
(* tstat_app_fn, a disjunct per state.                                     *)

\* Fault: the task stays in its state.
AppEndKeepsState(hadError, queue) ==
  /\ app' = app /\ appError' = hadError
  /\ asap' = Queued(queue, Caller)

AppEnd(hadError, queue) ==   \* endgame
  /\ app' = "IDLE" /\ appError' = hadError
  /\ asap' = Queued(queue, Caller)

AppGoes(state, queue) ==
  /\ app' = state
  /\ asap' = queue
  /\ UNCHANGED appError

StartPull ==   \* model_iface_pull ends without a return statement
  /\ app = "START_PULL"
  /\ iface' = "START_PULL" /\ ifaceError' = FALSE
  /\ \E ok \in GarbageBool :
       LET queue == Queued(asap, Iface)
       IN  /\ IF ok THEN AppGoes("AWAIT_PULL", queue) ELSE AppEnd(TRUE, queue)
           /\ misread' = (misread \/ ~ok)

\* Fault: the error of the pull is not looked at before the task waits again.
PulledWaitsOnError ==
  /\ app = "AWAIT_PULL"
  /\ IF ifaceError THEN AppGoes("AWAIT_PULL", asap) ELSE AppGoes("UPDATE", Queued(asap, App))
  /\ UNCHANGED ifaceVars

Pulled ==
  /\ app = "AWAIT_PULL"
  /\ IF ifaceError THEN AppEnd(TRUE, asap) ELSE AppGoes("UPDATE", Queued(asap, App))
  /\ UNCHANGED ifaceVars

Update ==   \* the relays are computed
  /\ app = "UPDATE"
  /\ AppGoes("START_PUSH", Queued(asap, App))
  /\ UNCHANGED ifaceVars

\* model_iface_push: the JSON is never NULL and the result of the write is
\* not looked at, so this always succeeds.
StartPush ==
  /\ app = "START_PUSH"
  /\ AppGoes("AWAIT_PUSH", asap)
  /\ UNCHANGED ifaceVars

Pushed ==
  /\ app = "AWAIT_PUSH"
  /\ AppEnd(ifaceError, asap)
  /\ UNCHANGED ifaceVars

AppRuns ==
  /\ curr = App /\ curr' = NoTask
  /\ \/ app = "IDLE" /\ UNCHANGED <<appVars, ifaceVars, asap, misread>>
     \/ StartPull
     \/ (Pulled \/ Update \/ StartPush \/ Pushed) /\ UNCHANGED misread
  /\ UNCHANGED <<now, irq, deferred, idle, comsVars, busy, sound>>

-------------------------------------------------------------------------------
(* model_iface_fn. *)

\* Fault: the caller is transferred to twice.
IfaceEndTwice(hadError, queue) ==
  /\ iface' = "IDLE" /\ ifaceError' = hadError
  /\ asap' = Queued(Queued(queue, App), App)

IfaceEnd(hadError, queue) ==   \* endgame
  /\ iface' = "IDLE" /\ ifaceError' = hadError
  /\ asap' = Queued(queue, App)

\* Fault: the caller goes on as soon as the request is sent.
RequestHandsOver ==
  /\ iface = "START_PULL"
  /\ Send /\ Recv
  /\ iface' = "AWAIT_PULL"
  /\ asap' = Queued(Queued(asap, Coms), App)
  /\ UNCHANGED <<ifaceError, event, ring, misread>>

Request ==   \* coms_mgr_recv ends without a return statement
  /\ iface = "START_PULL"
  /\ Send /\ Recv
  /\ \E ok \in GarbageBool :
       LET queue == Queued(asap, Coms)
       IN  /\ IF ok
              THEN iface' = "AWAIT_PULL" /\ asap' = queue /\ UNCHANGED ifaceError
              ELSE IfaceEnd(TRUE, queue)
           /\ misread' = (misread \/ ~ok)
  /\ UNCHANGED <<event, ring>>

Reply ==   \* an error of the link or of the JSON ends the pull with an error
  /\ iface = "AWAIT_PULL"
  /\ \E parsed \in BOOLEAN : IfaceEnd(comsError \/ ~parsed, asap)
  /\ UNCHANGED <<comsVars, misread>>

IfaceRuns ==
  /\ curr = Iface /\ curr' = NoTask
  /\ \/ iface = "IDLE" /\ UNCHANGED <<ifaceVars, asap, comsVars, misread>>
     \/ Request \/ Reply
  /\ UNCHANGED <<now, irq, deferred, idle, appVars, busy, sound>>

-------------------------------------------------------------------------------
CallerRuns ==
  /\ curr = Caller /\ curr' = NoTask
  /\ busy' = FALSE
  /\ UNCHANGED <<now, irq, asap, deferred, idle, comsVars, appVars, ifaceVars, history>>

others == <<appVars, ifaceVars, busy, misread>>

\* A receive ends on a character that was not read.
Misjudged == event = ReadEvent /\ coms = "AWAIT_RQST" /\ coms' = "IDLE" /\ received' = received

Schedule == (StepIrq \/ StepAsap \/ StepIdle) /\ UNCHANGED <<comsVars, others, sound>>
CommsRuns == ComsRuns /\ sound' = (sound /\ ~Misjudged) /\ UNCHANGED others
Delivery == ByteArrives /\ UNCHANGED <<others, sound>>
Loss == ByteLost /\ sound' = FALSE /\ UNCHANGED others
Stray == StrayEvent /\ sound' = FALSE /\ UNCHANGED others

TaskRuns == AppRuns \/ IfaceRuns \/ CommsRuns \/ CallerRuns

TstatNext == Start \/ Schedule \/ TaskRuns \/ Delivery \/ Loss \/ Stray

TstatSpec == TstatInit /\ [][TstatNext]_tstatVars
\* The superloop steps, tasks return, and a reply that was sent arrives.
FairTstatSpec ==
  TstatSpec /\ WF_tstatVars(Schedule) /\ WF_tstatVars(TaskRuns) /\ WF_tstatVars(Delivery)

-------------------------------------------------------------------------------
Turns(tasks) ==   \* how often one of these tasks is to run
  Cardinality({k \in DOMAIN asap : asap[k] \in tasks} \union {k \in {0} : curr \in tasks})

(* A round ends once, whatever the link and stray wake-ups do: the caller  *)
(* is called back at most once for each start, and after tstat_app has     *)
(* gone back to its idle state.                                            *)
CompletedOnce ==
  /\ Turns({Caller}) <= 1
  /\ Turns({Caller}) = 1 => busy /\ app = "IDLE"

(* The tasks of a round are one thread of control: only one of tstat_app,  *)
(* model_iface and the caller has a turn at a time, as long as no request  *)
(* that began is taken for a failure.                                      *)
OneThread == ~misread => Turns({App, Iface, Caller}) <= 1

(* tstat_app.c says of the task in AWAIT_PULL_MODEL: "here with updated    *)
(* model state".  When it runs there and sees no error, the pull that it   *)
(* waits for has ended, and not one of an earlier round (again, as long as *)
(* no request that began is taken for a failure).                          *)
ResumedWithModel ==
  curr = App /\ app = "AWAIT_PULL" /\ ~ifaceError /\ ~misread =>
    iface = "IDLE" /\ coms = "IDLE"

(* On a link that has been sound so far, a pull gets the whole reply and   *)
(* no error: no byte that was sent is missing, or left in the UART for the *)
(* next receive, whatever wake-ups the task gets for bytes that it has     *)
(* read already, and whenever the interrupt queue had no place for one.    *)
(* Not sound is a link that lost a byte or strayed, and one on which a     *)
(* receive ended on the character that coms_mgr.c:172 reads uninitialised. *)
WholeMessage ==
  curr = Iface /\ iface = "AWAIT_PULL" /\ sound /\ ~misread =>
    /\ ~comsError
    /\ received \in {Message(n) : n \in MessageSizes}
    /\ ring = <<>> /\ incoming = <<>>

(* A pull ends, with the model or with an error, even if bytes are lost;   *)
(* only stray events that never cease may starve it.                       *)
PullEnds == <>[][~Stray]_tstatVars => (app = "AWAIT_PULL" ~> app # "AWAIT_PULL")

(* tstat_app.c says of on_completion: "called on completion or error". *)
RoundEnds == busy ~> ~busy
===============================================================================
