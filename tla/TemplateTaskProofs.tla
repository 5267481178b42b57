--------------------------- MODULE TemplateTaskProofs ---------------------------
(***************************************************************************)
(* Proofs about TemplateTask for every set of tasks and every capacity of  *)
(* the asap queue.                                                         *)
(***************************************************************************)
EXTENDS TemplateTask, MuSchedProofs, SequenceTheorems

Typed ==
  /\ irq = <<>> /\ deferred = <<>> /\ idle = Idle
  /\ asap \in Seq(Tasks) /\ curr \in Tasks \union {NoTask}
  /\ state \in [Tasks -> IDLE .. ERR_AWAIT_FAILED]

\* The caller has its turn after the task has ended.
CallerAfterEnd ==
  /\ Rests \/ busy
  /\ OneTurn(asap, curr, {Caller})
  /\ NoTurn(asap, curr, {Caller}) \/ (busy /\ Rests)

\* While nothing strayed, the task has the turn that its start gave it, or
\* one that an outcome did, and none that outlives the round.
WokenForCause ==
  ~stray =>
    /\ ~busy => NoTurn(asap, curr, {Template})
    /\ state[Template] = START => OneTurn(asap, curr, {Template})
    /\ state[Template] = AWAIT =>
         NoTurn(asap, curr, {Template}) \/ ~atWork \/ timer = "expired"

\* ... because the caller comes after it in the queue.
CallerLast ==
  ~stray =>
    /\ curr = Caller => NoTurn(asap, curr, {Template})
    /\ \A j, k \in DOMAIN asap : asap[j] = Caller /\ asap[k] = Template => k < j
-------------------------------------------------------------------------------
LEMMA ThreeTasks ==
  /\ {Template, Caller, Idle} \subseteq Tasks
  /\ NoTask \notin {Template, Caller, Idle}
  /\ Template # Caller /\ Template # Idle /\ Caller # Idle
<1>1. \A a, b : IsFiniteSet({a, b}) /\ Cardinality({a, b}) \in 0 .. 2
  <2> SUFFICES ASSUME NEW a, NEW b
               PROVE  IsFiniteSet({a, b}) /\ Cardinality({a, b}) \in 0 .. 2
    OBVIOUS
  <2>1. IsFiniteSet({a}) /\ Cardinality({a}) = 1
    BY FS_Singleton
  <2>2. IsFiniteSet({a} \union {b}) /\ Cardinality({a} \union {b}) \in 1 .. 2
    BY <2>1, FS_AddElement
  <2>3. {a} \union {b} = {a, b}
    OBVIOUS
  <2> QED
    BY <2>2, <2>3
<1>2. \A a, b : {Template, Caller, Idle} # {a, b}
  <2> SUFFICES ASSUME NEW a, NEW b, {Template, Caller, Idle} = {a, b}
               PROVE  FALSE
    OBVIOUS
  <2>1. Cardinality({a, b}) = 3
    BY TemplateAssumption, Zenon
  <2>2. Cardinality({a, b}) \in 0 .. 2
    BY <1>1, Zenon
  <2> QED
    BY <2>1, <2>2
<1>3. /\ {Template, Caller, Idle} # {Template, Caller}
      /\ {Template, Caller, Idle} # {Template, Idle}
  BY <1>2
<1> QED
  BY <1>3, TemplateAssumption, TasksAssumption

-------------------------------------------------------------------------------
(* What the steps do to the turns and to the state of the task. *)

LEMMA TemplateStep ==
  ASSUME Typed, TemplateRuns
  PROVE  /\ curr = Template /\ curr' = NoTask
         /\ UNCHANGED <<irq, deferred, idle, busy, stray>>
         /\ state' \in [Tasks -> IDLE .. ERR_AWAIT_FAILED]
         /\ \/ Rests /\ UNCHANGED <<state, asap, atWork, timer>>
            \/ ~Rests /\ Rests' /\ asap' = Queued(asap, Caller) /\ UNCHANGED <<atWork, timer>>
            \/ state[Template] = START /\ state'[Template] = AWAIT /\ UNCHANGED asap
<1>1. state \in [Tasks -> IDLE .. ERR_AWAIT_FAILED] /\ Template \in Tasks
  BY ThreeTasks DEF Typed
<1>2. \A v \in IDLE .. ERR_AWAIT_FAILED :
        /\ [state EXCEPT ![Template] = v] \in [Tasks -> IDLE .. ERR_AWAIT_FAILED]
        /\ [state EXCEPT ![Template] = v][Template] = v
  BY <1>1
<1>3. /\ {AWAIT, SUCCESS, ERR_START_FAILED, ERR_AWAIT_TIMED_OUT, ERR_AWAIT_FAILED}
           \subseteq IDLE .. ERR_AWAIT_FAILED
      /\ {SUCCESS, ERR_START_FAILED, ERR_AWAIT_TIMED_OUT, ERR_AWAIT_FAILED}
           \intersect {START, AWAIT} = {}
  BY DEF IDLE, START, AWAIT, SUCCESS, ERR_START_FAILED, ERR_AWAIT_TIMED_OUT, ERR_AWAIT_FAILED
<1>4. curr = Template /\ curr' = NoTask /\ UNCHANGED <<irq, deferred, idle, busy, stray>>
  BY DEF TemplateRuns, history
<1>5. CASE Rests /\ UNCHANGED <<state, asap, otherVars>>
  BY <1>1, <1>4, <1>5 DEF otherVars
<1>6. ASSUME NEW v \in {SUCCESS, ERR_START_FAILED, ERR_AWAIT_TIMED_OUT, ERR_AWAIT_FAILED},
             EndGame(v), ~Rests, UNCHANGED otherVars
      PROVE  /\ state' \in [Tasks -> IDLE .. ERR_AWAIT_FAILED]
             /\ Rests' /\ asap' = Queued(asap, Caller) /\ UNCHANGED <<atWork, timer>>
  <2>1. state' = [state EXCEPT ![Template] = v] /\ asap' = Queued(asap, Caller)
    BY <1>6 DEF EndGame, Finish, SetState
  <2>2. state'[Template] = v /\ state' \in [Tasks -> IDLE .. ERR_AWAIT_FAILED]
    BY <1>2, <1>3, <2>1
  <2> QED
    BY <1>3, <1>6, <2>1, <2>2 DEF Rests, otherVars
<1>7. CASE Await
  <2>1. ~Rests /\ UNCHANGED otherVars
    BY <1>7 DEF Await, Rests
  <2>2. \E v \in {SUCCESS, ERR_START_FAILED, ERR_AWAIT_TIMED_OUT, ERR_AWAIT_FAILED} : EndGame(v)
    BY <1>7 DEF Await
  <2> QED
    BY <1>4, <1>6, <2>1, <2>2
<1>8. CASE StartOther
  <2>1. ~Rests /\ state[Template] = START
    BY <1>8 DEF StartOther, Rests
  <2>2. CASE EndGame(ERR_START_FAILED) /\ UNCHANGED otherVars
    BY <1>4, <1>6, <2>1, <2>2
  <2>3. CASE Wait(Template, AWAIT)
    <3>1. state' = [state EXCEPT ![Template] = AWAIT] /\ UNCHANGED asap
      BY <2>3 DEF Wait, SetState
    <3> QED
      BY <1>2, <1>3, <1>4, <2>1, <3>1
  <2> QED
    BY <1>8, <2>2, <2>3 DEF StartOther
<1> QED
  BY <1>5, <1>7, <1>8 DEF TemplateRuns

LEMMA ScheduleStep ==
  ASSUME Typed, Schedule
  PROVE  /\ UNCHANGED <<irq, deferred, idle, state, busy, stray, atWork, timer>>
         /\ \/ asap # <<>> /\ curr' = Head(asap) /\ asap' = Tail(asap)
            \/ curr' = Idle /\ UNCHANGED asap
  BY DEF Schedule, TaskCall, StepIrq, StepAsap, StepIdle, Typed, otherVars

LEMMA StartStep ==
  ASSUME Typed, Start
  PROVE  /\ ~busy /\ busy' = TRUE /\ curr = NoTask
         /\ UNCHANGED <<irq, deferred, curr, idle, stray>>
         /\ state' \in [Tasks -> IDLE .. ERR_AWAIT_FAILED] /\ state'[Template] = START
         /\ asap' = Queued(asap, Template)
<1>1. state' = [state EXCEPT ![Template] = START] /\ asap' = Queued(asap, Template)
  BY DEF Start, Yield, SetState
<1>2. START \in IDLE .. ERR_AWAIT_FAILED
  BY DEF IDLE, START, ERR_AWAIT_FAILED
<1> QED
  BY <1>1, <1>2, ThreeTasks DEF Start, Typed, history

LEMMA WakeStep ==
  ASSUME Typed, Answer \/ Expire
  PROVE  /\ curr = NoTask /\ UNCHANGED <<irq, deferred, curr, idle, state, busy>>
         /\ asap' = Queued(asap, Template)
         /\ stray' = (stray \/ state[Template] # AWAIT)
         /\ ~atWork' \/ timer' = "expired"
  BY DEF Answer, Expire, WakesTemplate, infoVars

\* A step of the caller, of the idle task, of none, or from outside.
LEMMA OtherStep ==
  ASSUME Typed, CallerRuns \/ IdleRuns \/ Configure \/ UNCHANGED templateVars
  PROVE  /\ UNCHANGED <<irq, asap, deferred, idle, state, stray, atWork, timer>>
         /\ curr' \in {curr, NoTask}
         /\ busy' = busy \/ (curr = Caller /\ curr' = NoTask)
  BY DEF CallerRuns, IdleRuns, TaskReturn, Configure, TaskInfoInit, templateVars, vars,
         infoVars, otherVars, history
-------------------------------------------------------------------------------
LEMMA InitTyped == TemplateInit => Typed
<1>1. <<>> \in Seq(Tasks) /\ 0 \in IDLE .. ERR_AWAIT_FAILED
  BY EmptySeq DEF IDLE, ERR_AWAIT_FAILED
<1> QED
  BY <1>1 DEF TemplateInit, InfoInit, Typed

LEMMA StepTyped ==
  ASSUME Typed, [TemplateNext]_templateVars
  PROVE  Typed'
<1>1. /\ irq = <<>> /\ deferred = <<>> /\ idle = Idle
      /\ asap \in Seq(Tasks) /\ curr \in Tasks \union {NoTask}
      /\ state \in [Tasks -> IDLE .. ERR_AWAIT_FAILED]
      /\ Template \in Tasks /\ Caller \in Tasks /\ Idle \in Tasks
  BY ThreeTasks DEF Typed
<1>2. Queued(asap, Template) \in Seq(Tasks) /\ Queued(asap, Caller) \in Seq(Tasks)
  BY <1>1, QueuedItems
<1>3. CASE Schedule
  <2>1. asap # <<>> => Head(asap) \in Tasks /\ Tail(asap) \in Seq(Tasks)
    BY <1>1, HeadTailProperties
  <2> QED
    BY <1>1, <1>3, <2>1, ScheduleStep DEF Typed
<1>4. CASE Start
  BY <1>1, <1>2, <1>4, StartStep DEF Typed
<1>5. CASE TemplateRuns
  BY <1>1, <1>2, <1>5, TemplateStep DEF Typed
<1>6. CASE Answer \/ Expire
  BY <1>1, <1>2, <1>6, WakeStep DEF Typed
<1>7. CASE CallerRuns \/ IdleRuns \/ Configure \/ UNCHANGED templateVars
  BY <1>1, <1>7, OtherStep DEF Typed
<1> QED
  BY <1>3, <1>4, <1>5, <1>6, <1>7 DEF TemplateNext, TaskRuns

LEMMA CallerStep ==
  ASSUME Typed, CallerAfterEnd, [TemplateNext]_templateVars
  PROVE  CallerAfterEnd'
<1> DEFINE S == {Caller}
           No == NoTurn(asap, curr, S)
           One == OneTurn(asap, curr, S)
<1>1. /\ Rests \/ busy
      /\ One
      /\ No \/ (busy /\ Rests)
      /\ NoTask \notin S /\ Template \notin S /\ Idle \notin S
      /\ asap \in Seq(Tasks) /\ Template \in Tasks /\ Caller \in Tasks
  BY ThreeTasks DEF CallerAfterEnd, Typed
<1>2. /\ No => NoTurn(Queued(asap, Template), curr, S)
      /\ One => OneTurn(Queued(asap, Template), curr, S)
      /\ No => OneTurn(Queued(asap, Caller), curr, S)
  BY <1>1, TurnQueued
<1>3. (No => One) /\ (No' => One')
  BY DEF NoTurn, OneTurn
<1>4. SUFFICES (Rests' \/ busy') /\ One' /\ (No' \/ (busy' /\ Rests'))
  BY DEF CallerAfterEnd
<1>5. CASE Schedule
  <2>1. UNCHANGED <<state, busy>>
    BY <1>5, ScheduleStep
  <2>2. (No => No') /\ (One => One')
    <3>1. CASE asap # <<>> /\ curr' = Head(asap) /\ asap' = Tail(asap)
      BY <1>1, <3>1, TurnTaken
    <3>2. CASE curr' = Idle /\ UNCHANGED asap
      BY <1>1, <3>2, TurnEnded
    <3> QED
      BY <1>5, <3>1, <3>2, ScheduleStep
  <2> QED
    BY <1>1, <2>1, <2>2 DEF Rests
<1>6. CASE Start
  <2>1. busy' /\ No'
    BY <1>1, <1>2, <1>6, StartStep
  <2> QED
    BY <1>3, <2>1
<1>7. CASE TemplateRuns
  <2>1. busy' = busy /\ curr' = NoTask
    BY <1>7, TemplateStep
  <2>2. CASE Rests /\ UNCHANGED <<state, asap, atWork, timer>>
    <3>1. (No => No') /\ (One => One')
      BY <1>1, <2>1, <2>2, TurnEnded
    <3> QED
      BY <1>1, <2>1, <2>2, <3>1 DEF Rests
  <2>3. CASE ~Rests /\ Rests' /\ asap' = Queued(asap, Caller)
    <3>1. No /\ busy
      BY <1>1, <2>3
    <3>2. One'
      BY <1>1, <1>2, <2>1, <2>3, <3>1, TurnEnded
    <3> QED
      BY <2>1, <2>3, <3>1, <3>2
  <2>4. CASE state[Template] = START /\ UNCHANGED asap
    <3>1. ~Rests
      BY <2>4 DEF Rests
    <3>2. No'
      BY <1>1, <2>1, <2>4, <3>1, TurnEnded
    <3> QED
      BY <1>1, <1>3, <2>1, <3>1, <3>2
  <2> QED
    BY <1>7, <2>2, <2>3, <2>4, TemplateStep
<1>8. CASE Answer \/ Expire
  <2>1. UNCHANGED <<curr, state, busy>> /\ asap' = Queued(asap, Template)
    BY <1>8, WakeStep
  <2> QED
    BY <1>1, <1>2, <2>1 DEF Rests
<1>9. CASE CallerRuns \/ IdleRuns \/ Configure \/ UNCHANGED templateVars
  <2>1. UNCHANGED <<asap, state>> /\ curr' \in {curr, NoTask}
    BY <1>9, OtherStep
  <2>2. (No => No') /\ (One => One')
    BY <1>1, <2>1, TurnEnded
  <2>3. CASE busy' = busy
    BY <1>1, <2>1, <2>2, <2>3 DEF Rests
  <2>4. CASE curr = Caller /\ curr' = NoTask
    <3>1. ~No
      BY <2>4 DEF NoTurn
    <3>2. Rests /\ No'
      BY <1>1, <2>1, <2>4, <3>1, TurnEnded
    <3> QED
      BY <1>3, <2>1, <3>2 DEF Rests
  <2> QED
    BY <1>9, <2>3, <2>4, OtherStep
<1> QED
  BY <1>5, <1>6, <1>7, <1>8, <1>9 DEF TemplateNext, TaskRuns

LEMMA LastStep ==
  ASSUME Typed, CallerAfterEnd, WokenForCause, CallerLast, [TemplateNext]_templateVars
  PROVE  CallerLast'
<1>1. SUFFICES ASSUME ~stray'
               PROVE  /\ curr' = Caller => NoTurn(asap', curr', {Template})
                      /\ \A j, k \in DOMAIN asap' :
                           asap'[j] = Caller /\ asap'[k] = Template => k < j
  BY DEF CallerLast
<1>2. ~stray
  <2>1. CASE Answer \/ Expire
    BY <1>1, <2>1, WakeStep
  <2>2. CASE ~(Answer \/ Expire)
    BY <1>1, <2>2, ScheduleStep, StartStep, TemplateStep, OtherStep DEF TemplateNext, TaskRuns
  <2> QED
    BY <2>1, <2>2
<1>3. /\ curr = Caller => NoTurn(asap, curr, {Template})
      /\ \A j, k \in DOMAIN asap : asap[j] = Caller /\ asap[k] = Template => k < j
      /\ NoTurn(asap, curr, {Caller}) \/ (busy /\ Rests)
      /\ asap \in Seq(Tasks) /\ DOMAIN asap = 1 .. Len(asap) /\ Len(asap) \in Nat
      /\ Template # Caller /\ Template # NoTask /\ Caller # NoTask /\ Caller # Idle
      /\ Template # Idle /\ Template \in Tasks /\ Caller \in Tasks
  BY <1>2, ThreeTasks DEF CallerLast, CallerAfterEnd, Typed
<1>4. ASSUME UNCHANGED asap, curr' \in {curr, NoTask, Idle}
      PROVE  CallerLast'
  BY <1>3, <1>4, ThreeTasks DEF CallerLast, NoTurn
<1>5. ASSUME asap' = Queued(asap, Template), curr' = curr, NoTurn(asap, curr, {Caller})
      PROVE  CallerLast'
  <2>1. \A k \in DOMAIN asap' : asap'[k] # Caller
    <3>1. \A k \in DOMAIN Queued(asap, Template) :
            \/ k \in DOMAIN asap /\ Queued(asap, Template)[k] = asap[k]
            \/ Queued(asap, Template)[k] = Template
      BY <1>3, QueuedItems
    <3> QED
      BY <1>3, <1>5, <3>1 DEF NoTurn
  <2> QED
    BY <1>5, <2>1 DEF CallerLast, NoTurn
<1>6. CASE Schedule
  <2>1. CASE asap # <<>> /\ curr' = Head(asap) /\ asap' = Tail(asap)
    <3>1. /\ 1 \in DOMAIN asap /\ Head(asap) = asap[1] /\ Len(asap) # 0
          /\ DOMAIN asap' = 1 .. Len(asap) - 1
          /\ \A k \in DOMAIN asap' : asap'[k] = asap[k + 1]
      BY <1>3, <2>1, HeadTailProperties, EmptySeq
    <3>2. \A k \in DOMAIN asap' : k + 1 \in DOMAIN asap /\ k \in Nat /\ ~(k + 1 < 1)
      BY <1>3, <3>1
    <3>3. ASSUME curr' = Caller
          PROVE  NoTurn(asap', curr', {Template})
      <4>1. asap[1] = Caller
        BY <2>1, <3>1, <3>3
      <4>2. \A k \in DOMAIN asap' : asap'[k] # Template
        BY <1>3, <3>1, <3>2, <4>1
      <4> QED
        BY <1>3, <3>3, <4>2 DEF NoTurn
    <3>4. ASSUME NEW i \in DOMAIN asap', NEW k \in DOMAIN asap',
                 asap'[i] = Caller, asap'[k] = Template
          PROVE  k < i
      <4>1. k + 1 < i + 1 /\ k \in Nat /\ i \in Nat
        BY <1>3, <3>1, <3>2, <3>4
      <4> QED
        BY <4>1
    <3> QED
      BY <3>3, <3>4
  <2>2. CASE curr' = Idle /\ UNCHANGED asap
    BY <1>1, <1>4, <2>2 DEF CallerLast
  <2> QED
    BY <1>6, <2>1, <2>2, ScheduleStep
<1>7. CASE Start
  <2>1. NoTurn(asap, curr, {Caller}) /\ asap' = Queued(asap, Template) /\ curr' = curr
    BY <1>3, <1>7, StartStep
  <2> QED
    BY <1>1, <1>5, <2>1 DEF CallerLast
<1>8. CASE TemplateRuns
  <2>1. curr' = NoTask
    BY <1>8, TemplateStep
  <2>2. CASE asap' = asap
    BY <1>1, <1>4, <2>1, <2>2 DEF CallerLast
  <2>3. CASE ~Rests /\ asap' = Queued(asap, Caller)
    <3>1. \A k \in DOMAIN asap : asap[k] # Caller
      BY <1>3, <2>3 DEF NoTurn
    <3>2. \A k \in DOMAIN asap' :
            \/ k \in DOMAIN asap /\ asap'[k] = asap[k]
            \/ k = Len(asap) + 1 /\ asap'[k] = Caller
      BY <1>3, <2>3, QueuedItems
    <3>3. ASSUME NEW i \in DOMAIN asap', NEW k \in DOMAIN asap',
                 asap'[i] = Caller, asap'[k] = Template
          PROVE  k < i
      <4>1. i = Len(asap) + 1 /\ k \in 1 .. Len(asap)
        BY <1>3, <3>1, <3>2, <3>3
      <4> QED
        BY <1>3, <4>1
    <3> QED
      BY <1>3, <2>1, <3>3
  <2> QED
    BY <1>8, <2>2, <2>3, TemplateStep
<1>9. CASE Answer \/ Expire
  <2>1. asap' = Queued(asap, Template) /\ curr' = curr /\ state[Template] = AWAIT
    BY <1>1, <1>9, WakeStep
  <2>2. NoTurn(asap, curr, {Caller})
    BY <1>3, <2>1 DEF Rests
  <2> QED
    BY <1>1, <1>5, <2>1, <2>2 DEF CallerLast
<1>10. CASE CallerRuns \/ IdleRuns \/ Configure \/ UNCHANGED templateVars
  <2>1. UNCHANGED asap /\ curr' \in {curr, NoTask}
    BY <1>10, OtherStep
  <2> QED
    BY <1>1, <1>4, <2>1 DEF CallerLast
<1> QED
  BY <1>6, <1>7, <1>8, <1>9, <1>10 DEF TemplateNext, TaskRuns

LEMMA CauseStep ==
  ASSUME Typed, CallerAfterEnd, WokenForCause, CallerLast, [TemplateNext]_templateVars
  PROVE  WokenForCause'
<1> DEFINE S == {Template}
           No == NoTurn(asap, curr, S)
           One == OneTurn(asap, curr, S)
<1>1. SUFFICES ASSUME ~stray'
               PROVE  /\ ~busy' => No'
                      /\ state'[Template] = START => One'
                      /\ state'[Template] = AWAIT => No' \/ ~atWork' \/ timer' = "expired"
  BY DEF WokenForCause
<1>2. ~stray
  <2>1. CASE Answer \/ Expire
    BY <1>1, <2>1, WakeStep
  <2>2. CASE ~(Answer \/ Expire)
    BY <1>1, <2>2, ScheduleStep, StartStep, TemplateStep, OtherStep DEF TemplateNext, TaskRuns
  <2> QED
    BY <2>1, <2>2
<1>3. /\ ~busy => No
      /\ state[Template] = START => One
      /\ state[Template] = AWAIT => No \/ ~atWork \/ timer = "expired"
      /\ curr = Caller => No
      /\ Rests \/ busy
      /\ asap \in Seq(Tasks) /\ START # AWAIT
      /\ NoTask \notin S /\ Caller \notin S /\ Idle \notin S
      /\ Template \in Tasks /\ Caller \in Tasks
  BY <1>2, ThreeTasks DEF WokenForCause, CallerLast, CallerAfterEnd, Typed, START, AWAIT
<1>4. (No => One) /\ (No' => One')
  BY DEF NoTurn, OneTurn
<1>5. No => OneTurn(Queued(asap, Template), curr, S)
  BY <1>3, TurnQueued
<1>6. CASE Schedule
  <2>1. (No => No') /\ (One => One')
    <3>1. CASE asap # <<>> /\ curr' = Head(asap) /\ asap' = Tail(asap)
      BY <1>3, <3>1, TurnTaken
    <3>2. CASE curr' = Idle /\ UNCHANGED asap
      BY <1>3, <3>2, TurnEnded
    <3> QED
      BY <1>6, <3>1, <3>2, ScheduleStep
  <2> QED
    BY <1>3, <1>6, <2>1, ScheduleStep
<1>7. CASE Start
  <2>1. One' /\ busy' /\ state'[Template] = START
    BY <1>3, <1>5, <1>7, StartStep
  <2> QED
    BY <1>3, <2>1
<1>8. CASE TemplateRuns
  <2>1. busy' = busy /\ curr' = NoTask /\ curr \in S
    BY <1>8, TemplateStep
  <2>2. ~No
    BY <2>1 DEF NoTurn
  <2>3. CASE Rests /\ UNCHANGED <<state, asap, atWork, timer>>
    BY <1>3, <2>1, <2>2, <2>3 DEF Rests
  <2>4. CASE ~Rests /\ Rests'
    BY <1>3, <2>1, <2>2, <2>4 DEF Rests
  <2>5. CASE state[Template] = START /\ UNCHANGED asap
    <3>1. No'
      BY <1>3, <2>1, <2>5, TurnEnded
    <3> QED
      BY <1>4, <3>1
  <2> QED
    BY <1>8, <2>3, <2>4, <2>5, TemplateStep
<1>9. CASE Answer \/ Expire
  <2>1. /\ UNCHANGED <<curr, state, busy>> /\ asap' = Queued(asap, Template)
        /\ state[Template] = AWAIT /\ (~atWork' \/ timer' = "expired")
    BY <1>1, <1>9, WakeStep
  <2>2. ~Rests
    BY <2>1 DEF Rests
  <2> QED
    BY <1>3, <2>1, <2>2
<1>10. CASE CallerRuns \/ IdleRuns \/ Configure \/ UNCHANGED templateVars
  <2>1. UNCHANGED <<asap, state, atWork, timer>> /\ curr' \in {curr, NoTask}
    BY <1>10, OtherStep
  <2>2. (No => No') /\ (One => One')
    BY <1>3, <2>1, TurnEnded
  <2>3. ~busy' => No
    BY <1>3, <1>10, OtherStep
  <2> QED
    BY <1>3, <2>1, <2>2, <2>3
<1> QED
  BY <1>6, <1>7, <1>8, <1>9, <1>10 DEF TemplateNext, TaskRuns
-------------------------------------------------------------------------------
(* The theorems. *)

TemplateInv == Typed /\ CallerAfterEnd /\ WokenForCause /\ CallerLast

LEMMA SpecTemplateInv == TemplateSpec => []TemplateInv
<1>1. TemplateInit => TemplateInv
  <2> SUFFICES ASSUME TemplateInit PROVE TemplateInv
    OBVIOUS
  <2>1. asap = <<>> /\ curr = NoTask /\ state[Template] = IDLE
    BY ThreeTasks DEF TemplateInit, InfoInit, IDLE
  <2>2. /\ NoTurn(asap, curr, {Template}) /\ NoTurn(asap, curr, {Caller})
        /\ OneTurn(asap, curr, {Caller}) /\ Rests
    BY <2>1, ThreeTasks DEF NoTurn, OneTurn, Rests, IDLE, START, AWAIT
  <2>3. CallerLast
    BY <2>1, ThreeTasks DEF CallerLast
  <2> QED
    BY <2>2, <2>3, InitTyped DEF TemplateInv, CallerAfterEnd, WokenForCause, Rests
<1>2. TemplateInv /\ [TemplateNext]_templateVars => TemplateInv'
  BY StepTyped, CallerStep, CauseStep, LastStep DEF TemplateInv
<1> QED
  BY <1>1, <1>2, PTL DEF TemplateSpec

LEMMA CountedTurns ==
  ASSUME asap \in Seq(Tasks), NEW t
  PROVE  /\ OneTurn(asap, curr, {t}) => Turns(t) <= 1
         /\ NoTurn(asap, curr, {t}) => Turns(t) = 0
<1>1. /\ OneTurn(asap, curr, {t}) => Cardinality(Places(asap, curr, {t})) <= 1
      /\ NoTurn(asap, curr, {t}) => Cardinality(Places(asap, curr, {t})) = 0
  BY TurnsCounted
<1>2. Places(asap, curr, {t}) = {k \in DOMAIN asap : asap[k] = t} \union {k \in {0} : curr = t}
  BY DEF Places
<1> QED
  BY <1>1, <1>2 DEF Turns

(* The caller of template_mgr_start is called back at most once for each   *)
(* start, and not before the task has ended, whatever comes late.          *)
THEOREM CallbackOnce == FairTemplateSpec => []CalledBackOnce
<1>1. TemplateInv => CalledBackOnce
  <2> SUFFICES ASSUME TemplateInv PROVE CalledBackOnce
    OBVIOUS
  <2>1. asap \in Seq(Tasks)
    BY DEF TemplateInv, Typed
  <2>2. /\ OneTurn(asap, curr, {Caller}) => Turns(Caller) <= 1
        /\ NoTurn(asap, curr, {Caller}) => Turns(Caller) = 0
    BY <2>1, CountedTurns
  <2> QED
    BY <2>2 DEF TemplateInv, CallerAfterEnd, CalledBackOnce
<1> QED
  BY SpecTemplateInv, <1>1, PTL DEF FairTemplateSpec

(* The task in AWAIT runs when the other module is done or the time is up, *)
(* until a first wake-up strays.                                           *)
THEOREM OutcomeWakes == FairTemplateSpec => []WokenByOutcome
<1>1. TemplateInv => WokenByOutcome
  BY DEF TemplateInv, WokenForCause, WokenByOutcome, NoTurn
<1> QED
  BY SpecTemplateInv, <1>1, PTL DEF FairTemplateSpec
-------------------------------------------------------------------------------
(* The log, when the table of task_info gives every state of the task a    *)
(* name of its own, as that of template_task.c does.                       *)

NamesDiffer ==
  /\ Template \in DOMAIN StateNames
  /\ \A v, w \in IDLE .. ERR_AWAIT_FAILED :
       StateName(Template, v) = StateName(Template, w) => v = w

\* The hook knows the task that ran last, unless a call went by unseen.
KnowsLast == ~missed => prev = ran

Entries(l) == {l[k] : k \in DOMAIN l}

LEMMA LogEntries ==
  ASSUME NEW l, NEW x
  PROVE  /\ Log(l, x) \in {<<>>, <<x>>}
         /\ Entries(Log(l, x)) = IF IsReporting(l) /\ logging THEN {x} ELSE {}
<1>1. Entries(<<>>) = {} /\ Entries(<<x>>) = {x}
  BY DEF Entries
<1> QED
  BY <1>1 DEF Log, Given, IsReporting

LEMMA JoinedEntries ==
  ASSUME NEW T, NEW p \in Seq(T), NEW q \in Seq(T)
  PROVE  Entries(p \o q) = Entries(p) \union Entries(q)
<1> DEFINE r == p \o q
<1>1. /\ Len(p) \in Nat /\ DOMAIN p = 1 .. Len(p) /\ Len(q) \in Nat /\ DOMAIN q = 1 .. Len(q)
      /\ DOMAIN r = 1 .. Len(p) + Len(q)
      /\ \A i \in 1 .. Len(p) + Len(q) : r[i] = IF i <= Len(p) THEN p[i] ELSE q[i - Len(p)]
  OBVIOUS
<1> HIDE DEF r
<1>2. \A i \in DOMAIN r : r[i] \in Entries(p) \union Entries(q)
  <2> SUFFICES ASSUME NEW i \in DOMAIN r PROVE r[i] \in Entries(p) \union Entries(q)
    OBVIOUS
  <2>1. CASE i <= Len(p)
    BY <1>1, <2>1 DEF Entries
  <2>2. CASE ~(i <= Len(p))
    <3>1. i - Len(p) \in DOMAIN q /\ r[i] = q[i - Len(p)]
      BY <1>1, <2>2
    <3> QED
      BY <3>1 DEF Entries
  <2> QED
    BY <2>1, <2>2
<1>3. \A i \in DOMAIN p : p[i] \in Entries(r)
  BY <1>1 DEF Entries
<1>4. \A i \in DOMAIN q : q[i] \in Entries(r)
  <2> SUFFICES ASSUME NEW i \in DOMAIN q PROVE q[i] \in Entries(r)
    OBVIOUS
  <2>1. Len(p) + i \in DOMAIN r /\ r[Len(p) + i] = q[i]
    BY <1>1
  <2> QED
    BY <2>1 DEF Entries
<1>5. Entries(r) = Entries(p) \union Entries(q)
  BY <1>2, <1>3, <1>4 DEF Entries
<1> QED
  BY <1>5 DEF r

LEMMA SetStateLines ==
  ASSUME Typed, NamesDiffer, NEW v \in IDLE .. ERR_AWAIT_FAILED, NEW x, NEW before \in {<<>>, <<x>>},
         SetState(Template, v, before)
  PROVE  LET change == <<"state", StateName(Template, state[Template]), StateName(Template, v)>>
         IN  /\ state'[Template] = v
             /\ Entries(lines') =
                  Entries(before) \union
                    (IF Open /\ v # state[Template] THEN {change} ELSE {})
<1> DEFINE change == <<"state", StateName(Template, state[Template]), StateName(Template, v)>>
           hook == StateHook(Template, v)
<1>1. /\ hook \in {<<>>, <<change>>}
      /\ Entries(hook) = IF Open /\ v # state[Template] THEN {change} ELSE {}
  <2>1. Entries(<<>>) = {}
    BY DEF Entries
  <2> QED
    BY <2>1, LogEntries DEF StateHook, StateLine, NamesDiffer, Open
<1>2. state'[Template] = v /\ lines' = before \o hook
  BY ThreeTasks DEF SetState, Typed
<1> HIDE DEF hook, change
<1>3. before \in Seq({x, change}) /\ hook \in Seq({x, change})
  <2>1. \A z \in {x, change} : <<>> \in Seq({x, change}) /\ <<z>> \in Seq({x, change})
    OBVIOUS
  <2> QED
    BY <1>1, <2>1
<1>4. Entries(before \o hook) = Entries(before) \union Entries(hook)
  BY <1>3, JoinedEntries
<1> QED
  BY <1>1, <1>2, <1>4 DEF change

\* What is told of the state in a step, and what of calls.
LEMMA StateTold ==
  ASSUME Typed, CallerAfterEnd, NamesDiffer, TemplateRuns \/ Start
  PROVE  TrueLines
<1> DEFINE from == StateName(Template, state[Template])
           to == StateName(Template, state'[Template])
           change == <<"state", from, to>>
           warning == <<"warn", from, to>>
<1>1. ASSUME Open => ((change \in Entries(lines')) <=> from # to),
             IsReporting(WARN) /\ logging =>
               ((warning \in Entries(lines')) <=> (from # to /\ state'[Template] >= ERR)),
             \A e \in Entries(lines') : e \in {change, warning} /\ from # to
      PROVE  TrueLines
  BY <1>1 DEF TrueLines, Told, Entries
<1>2. /\ state \in [Tasks -> IDLE .. ERR_AWAIT_FAILED] /\ Template \in Tasks
      /\ state' \in [Tasks -> IDLE .. ERR_AWAIT_FAILED]
  BY ThreeTasks, TemplateStep, StartStep DEF Typed
<1>3. (from = to) <=> (state[Template] = state'[Template])
  BY <1>2 DEF NamesDiffer
<1>4. Entries(<<>>) = {} /\ change # warning
  BY DEF Entries
<1>5. ASSUME NEW v \in IDLE .. ERR_AWAIT_FAILED, state[Template] # v,
             SetState(Template, v,
               IF v >= ERR
               THEN Log(WARN, <<"warn", StateName(Template, state[Template]), StateName(Template, v)>>)
               ELSE <<>>)
      PROVE  TrueLines
  <2> DEFINE x == <<"warn", StateName(Template, state[Template]), StateName(Template, v)>>
             before == IF v >= ERR THEN Log(WARN, x) ELSE <<>>
  <2>1. /\ before \in {<<>>, <<x>>}
        /\ Entries(before) = IF v >= ERR /\ IsReporting(WARN) /\ logging THEN {x} ELSE {}
    BY <1>4, LogEntries
  <2>2. SetState(Template, v, before)
    BY <1>5
  <2> HIDE DEF before, x
  <2>3. /\ state'[Template] = v
        /\ Entries(lines') = Entries(before) \union
             (IF Open /\ v # state[Template]
              THEN {<<"state", StateName(Template, state[Template]), StateName(Template, v)>>} ELSE {})
    BY <1>5, <2>1, <2>2, SetStateLines
  <2>4. x = warning
    BY <2>3 DEF x
  <2>5. Entries(lines') = (IF v >= ERR /\ IsReporting(WARN) /\ logging THEN {warning} ELSE {})
                            \union (IF Open THEN {change} ELSE {})
    BY <1>5, <2>1, <2>3, <2>4
  <2>6. from # to /\ state'[Template] = v
    BY <1>3, <1>5, <2>3
  <2> HIDE DEF from, to, change, warning
  <2>7. Open => ((change \in Entries(lines')) <=> from # to)
    BY <1>4, <2>5, <2>6
  <2>8. IsReporting(WARN) /\ logging =>
          ((warning \in Entries(lines')) <=> (from # to /\ state'[Template] >= ERR))
    BY <1>4, <2>5, <2>6
  <2>9. \A e \in Entries(lines') : e \in {change, warning} /\ from # to
    BY <2>5, <2>6
  <2> QED
    BY <1>1, <2>7, <2>8, <2>9
<1>6. CASE lines' = <<>> /\ UNCHANGED state
  BY <1>1, <1>3, <1>4, <1>6
<1>7. CASE Start
  <2>1. SetState(Template, START, <<>>) /\ state[Template] # START
    BY <1>7 DEF Start, Yield, CallerAfterEnd, Rests
  <2>2. START \in IDLE .. ERR_AWAIT_FAILED /\ ~(START >= ERR)
    BY DEF START, ERR, IDLE, ERR_AWAIT_FAILED
  <2> QED
    BY <1>5, <2>1, <2>2
<1>8. CASE TemplateRuns
  <2>1. CASE Rests
    BY <1>6, <1>8, <2>1 DEF TemplateRuns, Rests, StartOther, Await
  <2>2. ASSUME NEW v \in SUCCESS .. ERR_AWAIT_FAILED, EndGame(v), ~Rests
        PROVE  TrueLines
    <3>1. v \in IDLE .. ERR_AWAIT_FAILED /\ state[Template] # v
      BY <2>2 DEF Rests, IDLE, START, AWAIT, SUCCESS, ERR_AWAIT_FAILED
    <3>2. SetState(Template, v,
            IF v >= ERR
            THEN Log(WARN, <<"warn", StateName(Template, state[Template]), StateName(Template, v)>>)
            ELSE <<>>)
      BY <2>2 DEF EndGame, Finish
    <3> QED
      BY <1>5, <3>1, <3>2
  <2>3. CASE StartOther
    <3>1. CASE EndGame(ERR_START_FAILED)
      BY <2>2, <2>3, <3>1 DEF StartOther, Rests, SUCCESS, ERR_START_FAILED, ERR_AWAIT_FAILED
    <3>2. CASE Wait(Template, AWAIT)
      <4>1. /\ AWAIT \in IDLE .. ERR_AWAIT_FAILED /\ ~(AWAIT >= ERR) /\ state[Template] # AWAIT
            /\ SetState(Template, AWAIT, <<>>)
        BY <2>3, <3>2 DEF StartOther, Wait, START, AWAIT, ERR, IDLE, ERR_AWAIT_FAILED
      <4> QED
        BY <1>5, <4>1
    <3> QED
      BY <2>3, <3>1, <3>2 DEF StartOther
  <2>4. CASE Await
    <3>1. \E v \in {SUCCESS, ERR_AWAIT_TIMED_OUT, ERR_AWAIT_FAILED} : EndGame(v)
      BY <2>4 DEF Await
    <3> QED
      BY <2>2, <2>4, <3>1 DEF Await, Rests, SUCCESS, ERR_AWAIT_TIMED_OUT, ERR_AWAIT_FAILED
  <2> QED
    BY <1>8, <2>1, <2>3, <2>4 DEF TemplateRuns
<1> QED
  BY <1>7, <1>8

LEMMA CallTold ==
  ASSUME Typed, KnowsLast, Schedule
  PROVE  TrueLines /\ KnowsLast'
<1> DEFINE from == StateName(Template, state[Template])
           to == StateName(Template, state'[Template])
           call == <<"call", TaskName(prev), TaskName(curr')>>
           tells == hooks /\ IsReporting(DEBUG) /\ curr' \notin {idle, prev}
<1>1. UNCHANGED state /\ curr = NoTask /\ curr' # NoTask
  <2>1. asap # <<>> => Head(asap) \in Tasks
    BY HeadTailProperties DEF Typed
  <2> QED
    BY <2>1, ThreeTasks, TasksAssumption, ScheduleStep
    DEF Schedule, TaskCall, StepIrq, StepAsap, StepIdle, Typed
<1>2. /\ prev' = IF tells THEN curr' ELSE prev
      /\ lines' = IF tells THEN Log(DEBUG, call) ELSE <<>>
  BY <1>1 DEF Schedule, TaskCall, CallHook
<1>3. \A k \in DOMAIN lines' : lines'[k] = call
  BY <1>2, LogEntries
<1>4. ran' = (IF curr' = Idle THEN ran ELSE curr')
      /\ missed' = IF curr' = Idle THEN missed
                   ELSE lines' = <<>> /\ (missed \/ ~hooks \/ ~IsReporting(DEBUG))
  BY <1>1 DEF Schedule
<1>5. from = to
  BY <1>1
<1>6. call[1] = "call" /\ call[2] = TaskName(prev) /\ call[3] = TaskName(curr')
  OBVIOUS
<1>7. call \notin {<<"state", from, to>>, <<"warn", from, to>>}
  OBVIOUS
<1> HIDE DEF call
<1>8. TrueLines
  BY <1>1, <1>3, <1>5, <1>6, <1>7 DEF TrueLines, Told, KnowsLast
<1>9. KnowsLast'
  <2>1. idle = Idle
    BY DEF Typed
  <2>2. CASE curr' = Idle
    BY <1>2, <1>4, <2>1, <2>2 DEF KnowsLast
  <2>3. CASE curr' # Idle /\ lines' # <<>>
    BY <1>2, <1>4, <2>3 DEF KnowsLast
  <2>4. CASE curr' # Idle /\ lines' = <<>>
    BY <1>2, <1>4, <2>1, <2>4 DEF KnowsLast
  <2> QED
    BY <2>2, <2>3, <2>4
<1> QED
  BY <1>8, <1>9

LEMMA NothingTold ==
  ASSUME lines' = <<>>, UNCHANGED state
  PROVE  TrueLines
<1>1. StateName(Template, state[Template]) = StateName(Template, state'[Template])
  OBVIOUS
<1>2. \A k \in DOMAIN lines' : FALSE
  OBVIOUS
<1> QED
  BY <1>1, <1>2 DEF TrueLines, Told

LEMMA KnowsStep ==
  ASSUME Typed, KnowsLast, [TemplateNext]_templateVars
  PROVE  KnowsLast'
<1>1. CASE Schedule
  BY <1>1, CallTold
<1>2. CASE ~Schedule
  <2>1. UNCHANGED <<prev, ran, missed>>
    BY <1>2 DEF TemplateNext, TaskRuns, Start, TemplateRuns, CallerRuns, IdleRuns, Answer, Expire,
                WakesTemplate, Configure, TaskInfoInit, templateVars, infoVars, history
  <2> QED
    BY <2>1 DEF KnowsLast
<1> QED
  BY <1>1, <1>2

(* Every line of the log tells a change or a call that the step is, and    *)
(* the changes and errors that are to be told are.                         *)
THEOREM LogNeverLies ==
  ASSUME NamesDiffer PROVE FairTemplateSpec => LogTrue
<1>1. TemplateInit => KnowsLast
  BY DEF TemplateInit, InfoInit, KnowsLast
<1>2. TemplateInv /\ KnowsLast /\ [TemplateNext]_templateVars => KnowsLast'
  BY KnowsStep DEF TemplateInv
<1>3. TemplateInv /\ KnowsLast /\ [TemplateNext]_templateVars => [TrueLines]_templateVars
  <2> SUFFICES ASSUME Typed, CallerAfterEnd, KnowsLast, TemplateNext PROVE TrueLines
    BY DEF TemplateInv
  <2>1. CASE TemplateRuns \/ Start
    BY <2>1, NamesDiffer, StateTold
  <2>2. CASE Schedule
    BY <2>2, CallTold
  <2>3. CASE CallerRuns \/ IdleRuns \/ Answer \/ Expire \/ Configure
    <3>1. lines' = <<>> /\ UNCHANGED state
      BY <2>3 DEF CallerRuns, IdleRuns, Answer, Expire, WakesTemplate, Configure, TaskInfoInit,
                  infoVars
    <3> QED
      BY <3>1, NothingTold
  <2> QED
    BY <2>1, <2>2, <2>3 DEF TemplateNext, TaskRuns
<1> QED
  BY SpecTemplateInv, <1>1, <1>2, <1>3, PTL DEF TemplateSpec, FairTemplateSpec, LogTrue
===============================================================================
