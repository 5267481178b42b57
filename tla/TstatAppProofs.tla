----------------------------- MODULE TstatAppProofs -----------------------------
(***************************************************************************)
(* Proofs about TstatApp for every set of tasks, every capacity of the     *)
(* queues, every buffer and every size of the messages: what holds of a    *)
(* round whatever the link does, and that it reads a whole message on a    *)
(* sound one.                                                              *)
(***************************************************************************)
EXTENDS TstatApp, MuSchedProofs, SequenceTheorems

Thread == {App, Iface, Caller}   \* the tasks that hand the control to one another

\* Only Coms is scheduled by interrupts, and nothing is deferred.
Typed ==
  /\ TstatTypeOK
  /\ irq \in Seq({Coms}) /\ deferred = <<>> /\ idle = NoTask

\* The caller has its turn after the round, which it has asked for.
CallerAfterRound ==
  /\ app # "IDLE" => busy
  /\ OneTurn(asap, curr, {Caller})
  /\ NoTurn(asap, curr, {Caller}) \/ (busy /\ app = "IDLE")

\* A task of the thread, the receive or nobody has the control, and nobody
\* has it between two rounds.
ControlHeldOnce ==
  ~misread =>
    /\ OneTurn(asap, curr, Thread)
    /\ coms # "IDLE" => NoTurn(asap, curr, Thread)
    /\ ~busy => NoTurn(asap, curr, Thread) /\ coms = "IDLE"

\* tstat_app is woken in AWAIT_PULL only by the end of the pull.
WokenByPull ==
  ~misread /\ app = "AWAIT_PULL" => NoTurn(asap, curr, {App}) \/ iface = "IDLE"

\* The message is cut in three: what was read, what is in the ring, and what
\* is still to come.
OnTheWay(n) ==
  \E r, s \in 0 .. n :
    /\ r <= s /\ r < n
    /\ received = SubSeq(Message(n), 1, r)
    /\ ring = SubSeq(Message(n), r + 1, s)
    /\ incoming = SubSeq(Message(n), s + 1, n)

NothingLost ==
  sound /\ ~misread =>
    /\ event = ReadEvent
    /\ coms # "IDLE" => \E n \in MessageSizes : OnTheWay(n)
    /\ coms = "IDLE" => ring = <<>> /\ incoming = <<>>
    /\ coms = "IDLE" /\ iface = "AWAIT_PULL" =>
         ~comsError /\ received \in {Message(n) : n \in MessageSizes}
-------------------------------------------------------------------------------
LEMMA FourTasks ==
  /\ {App, Iface, Caller, Coms} \subseteq Tasks /\ Coms \in IsrTasks
  /\ NoTask \notin {App, Iface, Caller, Coms}
  /\ App # Iface /\ App # Caller /\ App # Coms
  /\ Iface # Caller /\ Iface # Coms /\ Caller # Coms
<1>1. \A a, b, c : IsFiniteSet({a, b, c}) /\ Cardinality({a, b, c}) \in 0 .. 3
  <2> SUFFICES ASSUME NEW a, NEW b, NEW c
               PROVE  IsFiniteSet({a, b, c}) /\ Cardinality({a, b, c}) \in 0 .. 3
    OBVIOUS
  <2>1. IsFiniteSet({a}) /\ Cardinality({a}) = 1
    BY FS_Singleton
  <2>2. IsFiniteSet({a} \union {b}) /\ Cardinality({a} \union {b}) \in 1 .. 2
    BY <2>1, FS_AddElement
  <2>3. /\ IsFiniteSet(({a} \union {b}) \union {c})
        /\ Cardinality(({a} \union {b}) \union {c}) \in 1 .. 3
    BY <2>2, FS_AddElement
  <2>4. ({a} \union {b}) \union {c} = {a, b, c}
    OBVIOUS
  <2> QED
    BY <2>3, <2>4
<1>2. \A a, b, c : {App, Caller, Client, Coms} # {a, b, c}
  <2> SUFFICES ASSUME NEW a, NEW b, NEW c, {App, Caller, Client, Coms} = {a, b, c}
               PROVE  FALSE
    OBVIOUS
  <2>1. Cardinality({a, b, c}) = 4
    BY AppAssumption, Zenon
  <2>2. Cardinality({a, b, c}) \in 0 .. 3
    BY <1>1, Zenon
  <2> QED
    BY <2>1, <2>2
<1>3. /\ {App, Caller, Client, Coms} # {App, Caller, Coms}
      /\ {App, Caller, Client, Coms} # {App, Client, Coms}
      /\ {App, Caller, Client, Coms} # {App, Caller, Client}
  BY <1>2
<1>4. /\ App # Client /\ App # Caller /\ App # Coms
      /\ Client # Caller /\ Client # Coms /\ Caller # Coms
  BY <1>3
<1> QED
  BY <1>4, AppAssumption, ComsAssumption, TasksAssumption DEF Iface

LEMMA QueuedTyped ==
  ASSUME NEW q \in Seq(Tasks \union {NoTask}), Len(q) <= MaxAsap, NEW t \in Tasks
  PROVE  Queued(q, t) \in Seq(Tasks \union {NoTask}) /\ Len(Queued(q, t)) <= MaxAsap
  BY QueuedItems

LEMMA ReadBytesTyped ==
  ASSUME Typed, ReadBytes
  PROVE  /\ ring' \in Seq({Byte, Nul}) /\ received' \in Seq({Byte, Nul})
         /\ Len(received') <= Capacity
<1>1. PICK n \in Readable : /\ received' = received \o SubSeq(ring, 1, n)
                           /\ ring' = SubSeq(ring, n + 1, Len(ring))
  BY DEF ReadBytes
<1>2. /\ ring \in Seq({Byte, Nul}) /\ received \in Seq({Byte, Nul})
      /\ n \in 0 .. Len(ring) /\ Len(received) + n <= Capacity
  BY DEF Typed, TstatTypeOK, ComsTypeOK, Readable
<1>3. Len(ring) \in Nat /\ \A i \in 1 .. Len(ring) : ring[i] \in {Byte, Nul}
  BY <1>2, ElementOfSeq
<1>4. SubSeq(ring, 1, n) \in Seq({Byte, Nul}) /\ Len(SubSeq(ring, 1, n)) = n
  <2>1. \A i \in 1 .. n : ring[i] \in {Byte, Nul}
    BY <1>2, <1>3
  <2> QED
    BY <1>2, <1>3, <2>1, SubSeqProperties
<1>5. ring' \in Seq({Byte, Nul})
  <2>1. \A i \in n + 1 .. Len(ring) : ring[i] \in {Byte, Nul}
    BY <1>2, <1>3
  <2> QED
    BY <1>1, <1>2, <1>3, <2>1, SubSeqProperties
<1>6. received' \in Seq({Byte, Nul}) /\ Len(received') = Len(received) + n
  BY <1>1, <1>2, <1>4, ConcatProperties
<1> QED
  BY <1>2, <1>5, <1>6

LEMMA MessageTyped ==
  ASSUME NEW n \in MessageSizes
  PROVE  Message(n) \in Seq({Byte, Nul}) /\ Len(Message(n)) = n /\ n \in Nat \ {0}
  BY ComsAssumption DEF Message

\* The parts of the state that no step touches, or only one kind of step.
LEMMA Untouched ==
  ASSUME Typed, TstatNext
  PROVE  now' = now /\ deferred' = <<>> /\ idle' = NoTask
<1>1. CASE Schedule
  BY <1>1 DEF Schedule, StepIrq, StepAsap, StepIdle, Typed
<1>2. CASE TaskRuns
  BY <1>2 DEF TaskRuns, AppRuns, IfaceRuns, CommsRuns, ComsRuns, CallerRuns, Typed
<1>3. CASE Start
  BY <1>3 DEF Start, Typed
<1>4. CASE Delivery \/ Loss \/ Stray
  BY <1>4 DEF Delivery, Loss, Stray, ByteArrives, ByteLost, StrayEvent, RxCallback, FromIsr, Typed
<1> QED
  BY <1>1, <1>2, <1>3, <1>4 DEF TstatNext

LEMMA InterruptTyped ==
  ASSUME Typed, NEW e, RxCallback(e)
  PROVE  /\ irq' \in Seq(IsrTasks) /\ irq' \in Seq({Coms}) /\ Len(irq') <= MaxIrq
         /\ event' = e /\ UNCHANGED <<now, asap, deferred, curr, idle>>
<1>1. irq \in Seq({Coms}) /\ Len(irq) <= MaxIrq
  BY DEF Typed, TstatTypeOK, ComsTypeOK, TypeOK
<1>2. irq' \in Seq({Coms}) /\ Len(irq') <= MaxIrq
  BY <1>1, LimitsAssumption DEF RxCallback, FromIsr
<1> QED
  BY <1>2, FourTasks, SeqMonotonic DEF RxCallback, FromIsr

LEMMA ScheduleTyped ==
  ASSUME Typed, Schedule
  PROVE  /\ irq' \in Seq({Coms}) /\ Len(irq') <= MaxIrq
         /\ asap' \in Seq(Tasks \union {NoTask}) /\ Len(asap') <= MaxAsap
         /\ curr' \in Tasks \union {NoTask}
<1>1. /\ irq \in Seq({Coms}) /\ Len(irq) <= MaxIrq
      /\ asap \in Seq(Tasks \union {NoTask}) /\ Len(asap) <= MaxAsap
      /\ idle \in Tasks \union {NoTask} /\ Coms \in Tasks
  BY FourTasks DEF Typed, TstatTypeOK, ComsTypeOK, TypeOK
<1>2. CASE StepIrq
  BY <1>1, <1>2, LimitsAssumption DEF StepIrq
<1>3. CASE StepAsap
  BY <1>1, <1>3, LimitsAssumption DEF StepAsap
<1>4. CASE StepIdle
  BY <1>1, <1>4 DEF StepIdle
<1> QED
  BY <1>2, <1>3, <1>4 DEF Schedule

\* The types that a task's own step may change; the others are in Untouched.
Changed ==
  /\ curr \in Tasks \union {NoTask}
  /\ irq \in Seq(IsrTasks) /\ irq \in Seq({Coms}) /\ Len(irq) <= MaxIrq
  /\ asap \in Seq(Tasks \union {NoTask}) /\ Len(asap) <= MaxAsap
  /\ coms \in {"IDLE", "START_RQST", "AWAIT_RQST"}
  /\ event \in {ReadEvent, ErrorEvent} \union StrayEvents
  /\ ring \in Seq({Byte, Nul}) /\ incoming \in Seq({Byte, Nul})
  /\ received \in Seq({Byte, Nul}) /\ Len(received) <= Capacity
  /\ comsError \in BOOLEAN
  /\ app \in {"IDLE", "START_PULL", "AWAIT_PULL", "UPDATE", "START_PUSH", "AWAIT_PUSH"}
  /\ iface \in {"IDLE", "START_PULL", "AWAIT_PULL"}
  /\ {appError, ifaceError, busy, misread, sound} \subseteq BOOLEAN

LEMMA TypedParts ==
  Typed <=> /\ Changed /\ deferred = <<>> /\ idle = NoTask /\ now \in AbsTime
<1>1. \A S : <<>> \in Seq(S) /\ Len(<<>>) = 0 /\ 0 <= MaxDeferred
  BY EmptySeq, LimitsAssumption
<1>2. NoTask \in Tasks \union {NoTask}
  OBVIOUS
<1> QED
  BY <1>1, <1>2 DEF Typed, Changed, TstatTypeOK, ComsTypeOK, TypeOK

LEMMA InitTyped == TstatInit => Typed
<1> SUFFICES ASSUME TstatInit PROVE Changed /\ deferred = <<>> /\ idle = NoTask /\ now \in AbsTime
  BY TypedParts
<1>1. \A S : <<>> \in Seq(S) /\ Len(<<>>) = 0
  BY EmptySeq
<1>2. 0 <= Capacity /\ 0 <= MaxIrq /\ 0 <= MaxAsap
  BY LimitsAssumption, ComsAssumption
<1> QED
  BY <1>1, <1>2 DEF TstatInit, ComsInit, Init, Changed

LEMMA AppTyped ==
  ASSUME Changed, Typed, AppRuns
  PROVE  Changed'
<1>1. App \in Tasks /\ Iface \in Tasks /\ Caller \in Tasks
  BY FourTasks
<1>2. \A t \in {App, Iface, Caller} :
        Queued(asap, t) \in Seq(Tasks \union {NoTask}) /\ Len(Queued(asap, t)) <= MaxAsap
  BY <1>1, QueuedTyped DEF Changed
<1>3. CASE StartPull
  <2>1. /\ Queued(Queued(asap, Iface), Caller) \in Seq(Tasks \union {NoTask})
        /\ Len(Queued(Queued(asap, Iface), Caller)) <= MaxAsap
    BY <1>1, <1>2, QueuedTyped
  <2> QED
    BY <1>2, <1>3, <2>1, AppAssumption
    DEF AppRuns, StartPull, AppGoes, AppEnd, Changed, comsVars
<1>4. CASE (Pulled \/ Update \/ StartPush \/ Pushed) /\ UNCHANGED misread
  BY <1>2, <1>4 DEF AppRuns, Pulled, Update, StartPush, Pushed, AppGoes, AppEnd, Changed,
                    comsVars, ifaceVars
<1>5. CASE app = "IDLE" /\ UNCHANGED <<appVars, ifaceVars, asap, misread>>
  BY <1>5 DEF AppRuns, Changed, comsVars, appVars, ifaceVars
<1> QED
  BY <1>3, <1>4, <1>5 DEF AppRuns

LEMMA IfaceTyped ==
  ASSUME Changed, Typed, IfaceRuns
  PROVE  Changed'
<1>1. /\ \A t \in {App, Coms} :
           Queued(asap, t) \in Seq(Tasks \union {NoTask}) /\ Len(Queued(asap, t)) <= MaxAsap
      /\ Queued(Queued(asap, Coms), App) \in Seq(Tasks \union {NoTask})
      /\ Len(Queued(Queued(asap, Coms), App)) <= MaxAsap
  BY FourTasks, QueuedTyped DEF Changed
<1>2. CASE Request
  <2>1. incoming' \in Seq({Byte, Nul})
    BY <1>2, MessageTyped, ConcatProperties DEF Request, Send, Changed
  <2>2. PICK ok \in GarbageBool :
          /\ \/ ok /\ iface' = "AWAIT_PULL" /\ asap' = Queued(asap, Coms) /\ UNCHANGED ifaceError
             \/ ~ok /\ IfaceEnd(TRUE, Queued(asap, Coms))
          /\ misread' = (misread \/ ~ok)
    BY <1>2 DEF Request
  <2>3. /\ asap' \in Seq(Tasks \union {NoTask}) /\ Len(asap') <= MaxAsap
        /\ iface' \in {"IDLE", "AWAIT_PULL"} /\ {ifaceError', misread'} \subseteq BOOLEAN
    BY <1>1, <2>2, AppAssumption DEF IfaceEnd, Changed
  <2>4. received' \in Seq({Byte, Nul}) /\ Len(received') <= Capacity /\ coms' = "START_RQST"
        /\ comsError' \in BOOLEAN /\ UNCHANGED <<event, ring>>
    <3>1. 0 <= Capacity
      BY ComsAssumption
    <3> QED
      BY <1>2, <3>1, EmptySeq DEF Request, Recv
  <2> QED
    BY <2>1, <2>3, <2>4 DEF IfaceRuns, Changed, appVars
<1>3. CASE Reply
  BY <1>1, <1>3 DEF IfaceRuns, Reply, IfaceEnd, Changed, appVars, comsVars
<1>4. CASE iface = "IDLE" /\ UNCHANGED <<ifaceVars, asap, comsVars, misread>>
  BY <1>4 DEF IfaceRuns, Changed, comsVars, appVars, ifaceVars
<1> QED
  BY <1>2, <1>3, <1>4 DEF IfaceRuns

LEMMA CommsTyped ==
  ASSUME Changed, Typed, CommsRuns
  PROVE  Changed'
<1>1. /\ Queued(asap, Client) \in Seq(Tasks \union {NoTask})
      /\ Len(Queued(asap, Client)) <= MaxAsap
  BY FourTasks, QueuedTyped DEF Iface, Changed
<1>2. CASE coms = "AWAIT_RQST" /\ HandleEvent
  <2>1. CASE ReadBytes
    BY <1>1, <1>2, <2>1, ReadBytesTyped
    DEF CommsRuns, ComsRuns, ReadBytes, EndGame, Misjudged, others, Changed, appVars, ifaceVars
  <2>2. CASE ~ReadBytes
    BY <1>1, <1>2, <2>2
    DEF CommsRuns, ComsRuns, HandleEvent, EndGame, Misjudged, others, Changed, appVars, ifaceVars
  <2> QED
    BY <2>1, <2>2
<1>3. CASE ~(coms = "AWAIT_RQST" /\ HandleEvent)
  BY <1>3 DEF CommsRuns, ComsRuns, Misjudged, others, Changed, appVars, ifaceVars
<1> QED
  BY <1>2, <1>3

LEMMA LinkTyped ==
  ASSUME Changed, Typed, Delivery \/ Loss \/ Stray
  PROVE  Changed'
<1> DEFINE rest == Tail(incoming)
           more == Append(ring, Head(incoming))
<1>1. incoming # <<>> => rest \in Seq({Byte, Nul}) /\ more \in Seq({Byte, Nul})
  <2> SUFFICES ASSUME incoming # <<>>
               PROVE  rest \in Seq({Byte, Nul}) /\ more \in Seq({Byte, Nul})
    OBVIOUS
  <2>1. Tail(incoming) \in Seq({Byte, Nul}) /\ Head(incoming) \in {Byte, Nul}
    BY HeadTailProperties DEF Changed
  <2> QED
    BY <2>1, AppendProperties DEF Changed
<1> HIDE DEF rest, more
<1>2. CASE Delivery
  <2>1. ring' \in {ring, more} /\ incoming' = rest /\ incoming # <<>> /\ RxCallback(ReadEvent)
    BY <1>2 DEF Delivery, ByteArrives, rest, more
  <2> QED
    BY <1>1, <1>2, <2>1, InterruptTyped
    DEF Delivery, ByteArrives, Changed, others, appVars, ifaceVars
<1>3. CASE Loss
  <2>1. incoming' = rest /\ incoming # <<>> /\ RxCallback(ErrorEvent)
    BY <1>3 DEF Loss, ByteLost, rest
  <2> QED
    BY <1>1, <1>3, <2>1, InterruptTyped
    DEF Loss, ByteLost, Changed, others, appVars, ifaceVars
<1>4. CASE Stray
  <2>1. PICK e \in StrayEvents : RxCallback(e)
    BY <1>4 DEF Stray, StrayEvent
  <2>2. UNCHANGED <<coms, ring, received, comsError, incoming, others>> /\ sound' = FALSE
    BY <1>4 DEF Stray, StrayEvent
  <2>3. event' \in {ReadEvent, ErrorEvent} \union StrayEvents
    BY <2>1, InterruptTyped
  <2> QED
    BY <2>1, <2>2, <2>3, InterruptTyped DEF Changed, others, appVars, ifaceVars
<1> QED
  BY <1>2, <1>3, <1>4

LEMMA StepTyped ==
  ASSUME Typed, [TstatNext]_tstatVars
  PROVE  Typed'
<1>1. Changed /\ deferred = <<>> /\ idle = NoTask /\ now \in AbsTime
  BY TypedParts
<1>2. ASSUME TstatNext PROVE Typed'
  <2>1. now' \in AbsTime /\ deferred' = <<>> /\ idle' = NoTask
    BY <1>1, <1>2, Untouched
  <2>2. Changed'
    <3>1. CASE Start
      BY <1>1, <3>1, QueuedTyped, FourTasks
      DEF Start, Changed, comsVars, ifaceVars, history
    <3>2. CASE Schedule /\ UNCHANGED <<comsVars, others, sound>>
      BY <1>1, <3>2, ScheduleTyped, FourTasks, SeqMonotonic
      DEF Changed, comsVars, others, appVars, ifaceVars
    <3>3. CASE CallerRuns
      BY <1>1, <3>3 DEF CallerRuns, Changed, comsVars, appVars, ifaceVars, history
    <3> QED
      BY <1>1, <1>2, <3>1, <3>2, <3>3, AppTyped, IfaceTyped, CommsTyped, LinkTyped
      DEF TstatNext, TaskRuns, Schedule
  <2>3. (Typed <=> (Changed /\ deferred = <<>> /\ idle = NoTask /\ now \in AbsTime))'
    BY TypedParts, PTL
  <2> QED
    BY <2>1, <2>2, <2>3
<1>3. CASE UNCHANGED tstatVars
  BY <1>3 DEF tstatVars, vars, comsVars, appVars, ifaceVars, history,
              Typed, TstatTypeOK, ComsTypeOK, TypeOK
<1> QED
  BY <1>2, <1>3
-------------------------------------------------------------------------------
(* Who has a turn. *)

LEMMA ScheduleTurns ==
  ASSUME Typed, Schedule, NEW S, Coms \notin S, NoTask \notin S
  PROVE  /\ NoTurn(asap, curr, S) => NoTurn(asap', curr', S)
         /\ OneTurn(asap, curr, S) => OneTurn(asap', curr', S)
<1>1. /\ irq \in Seq({Coms}) /\ idle = NoTask /\ asap \in Seq(Tasks \union {NoTask})
  BY DEF Typed, TstatTypeOK, ComsTypeOK, TypeOK
<1>2. CASE StepIrq
  <2>1. curr' = Coms /\ asap' = asap
    BY <1>1, <1>2, HeadTailProperties DEF StepIrq
  <2> QED
    BY <2>1, TurnEnded
<1>3. CASE StepAsap
  BY <1>1, <1>3, TurnTaken DEF StepAsap
<1>4. CASE StepIdle
  <2>1. curr' = NoTask /\ asap' = asap
    BY <1>1, <1>4 DEF StepIdle
  <2> QED
    BY <2>1, TurnEnded
<1> QED
  BY <1>2, <1>3, <1>4 DEF Schedule

\* A task runs to its end, and queues nobody, or t.
LEMMA RunTurns ==
  ASSUME Typed, curr' = NoTask, NEW S, NoTask \notin S
  PROVE  /\ asap' = asap =>
              /\ NoTurn(asap, curr, S) => NoTurn(asap', curr', S)
              /\ OneTurn(asap, curr, S) => OneTurn(asap', curr', S)
              /\ OneTurn(asap, curr, S) /\ curr \in S => NoTurn(asap', curr', S)
         /\ \A t \in Tasks : asap' = Queued(asap, t) =>
              /\ NoTurn(asap, curr, S) => OneTurn(asap', curr', S)
              /\ OneTurn(asap, curr, S) /\ curr \in S => OneTurn(asap', curr', S)
              /\ t \notin S =>
                   /\ NoTurn(asap, curr, S) => NoTurn(asap', curr', S)
                   /\ OneTurn(asap, curr, S) => OneTurn(asap', curr', S)
                   /\ OneTurn(asap, curr, S) /\ curr \in S => NoTurn(asap', curr', S)
<1>1. /\ NoTurn(asap, curr, S) => NoTurn(asap, NoTask, S)
      /\ OneTurn(asap, curr, S) => OneTurn(asap, NoTask, S)
      /\ OneTurn(asap, curr, S) /\ curr \in S => NoTurn(asap, NoTask, S)
  BY TurnEnded
<1>2. asap \in Seq(Tasks \union {NoTask})
  BY DEF Typed, TstatTypeOK, ComsTypeOK, TypeOK
<1>3. \A t \in Tasks :
        /\ NoTurn(asap, NoTask, S) => OneTurn(Queued(asap, t), NoTask, S)
        /\ NoTurn(asap, NoTask, S) /\ t \notin S => NoTurn(Queued(asap, t), NoTask, S)
        /\ OneTurn(asap, NoTask, S) /\ t \notin S => OneTurn(Queued(asap, t), NoTask, S)
  BY <1>2, TurnQueued
<1> QED
  BY <1>1, <1>3

LEMMA CallerStep ==
  ASSUME Typed, CallerAfterRound, [TstatNext]_tstatVars
  PROVE  CallerAfterRound'
<1> DEFINE S == {Caller}
           No == NoTurn(asap, curr, S)
           One == OneTurn(asap, curr, S)
<1>1. /\ (app # "IDLE" => busy) /\ One /\ (No \/ (busy /\ app = "IDLE"))
      /\ NoTask \notin S /\ Coms \notin S /\ App \notin S /\ Iface \notin S
      /\ asap \in Seq(Tasks \union {NoTask})
  BY FourTasks DEF CallerAfterRound, Typed, TstatTypeOK, ComsTypeOK, TypeOK
<1>2. (No => One) /\ (No' => One')
  BY DEF NoTurn, OneTurn
<1>3. SUFFICES (app' # "IDLE" => busy') /\ One' /\ (No' \/ (busy' /\ app' = "IDLE"))
  BY DEF CallerAfterRound
<1>4. \A t \in Tasks \ S : No => NoTurn(Queued(asap, t), curr, S)
  BY <1>1, TurnQueued
<1>5. CASE Start
  <2>1. No' /\ app' # "IDLE" /\ busy'
    BY <1>1, <1>4, <1>5, FourTasks DEF Start
  <2> QED
    BY <1>2, <2>1
<1>6. CASE Schedule /\ UNCHANGED <<comsVars, others, sound>>
  <2>1. (No => No') /\ (One => One')
    BY <1>1, <1>6, ScheduleTurns
  <2> QED
    BY <1>1, <1>6, <2>1 DEF others, appVars
<1>7. CASE AppRuns
  <2>1. curr' = NoTask /\ busy' = busy
    BY <1>7 DEF AppRuns
  <2>2. CASE app = "IDLE" /\ UNCHANGED <<appVars, ifaceVars, asap, misread>>
    <3>1. (No => No') /\ (One => One')
      BY <1>1, <2>1, <2>2, RunTurns
    <3> QED
      BY <1>1, <2>1, <2>2, <3>1 DEF appVars
  <2>3. CASE ~(app = "IDLE" /\ UNCHANGED <<appVars, ifaceVars, asap, misread>>)
    <3>1. app # "IDLE"
      BY <1>7, <2>3 DEF AppRuns, StartPull, Pulled, Update, StartPush, Pushed
    <3>2. No /\ busy
      BY <1>1, <3>1
    <3>3. CASE app' = "IDLE"
      <4>1. asap' \in {Queued(asap, Caller), Queued(Queued(asap, Iface), Caller)}
        BY <1>7, <3>1, <3>3
        DEF AppRuns, StartPull, Pulled, Update, StartPush, Pushed, AppGoes, AppEnd
      <4>2. CASE asap' = Queued(asap, Caller)
        BY <1>1, <2>1, <3>2, <3>3, <4>2, RunTurns, FourTasks
      <4>3. CASE asap' = Queued(Queued(asap, Iface), Caller)
        <5>1. NoTurn(Queued(asap, Iface), NoTask, S) /\ Iface \in Tasks /\ Caller \in Tasks
          BY <1>1, <3>2, TurnEnded, TurnQueued, FourTasks
        <5>2. Queued(asap, Iface) \in Seq(Tasks \union {NoTask})
          BY <1>1, <5>1, QueuedItems
        <5>3. One'
          BY <2>1, <4>3, <5>1, <5>2, TurnQueued
        <5> QED
          BY <2>1, <3>2, <3>3, <5>3
      <4> QED
        BY <4>1, <4>2, <4>3
    <3>4. CASE app' # "IDLE"
      <4>1. asap' = asap \/ asap' = Queued(asap, Iface) \/ asap' = Queued(asap, App)
        BY <1>7, <3>1, <3>4
        DEF AppRuns, StartPull, Pulled, Update, StartPush, Pushed, AppGoes, AppEnd
      <4>2. No'
        BY <1>1, <2>1, <3>2, <4>1, RunTurns, FourTasks
      <4> QED
        BY <1>2, <2>1, <3>2, <4>2
    <3> QED
      BY <3>3, <3>4
  <2> QED
    BY <2>2, <2>3
<1>8. CASE IfaceRuns
  <2>1. curr' = NoTask /\ busy' = busy /\ app' = app
    BY <1>8 DEF IfaceRuns, appVars
  <2>2. \/ asap' = asap \/ asap' = Queued(asap, Coms) \/ asap' = Queued(asap, App)
        \/ asap' = Queued(Queued(asap, Coms), App)
    BY <1>8 DEF IfaceRuns, Request, Reply, IfaceEnd
  <2>3. CASE asap' = Queued(Queued(asap, Coms), App)
    <3>1. /\ No => NoTurn(Queued(asap, Coms), NoTask, S)
          /\ One => OneTurn(Queued(asap, Coms), NoTask, S)
      BY <1>1, TurnEnded, TurnQueued, FourTasks
    <3>2. Queued(asap, Coms) \in Seq(Tasks \union {NoTask})
      BY <1>1, QueuedItems, FourTasks
    <3>3. (No => No') /\ (One => One')
      BY <1>1, <2>1, <2>3, <3>1, <3>2, TurnQueued, FourTasks
    <3> QED
      BY <1>1, <2>1, <3>3
  <2>4. CASE asap' # Queued(Queued(asap, Coms), App)
    <3>1. (No => No') /\ (One => One')
      BY <1>1, <2>1, <2>2, <2>4, RunTurns, FourTasks
    <3> QED
      BY <1>1, <2>1, <3>1
  <2> QED
    BY <2>3, <2>4
<1>9. CASE CommsRuns
  <2>1. curr' = NoTask /\ busy' = busy /\ app' = app
    BY <1>9 DEF CommsRuns, ComsRuns, others, appVars
  <2>2. asap' = asap \/ asap' = Queued(asap, Iface)
    BY <1>9 DEF CommsRuns, ComsRuns, HandleEvent, ReadBytes, EndGame, Iface
  <2>3. (No => No') /\ (One => One')
    BY <1>1, <2>1, <2>2, RunTurns, FourTasks
  <2> QED
    BY <1>1, <2>1, <2>3
<1>10. CASE CallerRuns
  <2>1. No' /\ app' = app /\ app = "IDLE"
    <3>1. curr' = NoTask /\ asap' = asap /\ app' = app /\ curr \in S
      BY <1>10 DEF CallerRuns, appVars
    <3> QED
      BY <1>1, <3>1, RunTurns DEF NoTurn
  <2> QED
    BY <1>2, <2>1
<1>11. CASE Delivery \/ Loss \/ Stray \/ UNCHANGED tstatVars
  <2>1. UNCHANGED <<asap, curr, busy, app>>
    BY <1>11 DEF Delivery, Loss, Stray, ByteArrives, ByteLost, StrayEvent, RxCallback, FromIsr,
                 others, appVars, tstatVars, vars
  <2> QED
    BY <1>1, <2>1
<1> QED
  BY <1>5, <1>6, <1>7, <1>8, <1>9, <1>10, <1>11 DEF TstatNext, TaskRuns, Schedule

LEMMA ControlStep ==
  ASSUME Typed, ControlHeldOnce, [TstatNext]_tstatVars
  PROVE  ControlHeldOnce'
<1> DEFINE S == Thread
           No == NoTurn(asap, curr, S)
           One == OneTurn(asap, curr, S)
<1>1. SUFFICES ASSUME ~misread'
               PROVE  One' /\ (coms' # "IDLE" => No') /\ (~busy' => No' /\ coms' = "IDLE")
  BY DEF ControlHeldOnce
<1>2. misread => misread'
  BY DEF TstatNext, Start, Schedule, TaskRuns, AppRuns, StartPull, IfaceRuns, Request, Reply,
         CommsRuns, CallerRuns, Delivery, Loss, Stray, others, history, tstatVars
<1>3. /\ One /\ (coms # "IDLE" => No) /\ (~busy => No /\ coms = "IDLE")
      /\ NoTask \notin S /\ Coms \notin S /\ App \in S /\ Iface \in S /\ Caller \in S
      /\ asap \in Seq(Tasks \union {NoTask})
  BY <1>1, <1>2, FourTasks DEF ControlHeldOnce, Thread, Typed, TstatTypeOK, ComsTypeOK, TypeOK
<1>4. (No => One) /\ (No' => One')
  BY DEF NoTurn, OneTurn
<1>5. curr \in S => coms = "IDLE" /\ busy
  BY <1>3 DEF NoTurn
<1> HIDE DEF S
<1>6. CASE Start
  <2>1. One' /\ coms' = coms /\ busy' = TRUE /\ coms = "IDLE"
    <3>1. curr' = curr /\ asap' = Queued(asap, App) /\ No
      BY <1>3, <1>6 DEF Start
    <3> QED
      BY <1>3, <1>6, <3>1, TurnQueued, FourTasks DEF Start, comsVars
  <2> QED
    BY <2>1
<1>7. CASE Schedule /\ UNCHANGED <<comsVars, others, sound>>
  <2>1. (No => No') /\ (One => One')
    BY <1>3, <1>7, ScheduleTurns
  <2> QED
    BY <1>3, <1>7, <2>1 DEF others, comsVars
<1>8. CASE AppRuns
  <2>1. curr \in S /\ curr' = NoTask /\ UNCHANGED <<busy, coms>>
    BY <1>3, <1>8 DEF AppRuns, comsVars
  <2>2. asap' = asap \/ \E t \in {App, Iface, Caller} : asap' = Queued(asap, t)
    BY <1>1, <1>8
    DEF AppRuns, StartPull, Pulled, Update, StartPush, Pushed, AppGoes, AppEnd
  <2>3. One'
    BY <1>3, <2>1, <2>2, RunTurns, FourTasks
  <2> QED
    BY <1>5, <2>1, <2>3
<1>9. CASE IfaceRuns
  <2>1. curr \in S /\ curr' = NoTask /\ busy' = busy
    BY <1>3, <1>9 DEF IfaceRuns
  <2>2. CASE Request
    <3>1. asap' = Queued(asap, Coms)
      BY <1>1, <2>2 DEF Request
    <3>2. No'
      BY <1>3, <2>1, <3>1, RunTurns, FourTasks
    <3> QED
      BY <1>4, <1>5, <2>1, <3>2
  <2>3. CASE ~Request
    <3>1. coms' = coms /\ (asap' = asap \/ asap' = Queued(asap, App))
      BY <1>9, <2>3 DEF IfaceRuns, Reply, IfaceEnd, comsVars
    <3>2. One'
      BY <1>3, <2>1, <3>1, RunTurns, FourTasks
    <3> QED
      BY <1>5, <2>1, <3>1, <3>2
  <2> QED
    BY <2>2, <2>3
<1>10. CASE CommsRuns
  <2>1. curr' = NoTask /\ busy' = busy
    BY <1>10 DEF CommsRuns, ComsRuns, others
  <2>2. \/ asap' = asap /\ coms' = coms
        \/ asap' = asap /\ coms = "START_RQST"
        \/ asap' = Queued(asap, Iface) /\ coms = "AWAIT_RQST" /\ coms' = "IDLE"
    BY <1>10 DEF CommsRuns, ComsRuns, HandleEvent, ReadBytes, EndGame, Iface
  <2>3. CASE asap' = asap
    <3>1. (No => No') /\ (One => One')
      BY <1>3, <2>1, <2>3, RunTurns
    <3> QED
      BY <1>3, <2>1, <2>2, <2>3, <3>1
  <2>4. CASE asap' = Queued(asap, Iface) /\ coms = "AWAIT_RQST" /\ coms' = "IDLE"
    <3>1. No /\ One' /\ busy
      BY <1>3, <2>1, <2>4, RunTurns, FourTasks
    <3> QED
      BY <2>1, <2>4, <3>1
  <2> QED
    BY <2>2, <2>3, <2>4
<1>11. CASE CallerRuns
  <2>1. curr' = NoTask /\ asap' = asap /\ curr \in S /\ coms' = coms
    BY <1>3, <1>11 DEF CallerRuns, comsVars
  <2>2. No'
    BY <1>3, <2>1, RunTurns
  <2> QED
    BY <1>4, <1>5, <2>1, <2>2
<1>12. CASE Delivery \/ Loss \/ Stray \/ UNCHANGED tstatVars
  <2>1. UNCHANGED <<asap, curr, busy, coms>>
    BY <1>12 DEF Delivery, Loss, Stray, ByteArrives, ByteLost, StrayEvent, RxCallback, FromIsr,
                 others, tstatVars, vars, comsVars
  <2> QED
    BY <1>3, <2>1
<1> QED
  BY <1>6, <1>7, <1>8, <1>9, <1>10, <1>11, <1>12 DEF TstatNext, TaskRuns, Schedule

LEMMA WokenStep ==
  ASSUME Typed, ControlHeldOnce, WokenByPull, [TstatNext]_tstatVars
  PROVE  WokenByPull'
<1> DEFINE S == {App}
           No == NoTurn(asap, curr, S)
<1>1. SUFFICES ASSUME ~misread', app' = "AWAIT_PULL", iface' # "IDLE"
               PROVE  No'
  BY DEF WokenByPull
<1>2. misread => misread'
  BY DEF TstatNext, Start, Schedule, TaskRuns, AppRuns, StartPull, IfaceRuns, Request, Reply,
         CommsRuns, CallerRuns, Delivery, Loss, Stray, others, history, tstatVars
<1>3. /\ OneTurn(asap, curr, Thread)
      /\ (app = "AWAIT_PULL" /\ iface # "IDLE" => No)
      /\ NoTask \notin S /\ Coms \notin S /\ App \in S /\ Iface \notin S /\ Caller \notin S
      /\ asap \in Seq(Tasks \union {NoTask})
  BY <1>1, <1>2, FourTasks DEF ControlHeldOnce, WokenByPull, Typed, TstatTypeOK, ComsTypeOK, TypeOK
<1>4. curr \in Thread => NoTurn(asap, NoTask, S)
  BY <1>3 DEF OneTurn, NoTurn, Thread
<1>5. OneTurn(asap, curr, S)
  BY <1>3 DEF OneTurn, Thread
<1>6. App \in Thread /\ Iface \in Thread
  BY DEF Thread
<1> HIDE DEF S
<1>7. ~Start
  BY <1>1 DEF Start
<1>8. CASE Schedule /\ UNCHANGED <<comsVars, others, sound>>
  <2>1. No => No'
    BY <1>3, <1>8, ScheduleTurns
  <2> QED
    BY <1>1, <1>3, <1>8, <2>1 DEF others, appVars, ifaceVars
<1>9. CASE AppRuns
  <2>1. curr' = NoTask /\ asap' = Queued(asap, Iface)
    BY <1>1, <1>9 DEF AppRuns, StartPull, Pulled, Update, StartPush, Pushed, AppGoes, AppEnd,
                      appVars
  <2> QED
    BY <1>3, <1>4, <1>6, <1>9, <2>1, TurnQueued, FourTasks DEF AppRuns
<1>10. CASE IfaceRuns
  <2>1. curr' = NoTask /\ asap' = Queued(asap, Coms)
    BY <1>1, <1>10 DEF IfaceRuns, Request, Reply, IfaceEnd, ifaceVars
  <2> QED
    BY <1>3, <1>4, <1>6, <1>10, <2>1, TurnQueued, FourTasks DEF IfaceRuns
<1>11. CASE CommsRuns
  <2>1. curr' = NoTask /\ app' = app /\ iface' = iface
    BY <1>11 DEF CommsRuns, ComsRuns, others, appVars, ifaceVars
  <2>2. asap' = asap \/ asap' = Queued(asap, Iface)
    BY <1>11 DEF CommsRuns, ComsRuns, HandleEvent, ReadBytes, EndGame, Iface
  <2>3. No => No'
    BY <1>3, <2>1, <2>2, RunTurns, FourTasks
  <2> QED
    BY <1>1, <1>3, <2>1, <2>3
<1>12. CASE CallerRuns
  <2>1. UNCHANGED <<asap, app, iface>> /\ curr' = NoTask
    BY <1>12 DEF CallerRuns, appVars, ifaceVars
  <2> QED
    BY <1>1, <1>3, <2>1, RunTurns
<1>13. CASE Delivery \/ Loss \/ Stray \/ UNCHANGED tstatVars
  <2>1. UNCHANGED <<asap, curr, app, iface>>
    BY <1>13 DEF Delivery, Loss, Stray, ByteArrives, ByteLost, StrayEvent, RxCallback, FromIsr,
                 others, tstatVars, vars, appVars, ifaceVars
  <2> QED
    BY <1>1, <1>3, <2>1
<1> QED
  BY <1>7, <1>8, <1>9, <1>10, <1>11, <1>12, <1>13 DEF TstatNext, TaskRuns, Schedule
-------------------------------------------------------------------------------
(* The message on its way, when buffer and ring are as long as the longest *)
(* message.                                                                *)

MessagesFit == \A n \in MessageSizes : n <= Capacity /\ n <= RingSize

LEMMA Cut ==
  ASSUME NEW n \in MessageSizes, NEW a \in 0 .. n, NEW b \in a .. n
  PROVE  /\ SubSeq(Message(n), a + 1, b) \in Seq({Byte, Nul})
         /\ Len(SubSeq(Message(n), a + 1, b)) = b - a
         /\ \A k \in 1 .. b - a : SubSeq(Message(n), a + 1, b)[k] = IF a + k = n THEN Nul ELSE Byte
<1> DEFINE m == Message(n)
<1>1. /\ n \in Nat \ {0} /\ m \in Seq({Byte, Nul})
      /\ \A k \in 1 .. n : m[k] \in {Byte, Nul} /\ m[k] = IF k = n THEN Nul ELSE Byte
  BY MessageTyped DEF Message
<1> HIDE DEF m
<1>2. /\ a + 1 \in Int /\ b \in Int /\ b - (a + 1) + 1 = b - a
      /\ \A k \in a + 1 .. b : m[k] \in {Byte, Nul}
      /\ \A k \in 1 .. b - a : (a + 1) + k - 1 = a + k /\ a + k \in 1 .. n
  BY <1>1
<1>3. /\ SubSeq(m, a + 1, b) \in Seq({Byte, Nul})
      /\ Len(SubSeq(m, a + 1, b)) = IF a + 1 <= b THEN b - (a + 1) + 1 ELSE 0
      /\ \A k \in 1 .. b - (a + 1) + 1 : SubSeq(m, a + 1, b)[k] = m[a + 1 + k - 1]
  BY <1>2, SubSeqProperties
<1>4. Len(SubSeq(m, a + 1, b)) = b - a
  BY <1>1, <1>3
<1>5. \A k \in 1 .. b - a : SubSeq(m, a + 1, b)[k] = m[a + k]
  BY <1>2, <1>3
<1>6. \A k \in 1 .. b - a : SubSeq(m, a + 1, b)[k] = IF a + k = n THEN Nul ELSE Byte
  BY <1>1, <1>2, <1>5
<1> QED
  BY <1>3, <1>4, <1>6 DEF m

\* A run of bytes is a piece of the message if it has the piece's length and bytes.
LEMMA IsCut ==
  ASSUME NEW n \in MessageSizes, NEW a \in 0 .. n, NEW b \in a .. n,
         NEW s \in Seq({Byte, Nul}), Len(s) = b - a,
         \A k \in 1 .. b - a : s[k] = IF a + k = n THEN Nul ELSE Byte
  PROVE  s = SubSeq(Message(n), a + 1, b)
<1> DEFINE c == SubSeq(Message(n), a + 1, b)
<1>1. /\ c \in Seq({Byte, Nul}) /\ Len(c) = b - a
      /\ \A k \in 1 .. b - a : c[k] = IF a + k = n THEN Nul ELSE Byte
  BY Cut, ZenonT(90)
<1> HIDE DEF c
<1>2. \A k \in 1 .. Len(s) : s[k] = c[k]
  BY <1>1
<1>3. s = c
  BY <1>1, <1>2, SeqEqual
<1> QED
  BY <1>3 DEF c

LEMMA WholeCut ==
  ASSUME NEW n \in MessageSizes
  PROVE  Message(n) = SubSeq(Message(n), 1, n)
<1>1. n \in Nat /\ Message(n) \in Seq({Byte, Nul}) /\ Len(Message(n)) = n
  BY MessageTyped
<1> QED
  BY <1>1, SubSeqFull

\* The loop that reads leaves the message on its way, or has it whole.
LEMMA ReadBytesCut ==
  ASSUME MessagesFit, Typed, NEW n \in MessageSizes, OnTheWay(n), coms = "AWAIT_RQST",
         ReadBytes, incoming' = incoming, coms' = "IDLE" => received' # received
  PROVE  \/ OnTheWay(n)' /\ coms' = coms
         \/ /\ coms' = "IDLE" /\ ~comsError' /\ received' = Message(n)
            /\ ring' = <<>> /\ incoming' = <<>>
<1>1. PICK r \in 0 .. n, s \in 0 .. n :
        /\ r <= s /\ r < n
        /\ received = SubSeq(Message(n), 1, r)
        /\ ring = SubSeq(Message(n), r + 1, s)
        /\ incoming = SubSeq(Message(n), s + 1, n)
  BY DEF OnTheWay
<1>2. n \in Nat \ {0} /\ n <= Capacity /\ Capacity \in Nat
  BY MessageTyped, ComsAssumption DEF MessagesFit
<1>3. /\ received \in Seq({Byte, Nul}) /\ Len(received) = r
      /\ \A k \in 1 .. r : received[k] = IF k = n THEN Nul ELSE Byte
  <2> DEFINE a == 0
  <2>1. a \in 0 .. n /\ r \in a .. n /\ a + 1 = 1 /\ r - a = r /\ \A k \in 1 .. r : a + k = k
    BY <1>2
  <2> HIDE DEF a
  <2>2. received = SubSeq(Message(n), a + 1, r)
    BY <1>1, <2>1
  <2>3. /\ received \in Seq({Byte, Nul}) /\ Len(received) = r - a
        /\ \A k \in 1 .. r - a : received[k] = IF a + k = n THEN Nul ELSE Byte
    BY <2>1, <2>2, Cut
  <2> QED
    BY <2>1, <2>3
<1>4. /\ ring \in Seq({Byte, Nul}) /\ Len(ring) = s - r
      /\ \A k \in 1 .. s - r : ring[k] = IF r + k = n THEN Nul ELSE Byte
  <2>1. n \in MessageSizes /\ r \in 0 .. n /\ s \in r .. n /\ ring = SubSeq(Message(n), r + 1, s)
    BY <1>1
  <2>2. /\ SubSeq(Message(n), r + 1, s) \in Seq({Byte, Nul})
        /\ Len(SubSeq(Message(n), r + 1, s)) = s - r
        /\ \A k \in 1 .. s - r :
             SubSeq(Message(n), r + 1, s)[k] = IF r + k = n THEN Nul ELSE Byte
    BY ONLY <2>1, Cut, ZenonT(60)
  <2> QED
    BY ONLY <2>1, <2>2, ZenonT(60)
<1>5. PICK k \in Readable :
        /\ \A m \in Readable : m <= k
        /\ received' = received \o SubSeq(ring, 1, k)
        /\ ring' = SubSeq(ring, k + 1, Len(ring))
        /\ \E atNull \in IF k = 0 THEN GarbageIsNull ELSE {ring[k] = Nul} :
             IF atNull \/ Len(received') = Capacity
             THEN EndGame(FALSE)
             ELSE UNCHANGED <<coms, comsError, asap>>
  BY DEF ReadBytes
<1>6. k \in 0 .. s - r /\ k \in Nat
  BY <1>1, <1>4, <1>5 DEF Readable
<1> DEFINE piece == SubSeq(ring, 1, k)
<1>7. /\ piece \in Seq({Byte, Nul}) /\ Len(piece) = k
      /\ \A j \in 1 .. k : piece[j] = IF r + j = n THEN Nul ELSE Byte
  <2>1. /\ 1 \in Int /\ k \in Int /\ k - 1 + 1 = k /\ \A j \in 1 .. k : j \in 1 .. s - r /\ 1 + j - 1 = j
    BY <1>1, <1>6
  <2>2. \A j \in 1 .. k : ring[j] \in {Byte, Nul}
    BY <1>4, <2>1
  <2>3. /\ piece \in Seq({Byte, Nul}) /\ Len(piece) = IF 1 <= k THEN k - 1 + 1 ELSE 0
        /\ \A j \in 1 .. k - 1 + 1 : piece[j] = ring[1 + j - 1]
    BY <2>1, <2>2, SubSeqProperties
  <2> HIDE DEF piece
  <2>4. Len(piece) = k
    BY <1>6, <2>3
  <2>5. \A j \in 1 .. k : piece[j] = ring[j]
    BY <2>1, <2>3
  <2> QED
    BY <1>4, <2>1, <2>3, <2>4, <2>5
<1> HIDE DEF piece
<1>8. /\ received' \in Seq({Byte, Nul}) /\ Len(received') = r + k
      /\ \A j \in 1 .. r + k : received'[j] = IF j = n THEN Nul ELSE Byte
  <2>1. /\ received' \in Seq({Byte, Nul}) /\ Len(received') = r + k
        /\ \A j \in 1 .. r + k : received'[j] = IF j <= r THEN received[j] ELSE piece[j - r]
    BY <1>3, <1>5, <1>7, ConcatProperties, SMTT(60) DEF piece
  <2>2. \A j \in 1 .. r + k : received'[j] = IF j = n THEN Nul ELSE Byte
    <3> SUFFICES ASSUME NEW j \in 1 .. r + k
                 PROVE  received'[j] = IF j = n THEN Nul ELSE Byte
      OBVIOUS
    <3>1. CASE j <= r
      <4>1. j \in 1 .. r
        BY <1>1, <3>1
      <4> QED
        BY <1>3, <2>1, <3>1, <4>1
    <3>2. CASE ~(j <= r)
      <4>1. j - r \in 1 .. k /\ r + (j - r) = j
        BY <1>1, <1>6, <3>2
      <4> QED
        BY <1>7, <2>1, <3>2, <4>1
    <3> QED
      BY <3>1, <3>2
  <2> QED
    BY <2>1, <2>2
<1>9. received' = SubSeq(Message(n), 1, r + k)
  <2>1. r + k \in 0 .. n /\ 0 \in 0 .. n /\ 0 + 1 = 1 /\ (r + k) - 0 = r + k
    BY <1>1, <1>2, <1>6
  <2>2. received' = SubSeq(Message(n), 0 + 1, r + k)
    <3> DEFINE t == received'
    <3>1. /\ t \in Seq({Byte, Nul}) /\ Len(t) = (r + k) - 0
          /\ \A j \in 1 .. (r + k) - 0 : t[j] = IF 0 + j = n THEN Nul ELSE Byte
      BY <1>8, <2>1
    <3> HIDE DEF t
    <3>2. t = SubSeq(Message(n), 0 + 1, r + k)
      BY <2>1, <3>1, IsCut
    <3> QED
      BY <3>2 DEF t
  <2> QED
    BY <2>1, <2>2
<1>10. /\ ring' \in Seq({Byte, Nul}) /\ Len(ring') = s - (r + k)
       /\ \A j \in 1 .. s - (r + k) : ring'[j] = IF (r + k) + j = n THEN Nul ELSE Byte
  <2>1. /\ k + 1 \in Int /\ s - r \in Int /\ (s - r) - (k + 1) + 1 = s - (r + k)
        /\ \A j \in k + 1 .. s - r : j \in 1 .. s - r
        /\ \A j \in 1 .. s - (r + k) :
             (k + 1) + j - 1 \in 1 .. s - r /\ r + ((k + 1) + j - 1) = (r + k) + j
    BY <1>1, <1>6
  <2>2. \A j \in k + 1 .. s - r : ring[j] \in {Byte, Nul}
    BY <1>4, <2>1
  <2>3. ring' = SubSeq(ring, k + 1, s - r)
    BY <1>4, <1>5
  <2>4. /\ ring' \in Seq({Byte, Nul})
        /\ Len(ring') = IF k + 1 <= s - r THEN (s - r) - (k + 1) + 1 ELSE 0
        /\ \A j \in 1 .. (s - r) - (k + 1) + 1 : ring'[j] = ring[(k + 1) + j - 1]
    BY <2>1, <2>2, <2>3, SubSeqProperties, SMTT(20)
  <2>5. Len(ring') = s - (r + k)
    BY <1>1, <1>6, <2>4
  <2>6. \A j \in 1 .. s - (r + k) : ring'[j] = ring[(k + 1) + j - 1]
    BY <2>1, <2>4
  <2> QED
    BY <1>4, <2>1, <2>4, <2>5, <2>6
<1>11. ring' = SubSeq(Message(n), (r + k) + 1, s)
  <2>1. r + k \in 0 .. n /\ s \in r + k .. n
    BY <1>1, <1>2, <1>6
  <2> DEFINE t == ring'
             a == r + k
  <2>2. /\ t \in Seq({Byte, Nul}) /\ Len(t) = s - a
        /\ \A j \in 1 .. s - a : t[j] = IF a + j = n THEN Nul ELSE Byte
    BY <1>10
  <2>3. a \in 0 .. n /\ s \in a .. n
    BY <2>1
  <2> HIDE DEF t, a
  <2>4. t = SubSeq(Message(n), a + 1, s)
    BY <2>2, <2>3, IsCut
  <2> QED
    BY <2>4 DEF t, a
<1>12. CASE r + k < n
  <2>1. coms' # "IDLE"
    <3>1. Len(received') # Capacity
      BY <1>2, <1>8, <1>12
    <3>2. CASE k = 0
      <4>1. received' = received
        BY <1>1, <1>6, <1>9, <3>2
      <4> QED
        BY <4>1
    <3>3. CASE k # 0
      <4>1. k \in 1 .. s - r /\ r + k # n
        BY <1>6, <1>12, <3>3
      <4>2. ring[k] # Nul
        BY <1>4, <4>1 DEF Byte, Nul
      <4> QED
        BY <1>5, <3>1, <3>3, <4>2
    <3> QED
      BY <3>2, <3>3
  <2>2. coms' = coms
    BY <1>5, <2>1 DEF EndGame
  <2>3. r + k \in 0 .. n /\ s \in 0 .. n /\ r + k <= s
    BY <1>1, <1>2, <1>6, <1>12
  <2>4. OnTheWay(n)'
    BY <1>1, <1>9, <1>11, <1>12, <2>3 DEF OnTheWay
  <2> QED
    BY <2>2, <2>4
<1>13. CASE ~(r + k < n)
  <2>1. r + k = n /\ s = n /\ k # 0 /\ k \in 1 .. s - r
    BY <1>1, <1>2, <1>6, <1>13
  <2>2. ring[k] = Nul
    BY <1>4, <2>1
  <2>3. EndGame(FALSE)
    BY <1>5, <2>1, <2>2
  <2>4. received' = Message(n)
    BY <1>9, <2>1, WholeCut
  <2>5. ring' = <<>> /\ incoming' = <<>>
    <3>1. n + 1 \in Int /\ n \in Int /\ n < n + 1
      BY <1>2
    <3> QED
      BY <1>1, <1>11, <2>1, <3>1, SubSeqEmpty
  <2> QED
    BY <2>3, <2>4, <2>5 DEF EndGame
<1> QED
  BY <1>12, <1>13

LEMMA ByteArrivesCut ==
  ASSUME MessagesFit, NEW n \in MessageSizes, OnTheWay(n), ByteArrives
  PROVE  OnTheWay(n)'
<1>1. PICK r \in 0 .. n, s \in 0 .. n :
        /\ r <= s /\ r < n
        /\ received = SubSeq(Message(n), 1, r)
        /\ ring = SubSeq(Message(n), r + 1, s)
        /\ incoming = SubSeq(Message(n), s + 1, n)
  BY DEF OnTheWay
<1>2. n \in Nat \ {0} /\ n <= RingSize /\ RingSize \in Nat
  BY MessageTyped, ComsAssumption DEF MessagesFit
<1>3. /\ ring \in Seq({Byte, Nul}) /\ Len(ring) = s - r
      /\ \A k \in 1 .. s - r : ring[k] = IF r + k = n THEN Nul ELSE Byte
  <2>1. n \in MessageSizes /\ r \in 0 .. n /\ s \in r .. n /\ ring = SubSeq(Message(n), r + 1, s)
    BY <1>1
  <2>2. /\ SubSeq(Message(n), r + 1, s) \in Seq({Byte, Nul})
        /\ Len(SubSeq(Message(n), r + 1, s)) = s - r
        /\ \A k \in 1 .. s - r :
             SubSeq(Message(n), r + 1, s)[k] = IF r + k = n THEN Nul ELSE Byte
    BY ONLY <2>1, Cut, ZenonT(60)
  <2> QED
    BY ONLY <2>1, <2>2, ZenonT(60)
<1>4. /\ incoming \in Seq({Byte, Nul}) /\ Len(incoming) = n - s
      /\ \A k \in 1 .. n - s : incoming[k] = IF s + k = n THEN Nul ELSE Byte
  <2>1. n \in MessageSizes /\ s \in 0 .. n /\ n \in s .. n /\ incoming = SubSeq(Message(n), s + 1, n)
    BY <1>1, <1>2
  <2>2. /\ SubSeq(Message(n), s + 1, n) \in Seq({Byte, Nul})
        /\ Len(SubSeq(Message(n), s + 1, n)) = n - s
        /\ \A k \in 1 .. n - s :
             SubSeq(Message(n), s + 1, n)[k] = IF s + k = n THEN Nul ELSE Byte
    BY ONLY <2>1, Cut, ZenonT(60)
  <2> QED
    BY ONLY <2>1, <2>2, ZenonT(60)
<1>5. incoming # <<>> /\ incoming' = Tail(incoming) /\ received' = received
  BY DEF ByteArrives
<1>6. s < n /\ s + 1 \in 0 .. n /\ s + 1 \in r .. n /\ n \in s + 1 .. n
  <2>1. Len(incoming) \in Nat \ {0}
    BY <1>4, <1>5, EmptySeq
  <2> QED
    BY <1>1, <1>2, <1>4, <2>1
<1>7. ring' = Append(ring, Head(incoming))
  <2>1. Len(ring) < RingSize
    BY <1>1, <1>2, <1>3, <1>6
  <2> QED
    BY <2>1 DEF ByteArrives
<1>8. ring' = SubSeq(Message(n), r + 1, s + 1)
  <2> DEFINE t == ring'
             b == s + 1
  <2>1. Head(incoming) \in {Byte, Nul} /\ Head(incoming) = incoming[1]
    BY <1>4, <1>5, HeadTailProperties
  <2>2. incoming[1] = IF s + 1 = n THEN Nul ELSE Byte
    BY <1>1, <1>2, <1>4, <1>6
  <2>3. /\ t \in Seq({Byte, Nul}) /\ Len(t) = (s - r) + 1
        /\ \A k \in 1 .. s - r : t[k] = ring[k]
        /\ t[(s - r) + 1] = Head(incoming)
    <3>1. ring \in Seq({Byte, Nul}) /\ Head(incoming) \in {Byte, Nul} /\ Len(ring) = s - r
      BY <1>3, <2>1
    <3>2. /\ Append(ring, Head(incoming)) \in Seq({Byte, Nul})
          /\ Len(Append(ring, Head(incoming))) = Len(ring) + 1
          /\ \A k \in 1 .. Len(ring) : Append(ring, Head(incoming))[k] = ring[k]
          /\ Append(ring, Head(incoming))[Len(ring) + 1] = Head(incoming)
      BY <3>1, AppendProperties
    <3> QED
      BY <1>7, <3>1, <3>2, Zenon
  <2>4. \A k \in 1 .. b - r : t[k] = IF r + k = n THEN Nul ELSE Byte
    <3> SUFFICES ASSUME NEW k \in 1 .. b - r
                 PROVE  t[k] = IF r + k = n THEN Nul ELSE Byte
      OBVIOUS
    <3> HIDE DEF t
    <3>1. CASE k = (s - r) + 1
      <4>1. r + k = s + 1
        BY <1>1, <3>1
      <4> QED
        BY <2>1, <2>2, <2>3, <3>1, <4>1
    <3>2. CASE k # (s - r) + 1
      <4>1. k \in 1 .. s - r
        BY <1>1, <1>2, <3>2
      <4> QED
        BY <1>3, <2>3, <4>1
    <3> QED
      BY <3>1, <3>2
  <2>5. b \in r .. n /\ Len(t) = b - r
    BY <1>1, <1>2, <1>6, <2>3
  <2> HIDE DEF t, b
  <2>6. t = SubSeq(Message(n), r + 1, b)
    BY <1>1, <2>3, <2>4, <2>5, IsCut
  <2> QED
    BY <2>6 DEF t, b
<1>9. incoming' = SubSeq(Message(n), (s + 1) + 1, n)
  <2> DEFINE t == incoming'
             a == s + 1
  <2>1. /\ t \in Seq({Byte, Nul}) /\ Len(t) = Len(incoming) - 1
        /\ \A k \in 1 .. Len(t) : t[k] = incoming[k + 1]
    BY <1>4, <1>5, HeadTailProperties
  <2>2. Len(t) = n - a
    BY <1>1, <1>2, <1>4, <2>1
  <2>3. \A k \in 1 .. n - a : t[k] = IF a + k = n THEN Nul ELSE Byte
    <3> SUFFICES ASSUME NEW k \in 1 .. n - a
                 PROVE  t[k] = IF a + k = n THEN Nul ELSE Byte
      OBVIOUS
    <3>1. k + 1 \in 1 .. n - s /\ s + (k + 1) = a + k /\ k \in 1 .. Len(t)
      BY <1>1, <1>2, <2>2
    <3> QED
      BY <1>4, <2>1, <3>1
  <2>4. a \in 0 .. n /\ n \in a .. n
    BY <1>6
  <2> HIDE DEF t, a
  <2>5. t = SubSeq(Message(n), a + 1, n)
    BY <2>1, <2>2, <2>3, <2>4, IsCut
  <2> QED
    BY <2>5 DEF t, a
<1>10. r <= s + 1
  BY <1>6
<1> QED
  BY <1>1, <1>5, <1>6, <1>8, <1>9, <1>10 DEF OnTheWay

LEMMA MessageSent ==
  ASSUME NEW n \in MessageSizes, ring = <<>>, incoming = <<>>,
         incoming' = incoming \o Message(n), received' = <<>>, ring' = ring
  PROVE  OnTheWay(n)'
<1>1. n \in Nat \ {0} /\ Message(n) \in Seq({Byte, Nul})
  BY MessageTyped
<1>2. incoming' = SubSeq(Message(n), 1, n)
  BY <1>1, WholeCut, ConcatEmptySeq
<1>3. SubSeq(Message(n), 1, 0) = <<>>
  BY SubSeqEmpty
<1> DEFINE z == 0
<1>4. z \in 0 .. n /\ z <= z /\ z < n /\ z + 1 = 1
  BY <1>1
<1>5. SubSeq(Message(n), 1, z) = <<>>
  BY <1>3
<1> HIDE DEF z
<1> QED
  BY <1>2, <1>4, <1>5 DEF OnTheWay

LEMMA NothingLostStep ==
  ASSUME MessagesFit, Typed, ControlHeldOnce, NothingLost, [TstatNext]_tstatVars
  PROVE  NothingLost'
<1>1. SUFFICES ASSUME sound', ~misread'
               PROVE  /\ event' = ReadEvent
                      /\ coms' # "IDLE" => \E n \in MessageSizes : OnTheWay(n)'
                      /\ coms' = "IDLE" => ring' = <<>> /\ incoming' = <<>>
                      /\ coms' = "IDLE" /\ iface' = "AWAIT_PULL" =>
                           ~comsError' /\ received' \in {Message(n) : n \in MessageSizes}
  BY DEF NothingLost
<1>2. (misread => misread') /\ (sound' => sound)
  <2>1. misread => misread'
    BY DEF TstatNext, Start, Schedule, TaskRuns, AppRuns, StartPull, IfaceRuns, Request, Reply,
           CommsRuns, CallerRuns, Delivery, Loss, Stray, others, history, tstatVars
  <2>2. sound' => sound
    <3>1. CASE TaskRuns
      BY <3>1 DEF TaskRuns, AppRuns, IfaceRuns, CommsRuns, CallerRuns, history
    <3>2. CASE ~TaskRuns
      BY <3>2 DEF TstatNext, Start, Schedule, Delivery, Loss, Stray, history, tstatVars
    <3> QED
      BY <3>1, <3>2
  <2> QED
    BY <2>1, <2>2
<1>3. /\ event = ReadEvent
      /\ coms # "IDLE" => \E n \in MessageSizes : OnTheWay(n)
      /\ coms = "IDLE" => ring = <<>> /\ incoming = <<>>
      /\ coms = "IDLE" /\ iface = "AWAIT_PULL" =>
           ~comsError /\ received \in {Message(n) : n \in MessageSizes}
      /\ coms # "IDLE" => NoTurn(asap, curr, Thread)
  BY <1>1, <1>2 DEF NothingLost, ControlHeldOnce
<1>4. ASSUME UNCHANGED comsVars, iface' \in {iface, "IDLE", "START_PULL"}
      PROVE  NothingLost'
  BY <1>3, <1>4 DEF comsVars, NothingLost, OnTheWay
<1>5. CASE Start \/ (Schedule /\ UNCHANGED <<comsVars, others, sound>>) \/ AppRuns \/ CallerRuns
           \/ UNCHANGED tstatVars
  <2>1. UNCHANGED comsVars /\ iface' \in {iface, "IDLE", "START_PULL"}
    BY <1>5 DEF Start, AppRuns, StartPull, Pulled, Update, StartPush, Pushed, CallerRuns,
                others, ifaceVars, tstatVars
  <2> QED
    BY <1>1, <1>4, <2>1 DEF NothingLost
<1>6. CASE IfaceRuns
  <2>1. CASE Request
    <3>1. coms = "IDLE"
      BY <1>3, <1>6 DEF IfaceRuns, NoTurn, Thread
    <3>2. PICK n \in MessageSizes : incoming' = incoming \o Message(n)
      BY <2>1 DEF Request, Send
    <3>3. /\ coms' = "START_RQST" /\ received' = <<>> /\ event' = event /\ ring' = ring
      BY <2>1 DEF Request, Recv
    <3>4. OnTheWay(n)'
      BY <1>3, <3>1, <3>2, <3>3, MessageSent
    <3> QED
      BY <1>3, <3>3, <3>4
  <2>2. CASE ~Request
    <3>1. UNCHANGED comsVars /\ iface' \in {iface, "IDLE", "START_PULL"}
      BY <1>6, <2>2 DEF IfaceRuns, Reply, IfaceEnd, ifaceVars
    <3> QED
      BY <1>1, <1>4, <3>1 DEF NothingLost
  <2> QED
    BY <2>1, <2>2
<1>7. CASE CommsRuns
  <2>1. iface' = iface /\ UNCHANGED <<event, incoming>> /\ ~Misjudged
    BY <1>1, <1>7 DEF CommsRuns, ComsRuns, others, ifaceVars
  <2>2. CASE coms = "IDLE"
    <3>1. UNCHANGED comsVars
      BY <1>7, <2>1, <2>2 DEF CommsRuns, ComsRuns, comsVars
    <3> QED
      BY <1>1, <1>4, <2>1, <3>1 DEF NothingLost
  <2>3. CASE coms = "START_RQST"
    <3>1. coms' = "AWAIT_RQST" /\ UNCHANGED <<event, ring, received, comsError, incoming>>
      BY <1>7, <2>1, <2>3 DEF CommsRuns, ComsRuns
    <3> QED
      BY <1>3, <2>3, <3>1 DEF OnTheWay
  <2>4. CASE coms = "AWAIT_RQST"
    <3>1. HandleEvent
      BY <1>7, <2>4 DEF CommsRuns, ComsRuns
    <3>2. coms' = "IDLE" => received' # received
      BY <1>3, <2>1, <2>4 DEF Misjudged
    <3>3. ReadBytes
      BY <1>3, <3>1, <3>2 DEF HandleEvent, EndGame, ReadEvent, ErrorEvent
    <3>4. PICK n \in MessageSizes : OnTheWay(n)
      BY <1>3, <2>4
    <3>5. \/ OnTheWay(n)' /\ coms' = coms
          \/ /\ coms' = "IDLE" /\ ~comsError' /\ received' = Message(n)
             /\ ring' = <<>> /\ incoming' = <<>>
      BY <2>1, <2>4, <3>2, <3>3, <3>4, ReadBytesCut
    <3> QED
      BY <1>3, <2>1, <2>4, <3>5
  <2> QED
    BY <2>2, <2>3, <2>4 DEF Typed, TstatTypeOK, ComsTypeOK
<1>8. CASE Delivery
  <2>1. /\ ByteArrives /\ incoming # <<>> /\ event' = ReadEvent /\ coms' = coms
    BY <1>8 DEF Delivery, ByteArrives, RxCallback
  <2>2. PICK n \in MessageSizes : OnTheWay(n)
    BY <1>3, <2>1
  <2>3. OnTheWay(n)'
    BY <2>1, <2>2, ByteArrivesCut
  <2> QED
    BY <1>3, <2>1, <2>3
<1>9. ~Loss /\ ~Stray
  BY <1>1 DEF Loss, Stray
<1> QED
  BY <1>5, <1>6, <1>7, <1>8, <1>9 DEF TstatNext, TaskRuns, Schedule
-------------------------------------------------------------------------------
(* The theorems. *)

RoundInv == Typed /\ CallerAfterRound /\ ControlHeldOnce /\ WokenByPull

LEMMA CountedTurns ==
  ASSUME asap \in Seq(Tasks \union {NoTask}), NEW S
  PROVE  /\ OneTurn(asap, curr, S) => Turns(S) <= 1
         /\ NoTurn(asap, curr, S) => Turns(S) = 0
<1>1. /\ OneTurn(asap, curr, S) => Cardinality(Places(asap, curr, S)) <= 1
      /\ NoTurn(asap, curr, S) => Cardinality(Places(asap, curr, S)) = 0
  BY TurnsCounted
<1>2. Turns(S) = Cardinality(Places(asap, curr, S))
  BY DEF Turns, Places
<1> QED
  BY <1>1, <1>2

LEMMA InitRoundInv == TstatInit => RoundInv
<1> SUFFICES ASSUME TstatInit PROVE RoundInv
  OBVIOUS
<1>1. asap = <<>> /\ curr = NoTask /\ app = "IDLE" /\ coms = "IDLE" /\ busy = FALSE
  BY DEF TstatInit, ComsInit, Init
<1>2. \A S : NoTask \notin S => NoTurn(asap, curr, S) /\ OneTurn(asap, curr, S)
  BY <1>1 DEF NoTurn, OneTurn
<1>3. NoTask \notin {Caller} /\ NoTask \notin Thread
  BY FourTasks DEF Thread
<1> QED
  BY <1>1, <1>2, <1>3, InitTyped DEF RoundInv, CallerAfterRound, ControlHeldOnce, WokenByPull

LEMMA SpecRoundInv == TstatSpec => []RoundInv
<1>1. RoundInv /\ [TstatNext]_tstatVars => RoundInv'
  BY StepTyped, CallerStep, ControlStep, WokenStep DEF RoundInv
<1> QED
  BY InitRoundInv, <1>1, PTL DEF TstatSpec

(* Every variable keeps its type; above all, the bytes that were read fit  *)
(* the client's buffer (the loop of coms_mgr_fn).                          *)
THEOREM RoundTypeCorrect == FairTstatSpec => []TstatTypeOK
<1>1. RoundInv => TstatTypeOK
  BY DEF RoundInv, Typed
<1> QED
  BY SpecRoundInv, <1>1, PTL DEF FairTstatSpec

(* The caller of tstat_app_start is called back at most once for each      *)
(* start, and after the round has ended, whatever the link and stray       *)
(* events do.                                                              *)
THEOREM RoundCompletedOnce == FairTstatSpec => []CompletedOnce
<1>1. RoundInv => CompletedOnce
  <2> SUFFICES ASSUME RoundInv PROVE CompletedOnce
    OBVIOUS
  <2>1. asap \in Seq(Tasks \union {NoTask})
    BY DEF RoundInv, Typed, TstatTypeOK, ComsTypeOK, TypeOK
  <2>2. /\ OneTurn(asap, curr, {Caller}) => Turns({Caller}) <= 1
        /\ NoTurn(asap, curr, {Caller}) => Turns({Caller}) = 0
    BY <2>1, CountedTurns
  <2> QED
    BY <2>2 DEF RoundInv, CallerAfterRound, CompletedOnce
<1> QED
  BY SpecRoundInv, <1>1, PTL DEF FairTstatSpec

(* At most one of tstat_app, model_iface and the caller has a turn at a    *)
(* time, as long as no request that began is taken for a failure.          *)
THEOREM RoundIsOneThread == FairTstatSpec => []OneThread
<1>1. RoundInv => OneThread
  <2> SUFFICES ASSUME RoundInv PROVE OneThread
    OBVIOUS
  <2>1. asap \in Seq(Tasks \union {NoTask})
    BY DEF RoundInv, Typed, TstatTypeOK, ComsTypeOK, TypeOK
  <2>2. OneTurn(asap, curr, Thread) => Turns(Thread) <= 1
    BY <2>1, CountedTurns
  <2> QED
    BY <2>2 DEF RoundInv, ControlHeldOnce, OneThread, Thread
<1> QED
  BY SpecRoundInv, <1>1, PTL DEF FairTstatSpec

(* When tstat_app runs in AWAIT_PULL and sees no error, the pull that it   *)
(* waits for has ended.                                                    *)
THEOREM ModelIsThere == FairTstatSpec => []ResumedWithModel
<1>1. RoundInv => ResumedWithModel
  <2> SUFFICES ASSUME RoundInv, curr = App, app = "AWAIT_PULL", ~misread
               PROVE  iface = "IDLE" /\ coms = "IDLE"
    BY DEF ResumedWithModel
  <2>1. ~NoTurn(asap, curr, {App}) /\ ~NoTurn(asap, curr, Thread)
    BY DEF NoTurn, Thread
  <2> QED
    BY <2>1 DEF RoundInv, ControlHeldOnce, WokenByPull
<1> QED
  BY SpecRoundInv, <1>1, PTL DEF FairTstatSpec

(* When buffer and ring are as long as the messages, a pull on a sound     *)
(* link gets the whole reply and no error, and leaves no byte behind.      *)
THEOREM PullGetsWholeMessage ==
  ASSUME MessagesFit PROVE FairTstatSpec => []WholeMessage
<1>1. TstatInit => NothingLost
  BY DEF TstatInit, ComsInit, NothingLost
<1>2. RoundInv /\ NothingLost /\ [TstatNext]_tstatVars => NothingLost'
  BY MessagesFit, NothingLostStep DEF RoundInv
<1>3. RoundInv /\ NothingLost => WholeMessage
  <2> SUFFICES ASSUME RoundInv, NothingLost, curr = Iface, iface = "AWAIT_PULL", sound, ~misread
               PROVE  /\ ~comsError
                      /\ received \in {Message(n) : n \in MessageSizes}
                      /\ ring = <<>> /\ incoming = <<>>
    BY DEF WholeMessage
  <2>1. ~NoTurn(asap, curr, Thread)
    BY DEF NoTurn, Thread
  <2>2. coms = "IDLE"
    BY <2>1 DEF RoundInv, ControlHeldOnce
  <2> QED
    BY <2>2 DEF NothingLost
<1> QED
  BY SpecRoundInv, <1>1, <1>2, <1>3, PTL DEF TstatSpec, FairTstatSpec
================================================================================
