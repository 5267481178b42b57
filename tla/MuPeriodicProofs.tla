---------------------------- MODULE MuPeriodicProofs ----------------------------
(***************************************************************************)
(* Proofs about the timers, MuTimer and MuPeriodic, for every set of them, *)
(* every length of the deferred array and every width of the clock: what   *)
(* the array holds of a timer agrees with the timer, whatever callbacks    *)
(* start and stop.                                                         *)
(***************************************************************************)
EXTENDS MuPeriodic, MuSchedProofs, SequenceTheorems

Has(d, t) == \E k \in DOMAIN d : d[k].task = t

\* At most one entry of t, and at that time.
Single(d, t, at) ==
  \A j, k \in DOMAIN d : d[j].task = t /\ d[k].task = t => j = k /\ d[j].at = at

Typed ==
  /\ now \in AbsTime
  /\ deferred \in Seq(Entry) /\ Len(deferred) <= MaxDeferred
  /\ timer \in [Timers -> [state : States, tics : Tics, until : Int, periodic : BOOLEAN]]
  /\ period \in Int
  /\ triggerAt \in AbsTime \/ (~IsRunning /\ calls = <<>>)
  /\ calls \in Seq({"start", "expiry"})
  /\ meddled \in BOOLEAN /\ refused \in BOOLEAN

\* What the array holds of the timers.
TimersHeld ==
  \A t \in Timers :
    IF Running(t) THEN Single(deferred, t, timer[t].until) ELSE ~Has(deferred, t)

\* What it holds of the periodic timer, and the one call of its target.
PeriodicHeld ==
  ~meddled =>
    /\ calls # <<>> => IsRunning /\ Len(calls) = 1
    /\ ~refused =>
         /\ Single(deferred, Periodic, triggerAt)
         /\ Has(deferred, Periodic) <=> IsRunning /\ calls = <<>>
-------------------------------------------------------------------------------
(* What the operations on the array do to the entries of a task. *)

\* r holds of t what d does.
Same(d, r, t) ==
  /\ \A at : Single(d, t, at) => Single(r, t, at)
  /\ Has(d, t) <=> Has(r, t)

LEMMA Popped ==
  ASSUME NEW d \in Seq(Entry), d # <<>>, NEW r, r = SubSeq(d, 1, Len(d) - 1)
  PROVE  /\ r \in Seq(Entry) /\ Len(r) = Len(d) - 1
         /\ \A t : /\ t # d[Len(d)].task => Same(d, r, t)
                   /\ Has(r, t) => Has(d, t)
                   /\ \A at : Single(d, t, at) =>
                        Single(r, t, at) /\ (t = d[Len(d)].task => ~Has(r, t))
<1>1. /\ r \in Seq(Entry) /\ Len(r) = Len(d) - 1 /\ Len(d) \in Nat \ {0}
      /\ DOMAIN d = 1 .. Len(d) /\ DOMAIN r = 1 .. Len(d) - 1
      /\ \A k \in 1 .. Len(d) - 1 : r[k] = d[k]
  <2> DEFINE n == Len(d) - 1
  <2>1. /\ Len(d) \in Nat \ {0} /\ DOMAIN d = 1 .. Len(d) /\ 1 \in Int /\ n \in Int
        /\ \A k \in 1 .. Len(d) : d[k] \in Entry
        /\ \A k \in 1 .. n : k \in 1 .. Len(d) /\ 1 + k - 1 = k
        /\ n - 1 + 1 = n
    BY EmptySeq
  <2> HIDE DEF n
  <2>2. /\ r \in Seq(Entry) /\ Len(r) = IF 1 <= n THEN n - 1 + 1 ELSE 0
        /\ \A k \in 1 .. n - 1 + 1 : r[k] = d[1 + k - 1]
    BY <2>1, SubSeqProperties DEF n
  <2>3. Len(r) = n /\ DOMAIN r = 1 .. n
    BY <2>1, <2>2 DEF n
  <2> QED
    BY <2>1, <2>2, <2>3 DEF n
<1>2. /\ Len(d) \in DOMAIN d /\ Len(d) \notin DOMAIN r
      /\ \A k \in DOMAIN r : k \in DOMAIN d /\ r[k] = d[k]
      /\ \A k \in DOMAIN d : k \in DOMAIN r \/ k = Len(d)
  BY <1>1
<1>3. \A t : /\ t # d[Len(d)].task => Same(d, r, t)
             /\ Has(r, t) => Has(d, t)
             /\ \A at : Single(d, t, at) =>
                  Single(r, t, at) /\ (t = d[Len(d)].task => ~Has(r, t))
  BY <1>2 DEF Same, Single, Has
<1> QED
  BY <1>1, <1>3

LEMMA InsertedEntries ==
  ASSUME NEW d \in Seq(Entry), NEW i \in 0 .. Len(d), NEW e \in Entry,
         NEW r, r = Inserted(d, i, e)
  PROVE  /\ r \in Seq(Entry) /\ Len(r) = Len(d) + 1
         /\ \A t : t # e.task => Same(d, r, t)
         /\ Has(r, e.task)
         /\ ~Has(d, e.task) => Single(r, e.task, e.at)
<1> DEFINE n == Len(d)
           Old(k) == IF k <= i THEN k ELSE k - 1   \* where an old entry was
           New(k) == IF k <= i THEN k ELSE k + 1   \* and is now
<1>1. /\ n \in Nat /\ DOMAIN d = 1 .. n /\ DOMAIN r = 1 .. n + 1 /\ i \in 0 .. n
      /\ \A k \in 1 .. n + 1 :
           r[k] = IF k <= i THEN d[k] ELSE IF k = i + 1 THEN e ELSE d[k - 1]
  BY DEF Inserted
<1> HIDE DEF n
<1>2. /\ i + 1 \in DOMAIN r /\ r[i + 1] = e
      /\ \A k \in DOMAIN r : k # i + 1 => Old(k) \in DOMAIN d /\ r[k] = d[Old(k)]
      /\ \A j, k \in DOMAIN r : j # i + 1 /\ k # i + 1 /\ Old(j) = Old(k) => j = k
      /\ \A k \in DOMAIN d : New(k) \in DOMAIN r /\ r[New(k)] = d[k]
  <2>1. i + 1 \in DOMAIN r /\ r[i + 1] = e
    <3>1. i + 1 \in 1 .. n + 1 /\ ~(i + 1 <= i)
      BY <1>1
    <3> QED
      BY <1>1, <3>1
  <2>2. \A k \in DOMAIN r : k # i + 1 => Old(k) \in DOMAIN d /\ r[k] = d[Old(k)]
    <3> SUFFICES ASSUME NEW k \in DOMAIN r, k # i + 1
                 PROVE  Old(k) \in DOMAIN d /\ r[k] = d[Old(k)]
      OBVIOUS
    <3>1. Old(k) \in DOMAIN d /\ k \in 1 .. n + 1
      BY <1>1
    <3>2. r[k] = IF k <= i THEN d[k] ELSE d[k - 1]
      BY <1>1, <3>1
    <3> QED
      BY <3>1, <3>2
  <2>3. \A j, k \in DOMAIN r : j # i + 1 /\ k # i + 1 /\ Old(j) = Old(k) => j = k
    BY <1>1
  <2>4. \A k \in DOMAIN d : New(k) \in DOMAIN r /\ r[New(k)] = d[k]
    BY <1>1
  <2> QED
    BY <2>1, <2>2, <2>3, <2>4
<1> HIDE DEF Old, New
<1>3. \A t : t # e.task => Same(d, r, t)
  BY <1>2 DEF Same, Single, Has
<1>4. Has(r, e.task)
  BY <1>2 DEF Has
<1>5. ~Has(d, e.task) => Single(r, e.task, e.at)
  BY <1>2 DEF Single, Has
<1>6. r \in Seq(Entry) /\ Len(r) = Len(d) + 1
  <2>1. \A k \in 1 .. n + 1 : r[k] \in Entry
    <3> SUFFICES ASSUME NEW k \in 1 .. n + 1 PROVE r[k] \in Entry
      OBVIOUS
    <3>1. CASE k = i + 1
      BY <1>2, <3>1
    <3>2. CASE k # i + 1
      <4>1. Old(k) \in DOMAIN d /\ r[k] = d[Old(k)]
        BY <1>1, <1>2, <3>2
      <4> QED
        BY <4>1
    <3> QED
      BY <3>1, <3>2
  <2>2. r \in [1 .. n + 1 -> Entry]
    BY <1>1, <2>1 DEF Inserted, n
  <2>3. n + 1 \in Nat
    BY <1>1
  <2> QED
    BY <2>2, <2>3 DEF n
<1> QED
  BY <1>3, <1>4, <1>5, <1>6

\* The bound on the length makes room whenever the array is shorter.
LEMMA ScheduledEntries ==
  ASSUME NEW d \in Seq(Entry), Len(d) <= MaxDeferred, NEW u \in Tasks, NEW at \in AbsTime,
         NEW r \in Scheduled(d, u, at)
  PROVE  /\ r \in Seq(Entry) /\ Len(r) <= MaxDeferred
         /\ \A t : t # u => Same(d, r, t)
         /\ Has(d, u) \/ Len(d) < MaxDeferred => Has(r, u)
         /\ ~Has(d, u) => Single(r, u, at)
         /\ r # d => Has(r, u)
<1>1. CASE r = d
  <2>1. Len(d) = MaxDeferred \/ Len(r) # Len(d)
    <3>1. CASE Len(d) # MaxDeferred
      <4>1. PICK i \in InsertionPoints(d, at) : r = Inserted(d, i, [at |-> at, task |-> u])
        BY <3>1 DEF Scheduled
      <4>2. DOMAIN r = 1 .. Len(d) + 1 /\ Len(d) \in Nat /\ DOMAIN d = 1 .. Len(d)
        BY <4>1 DEF Inserted
      <4> QED
        BY <1>1, <4>2
    <3> QED
      BY <3>1
  <2>2. Len(d) = MaxDeferred
    BY <1>1, <2>1
  <2> QED
    BY <1>1, <2>2, LimitsAssumption DEF Same, Single, Has
<1>2. CASE r # d
  <2> DEFINE e == [at |-> at, task |-> u]
  <2>1. Len(d) # MaxDeferred /\ \E i \in InsertionPoints(d, at) : r = Inserted(d, i, e)
    BY <1>2 DEF Scheduled
  <2>2. PICK i \in 0 .. Len(d) : r = Inserted(d, i, e)
    BY <2>1 DEF InsertionPoints
  <2>3. e \in Entry /\ e.at = at /\ e.task = u
    BY DEF Entry
  <2> HIDE DEF e
  <2>4. /\ r \in Seq(Entry) /\ Len(r) = Len(d) + 1
        /\ \A t : t # u => Same(d, r, t)
        /\ Has(r, u)
        /\ ~Has(d, u) => Single(r, u, at)
    BY <2>2, <2>3, InsertedEntries
  <2> QED
    BY <2>1, <2>4, LimitsAssumption
<1> QED
  BY <1>1, <1>2

LEMMA RemovedEntries ==
  ASSUME NEW d \in Seq(Entry), NEW u, NEW r \in Removals(d, u)
  PROVE  /\ r \in Seq(Entry) /\ Len(r) <= Len(d)
         /\ Has(d, u) => Len(r) < Len(d)
         /\ ~Has(r, u)
         /\ \A t : t # u => Same(d, r, t)
<1> DEFINE S == Kept(d, u)
           n == Cardinality(S)
<1>1. /\ S \subseteq DOMAIN d /\ DOMAIN d = 1 .. Len(d) /\ Len(d) \in Nat
      /\ \A k \in DOMAIN d : k \in S <=> d[k].task # u
  BY DEF Kept
<1>2. IsFiniteSet(DOMAIN d) /\ Cardinality(DOMAIN d) = Len(d)
  <2> DEFINE m == Len(d)
  <2>1. 1 \in Int /\ m \in Int /\ m \in Nat
    BY <1>1
  <2> HIDE DEF m
  <2>2. IsFiniteSet(1 .. m) /\ Cardinality(1 .. m) = IF 1 > m THEN 0 ELSE m - 1 + 1
    BY <2>1, FS_Interval
  <2>3. IsFiniteSet(1 .. m) /\ Cardinality(1 .. m) = m
    BY <2>1, <2>2
  <2> QED
    BY <1>1, <2>3 DEF m
<1> HIDE DEF S
<1>3. /\ IsFiniteSet(S) /\ n \in Nat /\ n <= Len(d)
      /\ S # DOMAIN d => n < Len(d)
  <2>1. /\ IsFiniteSet(S) /\ Cardinality(S) <= Cardinality(DOMAIN d)
        /\ Cardinality(DOMAIN d) = Cardinality(S) => DOMAIN d = S
    BY <1>1, <1>2, FS_Subset
  <2>2. n \in Nat
    BY <2>1, FS_CardinalityType
  <2> HIDE DEF n
  <2> QED
    BY <1>1, <1>2, <2>1, <2>2 DEF n
<1>4. PICK f \in InOrder(S) : r = [k \in 1 .. n |-> d[f[k]]]
  BY DEF Removals, S
<1>5. /\ f \in [1 .. n -> S]
      /\ \A i, j \in 1 .. n : f[i] = f[j] => i = j
      /\ \A x \in S : \E i \in 1 .. n : f[i] = x
  <2>1. S \subseteq Nat
    BY <1>1
  <2> QED
    BY <1>3, <2>1, InOrderOnto
<1> HIDE DEF n
<1>6. /\ DOMAIN r = 1 .. n
      /\ \A k \in DOMAIN r : f[k] \in DOMAIN d /\ f[k] \in S /\ r[k] = d[f[k]]
      /\ \A i, j \in DOMAIN r : f[i] = f[j] => i = j
      /\ \A x \in S : \E i \in DOMAIN r : f[i] = x
  BY <1>1, <1>4, <1>5
<1>7. r \in Seq(Entry) /\ Len(r) = n
  <2>1. \A k \in 1 .. n : d[f[k]] \in Entry
    BY <1>6
  <2>2. r \in [1 .. n -> Entry]
    BY <1>4, <2>1
  <2> QED
    BY <1>3, <2>2
<1>8. ~Has(r, u)
  BY <1>1, <1>6 DEF Has
<1>9. \A t : t # u => Same(d, r, t)
  BY <1>1, <1>6 DEF Same, Single, Has
<1>10. Has(d, u) => S # DOMAIN d
  BY <1>1 DEF Has
<1> QED
  BY <1>3, <1>7, <1>8, <1>9, <1>10
-------------------------------------------------------------------------------
(* What each action does to the array and to the timers. *)

LEMMA TaskKinds ==
  /\ Timers \subseteq Tasks /\ Others \subseteq Tasks /\ Periodic \in Tasks
  /\ Periodic \notin Timers /\ Periodic \notin Others
  /\ \A t \in Timers : t \notin Others
  BY TimersAssumption, PeriodicAssumption

LEMMA OffsetTyped ==
  ASSUME NEW t \in Int, NEW d \in Int
  PROVE  Offset(t, d) \in AbsTime /\ Offset(t, d) \in Int
<1>1. t + d \in Int /\ Offset(t, d) \in AbsTime
  BY WrappedValue DEF Offset
<1> QED
  BY <1>1, HalfRangeAssumption DEF AbsTime

\* The actions of a task other than the timers and the periodic timer.
LEMMA OtherKeeps ==
  ASSUME Typed, OtherStep \/ OtherCall \/ ClockTick \/ Return
  PROVE  /\ now' \in AbsTime /\ deferred' \in Seq(Entry) /\ Len(deferred') <= MaxDeferred
         /\ timer' = timer
         /\ \A t \in Tasks \ Others : Same(deferred, deferred', t)
<1>1. /\ deferred \in Seq(Entry) /\ Len(deferred) <= MaxDeferred /\ now \in AbsTime
      /\ now \in Int /\ Len(deferred) \in Nat
  BY HalfRangeAssumption DEF Typed, AbsTime
<1>2. \A t : Same(deferred, deferred, t)
  BY DEF Same
<1>3. CASE OtherStep
  <2>1. CASE StepIdle
    BY <1>1, <1>2, <1>3, <2>1 DEF StepIdle, OtherStep
  <2>2. CASE StepDeferred /\ Soonest.task \in Others
    <3>1. /\ deferred # <<>> /\ deferred' = SubSeq(deferred, 1, Len(deferred) - 1)
          /\ now' = now /\ timer' = timer /\ deferred[Len(deferred)].task \in Others
      BY <1>3, <2>2 DEF StepDeferred, Due, Soonest, OtherStep
    <3>2. /\ deferred' \in Seq(Entry) /\ Len(deferred') = Len(deferred) - 1
          /\ \A t : t # deferred[Len(deferred)].task => Same(deferred, deferred', t)
      BY <1>1, <3>1, Popped
    <3> QED
      BY <1>1, <3>1, <3>2, LimitsAssumption
  <2> QED
    BY <1>3, <2>1, <2>2 DEF OtherStep
<1>4. CASE OtherCall
  <2>1. now' = now /\ timer' = timer
    BY <1>4 DEF OtherCall, RemoveDeferred, DeferFor, SchedAux
  <2>2. PICK u \in Others : RemoveDeferred(u) \/ \E d \in Delays : DeferFor(u, d)
    BY <1>4 DEF OtherCall
  <2>3. CASE RemoveDeferred(u)
    <3>1. /\ deferred' \in Seq(Entry) /\ Len(deferred') <= Len(deferred)
          /\ \A t : t # u => Same(deferred, deferred', t)
      BY <1>1, <2>3, RemovedEntries DEF RemoveDeferred
    <3>2. Len(deferred') \in Nat
      BY <3>1
    <3> QED
      BY <1>1, <2>1, <3>1, <3>2, LimitsAssumption
  <2>4. CASE \E d \in Delays : DeferFor(u, d)
    <3>1. PICK d \in Delays : deferred' \in Scheduled(deferred, u, Offset(now, d))
      BY <2>4 DEF DeferFor, SchedAux
    <3>2. d \in Int
      BY WindowAssumption, HalfRangeAssumption DEF RelTime
    <3>3. Offset(now, d) \in AbsTime /\ u \in Tasks
      BY <1>1, <3>2, OffsetTyped, TaskKinds
    <3> QED
      BY <1>1, <2>1, <3>1, <3>3, ScheduledEntries
  <2> QED
    BY <2>2, <2>3, <2>4
<1>5. CASE ClockTick \/ Return
  <2>1. UNCHANGED <<deferred, timer>> /\ (now' = now \/ now' = Offset(now, 1))
    BY <1>5 DEF ClockTick, Tick, Return, TaskReturn
  <2>2. Offset(now, 1) \in AbsTime
    BY <1>1, OffsetTyped
  <2>3. \A t : Same(deferred, deferred', t)
    BY <1>2, <2>1
  <2> QED
    BY <1>1, <2>1, <2>2, <2>3
<1> QED
  BY <1>3, <1>4, <1>5

\* What a start, a stop or an expiry of the timer u leaves.
TimerKept(u) ==
  /\ now' = now /\ deferred' \in Seq(Entry) /\ Len(deferred') <= MaxDeferred
  /\ timer' \in [Timers -> [state : States, tics : Tics, until : Int, periodic : BOOLEAN]]
  /\ \A t \in Timers \ {u} : timer'[t] = timer[t]
  /\ \A t \in Tasks \ {u} : Same(deferred, deferred', t)
  /\ IF Running(u)' THEN Single(deferred', u, timer'[u].until) ELSE ~Has(deferred', u)
  /\ Has(deferred, u) /\ Running(u)' => Has(deferred', u)

LEMMA StoppedEntries ==
  ASSUME Typed, TimersHeld, NEW u \in Timers, NEW kept \in Stopped(u)
  PROVE  /\ kept \in Seq(Entry) /\ Len(kept) <= MaxDeferred /\ ~Has(kept, u)
         /\ Has(deferred, u) => Len(kept) < MaxDeferred
         /\ \A t \in Tasks \ {u} : Same(deferred, kept, t)
<1>1. deferred \in Seq(Entry) /\ Len(deferred) \in Nat /\ Len(deferred) <= MaxDeferred
  BY DEF Typed
<1>2. CASE Running(u)
  <2>1. kept \in Removals(deferred, u)
    BY <1>2 DEF Stopped
  <2>2. /\ kept \in Seq(Entry) /\ Len(kept) <= Len(deferred) /\ ~Has(kept, u)
        /\ Has(deferred, u) => Len(kept) < Len(deferred)
        /\ \A t : t # u => Same(deferred, kept, t)
    BY <1>1, <2>1, RemovedEntries
  <2>3. Len(kept) \in Nat
    BY <2>2
  <2> QED
    BY <1>1, <2>2, <2>3, LimitsAssumption
<1>3. CASE ~Running(u)
  BY <1>1, <1>3 DEF Stopped, TimersHeld, Same
<1> QED
  BY <1>2, <1>3

LEMMA SetKeeps ==
  ASSUME Typed, TimersHeld, NEW u \in Timers, Set(u)
  PROVE  TimerKept(u)
<1>1. /\ timer \in [Timers -> [state : States, tics : Tics, until : Int, periodic : BOOLEAN]]
      /\ now \in Int /\ u \in Tasks
  BY TaskKinds, HalfRangeAssumption DEF Typed, AbsTime
<1>2. CASE Stop(u)
  <2>1. now' = now /\ deferred' \in Stopped(u) /\ timer' = [timer EXCEPT ![u].state = "IDLE"]
    BY <1>2 DEF Stop
  <2>2. /\ timer' \in [Timers -> [state : States, tics : Tics, until : Int, periodic : BOOLEAN]]
        /\ \A t \in Timers \ {u} : timer'[t] = timer[t]
        /\ timer'[u].state = "IDLE"
    BY <1>1, <2>1 DEF States
  <2>3. ~Running(u)'
    BY <2>2 DEF Running
  <2> QED
    BY <2>1, <2>2, <2>3, StoppedEntries DEF TimerKept
<1>3. ASSUME NEW d \in Tics, NEW p \in BOOLEAN, Start(u, d, p)
      PROVE  TimerKept(u)
  <2>1. PICK kept \in Stopped(u) : deferred' \in Scheduled(kept, u, Offset(now, d))
    BY <1>3 DEF Start
  <2>2. now' = now /\ timer' = [timer EXCEPT ![u] = Started(d, p)]
    BY <1>3 DEF Start
  <2>3. Offset(now, d) \in AbsTime /\ Offset(now, d) \in Int
    <3>1. d \in Int
      BY TimersAssumption, WindowAssumption, HalfRangeAssumption DEF RelTime
    <3> QED
      BY <1>1, <3>1, OffsetTyped
  <2>4. /\ timer' \in [Timers -> [state : States, tics : Tics, until : Int, periodic : BOOLEAN]]
        /\ \A t \in Timers \ {u} : timer'[t] = timer[t]
        /\ timer'[u].state = "RUNNING" /\ timer'[u].until = Offset(now, d)
    BY <1>1, <1>3, <2>2, <2>3 DEF Started, States
  <2>5. /\ kept \in Seq(Entry) /\ Len(kept) <= MaxDeferred /\ ~Has(kept, u)
        /\ Has(deferred, u) => Len(kept) < MaxDeferred
        /\ \A t \in Tasks \ {u} : Same(deferred, kept, t)
    BY StoppedEntries
  <2>6. /\ deferred' \in Seq(Entry) /\ Len(deferred') <= MaxDeferred
        /\ \A t : t # u => Same(kept, deferred', t)
        /\ Len(kept) < MaxDeferred => Has(deferred', u)
        /\ Single(deferred', u, Offset(now, d))
    BY <1>1, <2>1, <2>3, <2>5, ScheduledEntries
  <2>7. \A t \in Tasks \ {u} : Same(deferred, deferred', t)
    BY <2>5, <2>6 DEF Same
  <2>8. Running(u)'
    BY <2>4 DEF Running
  <2> QED
    BY <2>2, <2>4, <2>5, <2>6, <2>7, <2>8 DEF TimerKept
<1> QED
  BY <1>2, <1>3 DEF Set

LEMMA ExpireKeeps ==
  ASSUME Typed, TimersHeld, NEW u \in Timers, Expire(u)
  PROVE  TimerKept(u)
<1> DEFINE rest == SubSeq(deferred, 1, Len(deferred) - 1)
           n == Len(deferred)
<1>1. /\ deferred \in Seq(Entry) /\ n \in Nat /\ n <= MaxDeferred
      /\ timer \in [Timers -> [state : States, tics : Tics, until : Int, periodic : BOOLEAN]]
      /\ u \in Tasks
  BY TaskKinds DEF Typed
<1>2. deferred # <<>> /\ deferred[n].task = u /\ now' = now /\ (Rearm(u) \/ Finish(u))
  BY DEF Expire, Due, Soonest
<1>3. n \in DOMAIN deferred
  BY <1>1, <1>2, EmptySeq
<1>4. Has(deferred, u) /\ Running(u) /\ Single(deferred, u, timer[u].until)
  BY <1>2, <1>3 DEF Has, TimersHeld
<1>5. /\ rest \in Seq(Entry) /\ Len(rest) = n - 1 /\ ~Has(rest, u)
      /\ \A t : t # u => Same(deferred, rest, t)
  <2>1. /\ rest \in Seq(Entry) /\ Len(rest) = Len(deferred) - 1
        /\ \A t : /\ t # deferred[Len(deferred)].task => Same(deferred, rest, t)
                  /\ Has(rest, t) => Has(deferred, t)
                  /\ \A at : Single(deferred, t, at) =>
                       Single(rest, t, at) /\ (t = deferred[Len(deferred)].task => ~Has(rest, t))
    <3> HIDE DEF rest
    <3>1. rest = SubSeq(deferred, 1, Len(deferred) - 1)
      BY DEF rest
    <3> QED
      BY <1>1, <1>2, <3>1, Popped
  <2>2. deferred[Len(deferred)].task = u
    BY <1>2
  <2> HIDE DEF rest
  <2>3. ~Has(rest, u)
    BY <1>4, <2>1, <2>2, Zenon
  <2>4. \A t : t # u => Same(deferred, rest, t)
    <3> SUFFICES ASSUME NEW t, t # u PROVE Same(deferred, rest, t)
      OBVIOUS
    <3>1. t # deferred[Len(deferred)].task
      BY <2>2
    <3> QED
      BY <2>1, <3>1, Zenon
  <2>5. rest \in Seq(Entry) /\ Len(rest) = n - 1
    BY <2>1
  <2> QED
    BY <2>3, <2>4, <2>5
<1>6. Len(rest) < MaxDeferred
  <2> HIDE DEF rest, n
  <2> QED
    BY <1>1, <1>5, LimitsAssumption
<1>7. CASE Rearm(u)
  <2>1. /\ timer' = [timer EXCEPT ![u].until = NextUntil(u)]
        /\ deferred' \in Scheduled(rest, u, NextUntil(u))
    BY <1>7 DEF Rearm
  <2>2. NextUntil(u) \in AbsTime /\ NextUntil(u) \in Int
    <3>1. timer[u].until \in Int /\ timer[u].tics \in Tics
      BY <1>1
    <3>2. \A d \in Tics : d \in Int
      BY TimersAssumption, WindowAssumption, HalfRangeAssumption DEF RelTime
    <3>3. timer[u].tics \in Int
      BY <3>1, <3>2
    <3> QED
      BY <3>1, <3>3, OffsetTyped DEF NextUntil
  <2>3. /\ timer' \in [Timers -> [state : States, tics : Tics, until : Int, periodic : BOOLEAN]]
        /\ \A t \in Timers \ {u} : timer'[t] = timer[t]
        /\ timer'[u].until = NextUntil(u)
    BY <1>1, <2>1, <2>2
  <2> HIDE DEF rest
  <2>4. /\ deferred' \in Seq(Entry) /\ Len(deferred') <= MaxDeferred
        /\ \A t : t # u => Same(rest, deferred', t)
        /\ Has(deferred', u) /\ Single(deferred', u, NextUntil(u))
    <3>1. Len(rest) <= MaxDeferred
      BY <1>1, <1>5, <1>6, LimitsAssumption
    <3> QED
      BY <1>1, <1>5, <1>6, <2>1, <2>2, <3>1, ScheduledEntries
  <2>5. \A t \in Tasks \ {u} : Same(deferred, deferred', t)
    BY <1>5, <2>4 DEF Same
  <2>6. Running(u)'
    BY <1>1, <1>4, <2>1 DEF Running
  <2> QED
    BY <1>2, <2>3, <2>4, <2>5, <2>6 DEF TimerKept
<1>8. CASE Finish(u)
  <2>1. timer' = [timer EXCEPT ![u].state = "IDLE"] /\ deferred' = rest
    BY <1>4, <1>8 DEF Finish
  <2>2. /\ timer' \in [Timers -> [state : States, tics : Tics, until : Int, periodic : BOOLEAN]]
        /\ \A t \in Timers \ {u} : timer'[t] = timer[t]
        /\ ~Running(u)'
    BY <1>1, <2>1 DEF States, Running
  <2> HIDE DEF rest, n
  <2>3. Len(rest) <= MaxDeferred
    BY <1>1, <1>5, <1>6, LimitsAssumption
  <2> QED
    BY <1>2, <1>5, <2>1, <2>2, <2>3 DEF TimerKept
<1> QED
  BY <1>2, <1>7, <1>8

\* What the actions of the periodic timer leave of the others.
TimersKept ==
  /\ now' = now /\ timer' = timer
  /\ \A t \in Timers : Same(deferred, deferred', t)

LEMMA PeriodicStartKeeps ==
  ASSUME Typed, PeriodicHeld, NEW d \in Periods, PeriodicStart(d)
  PROVE  TimersKept /\ Typed' /\ PeriodicHeld'
<1>1. /\ calls \in Seq({"start", "expiry"}) /\ Len(calls) \in Nat /\ period = 0
      /\ calls' = Append(calls, "start") /\ period' = d /\ triggerAt' = Offset(now, d)
      /\ meddled' = (meddled \/ calls # <<>>) /\ UNCHANGED <<now, deferred, timer, refused>>
  BY DEF Typed, PeriodicStart, IsRunning, timerVars, vars
<1>2. d \in Int /\ d # 0 /\ now \in Int
  BY PeriodicAssumption, WindowAssumption, HalfRangeAssumption DEF Typed, AbsTime, RelTime
<1>3. triggerAt' \in AbsTime
  BY <1>1, <1>2, OffsetTyped
<1>4. TimersKept
  BY <1>1 DEF TimersKept, Same
<1>5. calls' \in Seq({"start", "expiry"}) /\ calls' # <<>> /\ Len(calls') = Len(calls) + 1
  BY <1>1
<1>6. meddled' \in BOOLEAN
  BY <1>1
<1>7. Typed'
  BY <1>1, <1>2, <1>3, <1>5, <1>6 DEF Typed
<1>8. PeriodicHeld'
  <2> SUFFICES ASSUME ~meddled' PROVE PeriodicHeld'
    BY DEF PeriodicHeld
  <2>1. ~meddled /\ calls = <<>>
    BY <1>1
  <2>2. IsRunning' /\ Len(calls') = 1
    BY <1>1, <1>2, <1>5, <2>1 DEF IsRunning
  <2>3. ~refused => ~Has(deferred, Periodic)
    BY <1>1, <2>1 DEF PeriodicHeld, IsRunning
  <2>4. ~refused' => ~Has(deferred', Periodic) /\ Single(deferred', Periodic, triggerAt')
    BY <1>1, <2>3 DEF Has, Single
  <2> QED
    BY <1>5, <2>2, <2>4 DEF PeriodicHeld
<1> QED
  BY <1>4, <1>7, <1>8

LEMMA PeriodicStopRemoves ==
  ASSUME Typed, PeriodicStop
  PROVE  TimersKept /\ Typed' /\ PeriodicHeld'
<1>1. /\ deferred' \in Removals(deferred, Periodic) /\ IsRunning
      /\ period' = 0 /\ meddled' = (calls # <<>>) /\ refused' = FALSE
      /\ UNCHANGED <<now, timer, triggerAt, calls>>
  BY DEF PeriodicStop
<1>2. deferred \in Seq(Entry) /\ Len(deferred) <= MaxDeferred /\ Len(deferred) \in Nat
  BY DEF Typed
<1>3. /\ deferred' \in Seq(Entry) /\ Len(deferred') <= Len(deferred)
      /\ ~Has(deferred', Periodic)
      /\ \A t : t # Periodic => Same(deferred, deferred', t)
  BY <1>1, <1>2, RemovedEntries
<1>4. Len(deferred') <= MaxDeferred
  <2>1. Len(deferred') \in Nat
    BY <1>3
  <2> QED
    BY <1>2, <1>3, <2>1, LimitsAssumption
<1>5. TimersKept
  BY <1>1, <1>3, TaskKinds DEF TimersKept
<1>6. meddled' \in BOOLEAN /\ refused' \in BOOLEAN /\ period' \in Int /\ triggerAt' \in AbsTime
  <2>1. triggerAt \in AbsTime
    BY <1>1 DEF Typed
  <2>2. (calls # <<>>) \in BOOLEAN
    OBVIOUS
  <2>3. meddled' \in BOOLEAN
    BY <1>1, <2>2
  <2>4. period' \in Int /\ triggerAt' \in AbsTime
    BY <1>1, <2>1
  <2>5. refused' \in BOOLEAN
    BY <1>1, Zenon
  <2> QED
    BY <2>3, <2>4, <2>5
<1>7. Typed'
  BY <1>1, <1>3, <1>4, <1>6 DEF Typed
<1>8. Single(deferred', Periodic, triggerAt') /\ ~IsRunning'
  BY <1>1, <1>3 DEF Single, Has, IsRunning
<1>9. ~meddled' => calls' = <<>>
  BY <1>1
<1>10. PeriodicHeld'
  BY <1>3, <1>8, <1>9 DEF PeriodicHeld
<1> QED
  BY <1>5, <1>7, <1>10

LEMMA PeriodicExpireKeeps ==
  ASSUME Typed, PeriodicHeld, PeriodicExpire
  PROVE  TimersKept /\ Typed' /\ PeriodicHeld'
<1>1. /\ calls = <<>> /\ deferred # <<>> /\ deferred[Len(deferred)].task = Periodic
      /\ deferred' = SubSeq(deferred, 1, Len(deferred) - 1)
      /\ calls' = IF IsRunning THEN <<"expiry">> ELSE <<>>
      /\ UNCHANGED <<now, timer, period, triggerAt, meddled, refused>>
  BY DEF PeriodicExpire, StepDeferred, Due, Soonest
<1>2. deferred \in Seq(Entry) /\ Len(deferred) <= MaxDeferred /\ Len(deferred) \in Nat
  BY DEF Typed
<1>3. /\ deferred' \in Seq(Entry) /\ Len(deferred') = Len(deferred) - 1
      /\ \A t : /\ t # deferred[Len(deferred)].task => Same(deferred, deferred', t)
                /\ Has(deferred', t) => Has(deferred, t)
                /\ \A at : Single(deferred, t, at) =>
                     /\ Single(deferred', t, at)
                     /\ t = deferred[Len(deferred)].task => ~Has(deferred', t)
  BY <1>1, <1>2, Popped, ZenonT(60)
<1>4. /\ \A t : t # Periodic => Same(deferred, deferred', t)
      /\ \A at : Single(deferred, Periodic, at) =>
                  Single(deferred', Periodic, at) /\ ~Has(deferred', Periodic)
  <2> DEFINE top == deferred[Len(deferred)].task
  <2>1. top = Periodic
    BY <1>1
  <2>2. \A t : t # top => Same(deferred, deferred', t)
    BY <1>3, Zenon
  <2>3. \A at : Single(deferred, top, at) => Single(deferred', top, at) /\ ~Has(deferred', top)
    BY <1>3, Zenon
  <2> HIDE DEF top
  <2> QED
    BY <2>1, <2>2, <2>3
<1>5. Has(deferred, Periodic)
  <2>1. Len(deferred) \in DOMAIN deferred
    BY <1>1, <1>2, EmptySeq
  <2> QED
    BY <1>1, <2>1 DEF Has
<1>6. TimersKept
  BY <1>1, <1>4, TaskKinds DEF TimersKept
<1>7. /\ calls' \in Seq({"start", "expiry"})
      /\ calls' # <<>> => IsRunning /\ Len(calls') = 1
      /\ IsRunning => calls' # <<>>
  <2>1. CASE IsRunning
    BY <1>1, <2>1
  <2>2. CASE ~IsRunning
    BY <1>1, <2>2
  <2> QED
    BY <2>1, <2>2
<1>8. Len(deferred') <= MaxDeferred
  BY <1>2, <1>3, LimitsAssumption
<1>9. Typed'
  BY <1>1, <1>3, <1>7, <1>8 DEF Typed, IsRunning
<1>10. PeriodicHeld'
  <2> SUFFICES ASSUME ~meddled PROVE PeriodicHeld'
    BY <1>1 DEF PeriodicHeld
  <2>1. IsRunning' <=> IsRunning
    BY <1>1 DEF IsRunning
  <2>2. ASSUME ~refused'
        PROVE  /\ Single(deferred', Periodic, triggerAt') /\ ~Has(deferred', Periodic)
               /\ IsRunning
    BY <1>1, <1>4, <1>5, <2>2 DEF PeriodicHeld
  <2> QED
    BY <1>7, <2>1, <2>2 DEF PeriodicHeld
<1> QED
  BY <1>6, <1>9, <1>10

LEMMA TargetReturnsKeeps ==
  ASSUME Typed, PeriodicHeld, TargetReturns
  PROVE  TimersKept /\ Typed' /\ PeriodicHeld'
<1>1. /\ calls # <<>> /\ calls' = SubSeq(calls, 1, Len(calls) - 1)
      /\ triggerAt' = triggerAt \/ triggerAt' = Offset(triggerAt, period)
      /\ deferred' \in Scheduled(deferred, Periodic, triggerAt')
      /\ refused' = (refused \/ deferred' = deferred)
      /\ UNCHANGED <<now, timer, period, meddled>>
  BY DEF TargetReturns, Defers
<1>2. /\ deferred \in Seq(Entry) /\ Len(deferred) <= MaxDeferred
      /\ calls \in Seq({"start", "expiry"}) /\ Len(calls) \in Nat
  BY DEF Typed
<1>3. triggerAt' \in AbsTime
  <2>1. triggerAt \in AbsTime /\ triggerAt \in Int /\ period \in Int
    BY <1>1, HalfRangeAssumption DEF Typed, AbsTime
  <2> QED
    BY <1>1, <2>1, OffsetTyped
<1>4. /\ deferred' \in Seq(Entry) /\ Len(deferred') <= MaxDeferred
      /\ \A t : t # Periodic => Same(deferred, deferred', t)
      /\ ~Has(deferred, Periodic) => Single(deferred', Periodic, triggerAt')
      /\ deferred' # deferred => Has(deferred', Periodic)
  BY <1>1, <1>2, <1>3, TaskKinds, ScheduledEntries
<1>5. TimersKept
  BY <1>1, <1>4, TaskKinds DEF TimersKept
<1>6. /\ calls' \in Seq({"start", "expiry"}) /\ Len(calls') = Len(calls) - 1
  <2> DEFINE n == Len(calls) - 1
  <2>1. 1 \in Int /\ n \in Nat /\ \A k \in 1 .. n : calls[k] \in {"start", "expiry"}
    BY <1>1, <1>2, EmptySeq
  <2> HIDE DEF n
  <2>2. SubSeq(calls, 1, n) \in Seq({"start", "expiry"})
    BY <1>2, <2>1, SubSeqProperties
  <2>3. Len(SubSeq(calls, 1, n)) = n
    BY <2>1, SubSeqProperties
  <2> QED
    BY <1>1, <2>2, <2>3 DEF n
<1>7. Typed'
  <2>1. refused' \in BOOLEAN
    BY <1>1
  <2> QED
    BY <1>1, <1>3, <1>4, <1>6, <2>1 DEF Typed
<1>8. PeriodicHeld'
  <2> SUFFICES ASSUME ~meddled PROVE PeriodicHeld'
    BY <1>1 DEF PeriodicHeld
  <2>1. IsRunning' /\ Len(calls) = 1
    BY <1>1 DEF PeriodicHeld, IsRunning
  <2>2. calls' = <<>>
    BY <1>6, <2>1, EmptySeq
  <2>3. ASSUME ~refused'
        PROVE  Single(deferred', Periodic, triggerAt') /\ Has(deferred', Periodic)
    <3>1. ~refused /\ deferred' # deferred
      BY <1>1, <2>3
    <3>2. ~Has(deferred, Periodic)
      BY <1>1, <3>1 DEF PeriodicHeld
    <3> QED
      BY <1>4, <3>1, <3>2
  <2> QED
    BY <2>1, <2>2, <2>3 DEF PeriodicHeld
<1> QED
  BY <1>5, <1>7, <1>8
-------------------------------------------------------------------------------
TimersInv == Typed /\ TimersHeld /\ PeriodicHeld

LEMMA InitTimersInv ==
  ASSUME PeriodicInit
  PROVE  TimersInv
<1>1. /\ now \in AbsTime /\ deferred = <<>> /\ calls = <<>> /\ period = 0
      /\ meddled = FALSE /\ refused = FALSE
  BY DEF PeriodicInit, TimerInit, Init
<1>2. PICK s \in FreshStates, d \in Tics :
        timer = [t \in Timers |-> [state |-> s, tics |-> d, until |-> Unset, periodic |-> FALSE]]
  BY DEF PeriodicInit, TimerInit
<1>3. timer \in [Timers -> [state : States, tics : Tics, until : Int, periodic : BOOLEAN]]
  <2>1. Unset \in Int /\ s \in States
    BY TimersAssumption, HalfRangeAssumption DEF Unset
  <2> QED
    BY <1>2, <2>1
<1>4. deferred \in Seq(Entry) /\ Len(deferred) <= MaxDeferred
  BY <1>1, LimitsAssumption
<1>5. calls \in Seq({"start", "expiry"}) /\ period \in Int /\ ~IsRunning
  BY <1>1 DEF IsRunning
<1>6. meddled \in BOOLEAN /\ refused \in BOOLEAN
  BY <1>1, Zenon
<1>7. Typed
  BY <1>1, <1>3, <1>4, <1>5, <1>6 DEF Typed
<1>8. \A t, at : ~Has(deferred, t) /\ Single(deferred, t, at)
  BY <1>1 DEF Has, Single
<1>9. TimersHeld /\ PeriodicHeld
  BY <1>1, <1>5, <1>8 DEF TimersHeld, PeriodicHeld
<1> QED
  BY <1>7, <1>9 DEF TimersInv

\* An action that leaves the periodic timer and its entries leaves what is said of them.
LEMMA PeriodicUntouched ==
  ASSUME PeriodicHeld, UNCHANGED periodic, Same(deferred, deferred', Periodic)
  PROVE  PeriodicHeld'
<1>1. UNCHANGED <<period, triggerAt, calls, meddled, refused>>
  BY DEF periodic
<1>2. IsRunning' <=> IsRunning
  BY <1>1 DEF IsRunning
<1>3. /\ Single(deferred, Periodic, triggerAt) => Single(deferred', Periodic, triggerAt')
      /\ Has(deferred, Periodic) <=> Has(deferred', Periodic)
  BY <1>1 DEF Same
<1> QED
  BY <1>1, <1>2, <1>3 DEF PeriodicHeld

LEMMA TimersUntouched ==
  ASSUME TimersHeld, timer' = timer, \A t \in Timers : Same(deferred, deferred', t)
  PROVE  TimersHeld' /\ \A t \in Timers : Has(deferred, t) => Has(deferred', t)
<1>1. \A t \in Timers : Running(t)' <=> Running(t)
  BY DEF Running
<1>2. \A t \in Timers :
        /\ Has(deferred, t) <=> Has(deferred', t)
        /\ \A at : Single(deferred, t, at) => Single(deferred', t, at)
  BY DEF Same
<1> QED
  BY <1>1, <1>2 DEF TimersHeld

LEMMA TimerStepHeld ==
  ASSUME TimersHeld, NEW u \in Timers, TimerKept(u)
  PROVE  /\ TimersHeld'
         /\ \A t \in Timers : Has(deferred, t) /\ Running(t)' => Has(deferred', t)
<1> SUFFICES ASSUME NEW t \in Timers
             PROVE  /\ IF Running(t)' THEN Single(deferred', t, timer'[t].until)
                                      ELSE ~Has(deferred', t)
                    /\ Has(deferred, t) /\ Running(t)' => Has(deferred', t)
  BY DEF TimersHeld
<1>1. CASE t = u
  BY <1>1 DEF TimerKept
<1>2. CASE t # u
  <2>1. timer'[t] = timer[t] /\ Same(deferred, deferred', t)
    BY <1>2, TaskKinds DEF TimerKept
  <2>2. Running(t)' <=> Running(t)
    BY <2>1 DEF Running
  <2>3. IF Running(t) THEN Single(deferred, t, timer[t].until) ELSE ~Has(deferred, t)
    BY DEF TimersHeld
  <2> QED
    BY <2>1, <2>2, <2>3 DEF Same
<1> QED
  BY <1>1, <1>2

\* A step keeps the invariant, and a running timer its entry.
LEMMA TimersInvStep ==
  ASSUME TimersInv, [PeriodicNext]_periodicVars
  PROVE  /\ TimersInv'
         /\ \A t \in Timers : Has(deferred, t) /\ Running(t)' => Has(deferred', t)
<1>1. Typed /\ TimersHeld /\ PeriodicHeld
  BY DEF TimersInv
<1>2. CASE (OtherStep \/ OtherCall \/ ClockTick \/ Return) /\ UNCHANGED periodic
  <2>1. /\ now' \in AbsTime /\ deferred' \in Seq(Entry) /\ Len(deferred') <= MaxDeferred
        /\ timer' = timer
        /\ \A t \in Tasks \ Others : Same(deferred, deferred', t)
    BY <1>1, <1>2, OtherKeeps
  <2>2. (\A t \in Timers : Same(deferred, deferred', t)) /\ Same(deferred, deferred', Periodic)
    BY <2>1, TaskKinds
  <2>3. Typed'
    BY <1>1, <1>2, <2>1 DEF Typed, periodic, IsRunning
  <2> QED
    BY <1>1, <1>2, <2>1, <2>2, <2>3, PeriodicUntouched, TimersUntouched DEF TimersInv
<1>3. CASE (\E u \in Timers : Set(u) \/ Expire(u)) /\ UNCHANGED periodic
  <2>1. PICK u \in Timers : Set(u) \/ Expire(u)
    BY <1>3
  <2>2. TimerKept(u)
    BY <1>1, <2>1, SetKeeps, ExpireKeeps
  <2>3. Same(deferred, deferred', Periodic)
    BY <2>2, TaskKinds DEF TimerKept
  <2>4. Typed'
    BY <1>1, <1>3, <2>2 DEF Typed, TimerKept, periodic, IsRunning
  <2> QED
    BY <1>1, <1>3, <2>2, <2>3, <2>4, PeriodicUntouched, TimerStepHeld DEF TimersInv
<1>4. CASE PeriodicExpire \/ TargetReturns \/ PeriodicStop \/ \E d \in Periods : PeriodicStart(d)
  <2>1. TimersKept /\ Typed' /\ PeriodicHeld'
    BY <1>1, <1>4, PeriodicExpireKeeps, TargetReturnsKeeps, PeriodicStopRemoves, PeriodicStartKeeps
  <2> QED
    BY <1>1, <2>1, TimersUntouched DEF TimersInv, TimersKept
<1>5. CASE UNCHANGED periodicVars
  <2>1. UNCHANGED <<now, deferred, timer>> /\ UNCHANGED periodic
    BY <1>5 DEF periodicVars, timerVars, vars
  <2>2. \A t : Same(deferred, deferred', t)
    BY <2>1 DEF Same
  <2>3. Typed'
    BY <1>1, <2>1 DEF Typed, periodic, IsRunning
  <2> QED
    BY <1>1, <2>1, <2>2, <2>3, PeriodicUntouched, TimersUntouched DEF TimersInv
<1> QED
  BY <1>2, <1>3, <1>4, <1>5 DEF PeriodicNext, TimerStep

LEMMA SpecTimersInv == PeriodicSpec => []TimersInv
<1>1. PeriodicInit => TimersInv
  BY InitTimersInv
<1>2. TimersInv /\ [PeriodicNext]_periodicVars => TimersInv'
  BY TimersInvStep
<1> QED
  BY <1>1, <1>2, PTL DEF PeriodicSpec

LEMMA EntriesCounted ==
  ASSUME NEW t, NEW at, Single(deferred, t, at)
  PROVE  /\ Cardinality(EntriesOf(t)) = IF Has(deferred, t) THEN 1 ELSE 0
         /\ \A k \in EntriesOf(t) : deferred[k].at = at
<1> DEFINE E == EntriesOf(t)
<1>1. /\ \A j, k \in E : j = k
      /\ \A k \in E : deferred[k].at = at
      /\ E # {} <=> Has(deferred, t)
  BY DEF EntriesOf, Single, Has
<1> HIDE DEF E
<1>2. CASE Has(deferred, t)
  <2>1. PICK k \in E : TRUE
    BY <1>1, <1>2
  <2>2. E = {k}
    BY <1>1, <2>1
  <2>3. Cardinality(E) = 1
    BY <2>2, FS_Singleton
  <2> QED
    BY <1>1, <1>2, <2>3 DEF E
<1>3. CASE ~Has(deferred, t)
  <2>1. E = {}
    BY <1>1, <1>3
  <2>2. Cardinality(E) = 0
    BY <2>1, FS_EmptySet
  <2> QED
    BY <1>1, <1>3, <2>2 DEF E
<1> QED
  BY <1>2, <1>3

(* What the deferred queue holds of a timer is one entry, of a running     *)
(* timer, at its delay_until: a stop, a restart, an expiry or a callback   *)
(* that does any of them leaves no stale deferral behind.                  *)
THEOREM TimerEntriesHeld == PeriodicSpec => []TimerEntries
<1>1. TimersInv => TimerEntries
  <2> SUFFICES ASSUME TimersInv, NEW t \in Timers
               PROVE  /\ Cardinality(EntriesOf(t)) <= 1
                      /\ \A k \in EntriesOf(t) : Running(t) /\ deferred[k].at = timer[t].until
    BY DEF TimerEntries
  <2>1. IF Running(t) THEN Single(deferred, t, timer[t].until) ELSE ~Has(deferred, t)
    BY DEF TimersInv, TimersHeld
  <2>2. Single(deferred, t, timer[t].until)
    BY <2>1 DEF Single, Has
  <2>3. \A k \in EntriesOf(t) : Running(t)
    BY <2>1 DEF EntriesOf, Has
  <2> QED
    BY <2>2, <2>3, EntriesCounted
<1> QED
  BY <1>1, SpecTimersInv, PTL

(* The periodic timer's one entry is in the queue just while it runs and   *)
(* its target does not, at its trigger time, unless a call of its target   *)
(* started or stopped it or the queue had no room for it.                  *)
THEOREM PeriodicKeepsPace == PeriodicSpec => []KeepsPace
<1>1. TimersInv => KeepsPace
  <2> SUFFICES ASSUME TimersInv, ~meddled, ~refused
               PROVE  /\ Cardinality(EntriesOf(Periodic)) = IF IsRunning /\ calls = <<>> THEN 1 ELSE 0
                      /\ \A k \in EntriesOf(Periodic) : deferred[k].at = triggerAt
    BY DEF KeepsPace
  <2>1. /\ Single(deferred, Periodic, triggerAt)
        /\ Has(deferred, Periodic) <=> IsRunning /\ calls = <<>>
    BY DEF TimersInv, PeriodicHeld
  <2>2. /\ Cardinality(EntriesOf(Periodic)) = IF Has(deferred, Periodic) THEN 1 ELSE 0
        /\ \A k \in EntriesOf(Periodic) : deferred[k].at = triggerAt
    BY <2>1, EntriesCounted
  <2> QED
    BY <2>1, <2>2
<1> QED
  BY <1>1, SpecTimersInv, PTL

(* A timer that has its place in the queue keeps it while it runs: neither *)
(* its expiry nor a restart loses it, in a full queue either.              *)
THEOREM ArmedTimersKept == PeriodicSpec => ArmedStaysArmed
<1>1. TimersInv /\ [PeriodicNext]_periodicVars => [ArmedKept]_timerVars
  <2> SUFFICES ASSUME TimersInv, [PeriodicNext]_periodicVars,
                      NEW t \in Timers, Armed(t), Running(t)'
               PROVE  Armed(t)'
    BY DEF ArmedKept
  <2>1. Has(deferred, t) => Has(deferred', t)
    BY TimersInvStep
  <2>2. (EntriesOf(t) # {} <=> Has(deferred, t)) /\ (EntriesOf(t)' # {} <=> Has(deferred', t))
    BY DEF EntriesOf, Has
  <2> QED
    BY <2>1, <2>2 DEF Armed
<1> QED
  BY <1>1, SpecTimersInv, PTL DEF PeriodicSpec, ArmedStaysArmed
===============================================================================
