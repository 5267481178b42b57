----------------------------- MODULE MuSchedProofs -----------------------------
(***************************************************************************)
(* Proofs about MuSched for every number of tasks, every queue length and  *)
(* every width of the clock: type correctness, that the deferred array     *)
(* stays sorted across a wrap of the clock, and that a step never runs a   *)
(* deferred task early or before one that is due earlier; and about the    *)
(* arithmetic of MuTime that this rests on.                                *)
(***************************************************************************)
EXTENDS MuSched, TLAPS, FiniteSetTheorems, WellFoundedInduction

(* What the wrapping time arithmetic promises, for every word width. *)

\* The remainder that a word keeps of a number at most one range away.
LEMMA WrappedValue ==
  ASSUME NEW n \in Int
  PROVE  /\ Wrapped(n) \in AbsTime
         /\ n \in AbsTime => Wrapped(n) = n
         /\ n \in -(2 * HalfRange) .. -1 => Wrapped(n) = n + 2 * HalfRange
         /\ n \in 2 * HalfRange .. 4 * HalfRange - 1 => Wrapped(n) = n - 2 * HalfRange
  BY HalfRangeAssumption DEF Wrapped, AbsTime

\* A time moved by a relative time stays a time, and is that far from it.
LEMMA OffsetValue ==
  ASSUME NEW t \in AbsTime, NEW d \in RelTime
  PROVE  /\ Offset(t, d) \in AbsTime
         /\ Offset(t, d) - (t + d) \in {0, 2 * HalfRange, -(2 * HalfRange)}
  BY HalfRangeAssumption, WrappedValue, t + d \in Int DEF Offset, AbsTime, RelTime

(***************************************************************************)
(* Times that lie less than half the range of the word apart are ordered   *)
(* by mu_time_precedes and mu_time_follows as their distances from a       *)
(* common instant are, across a wrap of the counter too.                   *)
(***************************************************************************)
THEOREM WindowOrderHolds ==
  ASSUME NEW t \in AbsTime, NEW d \in RelTime, NEW e \in RelTime
  PROVE  WindowOrder(t, d, e)
<1> SUFFICES ASSUME d - e \in RelTime
             PROVE  Difference(Offset(t, d), Offset(t, e)) = d - e
  BY DEF WindowOrder, Precedes, Follows, RelTime
<1> DEFINE n == Offset(t, d) - Offset(t, e)
<1>1. /\ n \in -(2 * HalfRange) + 1 .. 2 * HalfRange - 1
      /\ n \in {d - e, d - e + 2 * HalfRange, d - e - 2 * HalfRange}
  <2>1. Offset(t, d) \in AbsTime /\ Offset(t, d) - (t + d) \in {0, 2 * HalfRange, -(2 * HalfRange)}
    BY OffsetValue
  <2>2. Offset(t, e) \in AbsTime /\ Offset(t, e) - (t + e) \in {0, 2 * HalfRange, -(2 * HalfRange)}
    BY OffsetValue
  <2> QED
    BY <2>1, <2>2, HalfRangeAssumption DEF AbsTime, RelTime
<1>2. Signed(Wrapped(n)) = d - e
  BY <1>1, HalfRangeAssumption, WrappedValue DEF Signed, AbsTime, RelTime
<1> QED
  BY <1>2 DEF Difference
-------------------------------------------------------------------------------
(* The scheduler. *)

\* How far ahead of the clock an entry lies; behind, if negative.
Ahead(e) == Difference(e.at, now)

\* Every entry lies in one half range of the clock.  Without this, comparing
\* two entries says nothing of their order.
Window ==
  \A k \in DOMAIN deferred : Ahead(deferred[k]) \in -MaxLag .. HalfRange - 1 - MaxLag

IInv == TypeOK /\ Window /\ DeferredSorted

LEMMA DifferenceValue ==
  ASSUME NEW x \in AbsTime, NEW y \in AbsTime
  PROVE  /\ Difference(x, y) \in RelTime
         /\ Difference(x, y) - (x - y) \in {0, 2 * HalfRange, -(2 * HalfRange)}
<1>1. x - y \in -(2 * HalfRange) + 1 .. 2 * HalfRange - 1
  BY HalfRangeAssumption DEF AbsTime
<1>2. /\ Wrapped(x - y) \in AbsTime
      /\ Wrapped(x - y) = IF x - y >= 0 THEN x - y ELSE x - y + 2 * HalfRange
  BY <1>1, WrappedValue, HalfRangeAssumption DEF AbsTime
<1> QED
  BY <1>1, <1>2, HalfRangeAssumption DEF Difference, Signed, AbsTime, RelTime

\* Two times compare as their distances from the clock do, inside the window.
LEMMA DifferenceInWindow ==
  ASSUME NEW x \in AbsTime, NEW y \in AbsTime, NEW t \in AbsTime,
         Difference(x, t) - Difference(y, t) \in -HalfRange + 1 .. HalfRange - 1
  PROVE  Difference(x, y) = Difference(x, t) - Difference(y, t)
<1> DEFINE a == Difference(x, t)
           b == Difference(y, t)
           c == Difference(x, y)
<1>1. /\ a - (x - t) \in {0, 2 * HalfRange, -(2 * HalfRange)}
      /\ b - (y - t) \in {0, 2 * HalfRange, -(2 * HalfRange)}
      /\ c - (x - y) \in {0, 2 * HalfRange, -(2 * HalfRange)}
      /\ a \in RelTime /\ b \in RelTime /\ c \in RelTime
  BY DifferenceValue
<1>2. x \in Int /\ y \in Int /\ t \in Int /\ a \in Int /\ b \in Int /\ c \in Int
  BY <1>1, HalfRangeAssumption DEF AbsTime, RelTime
<1> HIDE DEF a, b, c
<1>3. c \in -HalfRange .. HalfRange - 1 /\ a - b \in -HalfRange + 1 .. HalfRange - 1
  BY <1>1 DEF RelTime, a, b
<1> QED
  <2>1. c = a - b
    BY <1>1, <1>2, <1>3, HalfRangeAssumption
  <2> QED
    BY <2>1 DEF a, b, c

LEMMA OffsetAhead ==
  ASSUME NEW t \in AbsTime, NEW d \in RelTime
  PROVE  Difference(Offset(t, d), t) = d
<1>1. Offset(t, d) \in AbsTime /\ Offset(t, d) - (t + d) \in {0, 2 * HalfRange, -(2 * HalfRange)}
  BY OffsetValue
<1> DEFINE o == Offset(t, d)
           c == Difference(o, t)
<1>2. c \in RelTime /\ c - (o - t) \in {0, 2 * HalfRange, -(2 * HalfRange)}
  BY <1>1, DifferenceValue
<1>3. o \in Int /\ c \in Int /\ t \in Int /\ d \in Int
  BY <1>1, <1>2, HalfRangeAssumption DEF AbsTime, RelTime
<1> HIDE DEF o, c
<1>4. c = d
  BY <1>1, <1>2, <1>3, HalfRangeAssumption DEF RelTime, o
<1> QED
  BY <1>4 DEF c, o
-------------------------------------------------------------------------------
LEMMA InitIInv == Init => IInv
  BY LimitsAssumption DEF Init, IInv, TypeOK, Window, DeferredSorted

LEMMA EntryTyped ==
  ASSUME TypeOK, NEW k \in DOMAIN deferred
  PROVE  /\ deferred[k] \in Entry
         /\ deferred[k].at \in AbsTime
         /\ deferred[k].task \in Tasks
         /\ Ahead(deferred[k]) \in RelTime
<1>1. deferred[k] \in Entry
  BY DEF TypeOK
<1>2. deferred[k].at \in AbsTime /\ deferred[k].task \in Tasks /\ now \in AbsTime
  BY <1>1 DEF Entry, TypeOK
<1> QED
  BY <1>1, <1>2, DifferenceValue DEF Ahead

\* Inside the window, sorted by mu_time_precedes is sorted by distance.
LEMMA SortedByAhead ==
  ASSUME TypeOK, Window, NEW k \in DOMAIN deferred, NEW l \in DOMAIN deferred
  PROVE  Difference(deferred[k].at, deferred[l].at)
           = Ahead(deferred[k]) - Ahead(deferred[l])
<1>1. /\ Ahead(deferred[k]) \in -MaxLag .. HalfRange - 1 - MaxLag
      /\ Ahead(deferred[l]) \in -MaxLag .. HalfRange - 1 - MaxLag
  BY DEF Window
<1>2. Ahead(deferred[k]) - Ahead(deferred[l]) \in -HalfRange + 1 .. HalfRange - 1
  BY <1>1, WindowAssumption, HalfRangeAssumption
<1> QED
  BY <1>2, EntryTyped, DifferenceInWindow DEF Ahead, TypeOK

\* What a step that leaves the clock and the array alone preserves.
LEMMA SameDeferred ==
  ASSUME Window, DeferredSorted, UNCHANGED <<now, deferred>>
  PROVE  Window' /\ DeferredSorted'
  BY DEF Window, DeferredSorted, Ahead

\* A selection of the array's entries, in their order, is as good an array.
LEMMA SelectionKeeps ==
  ASSUME TypeOK, Window, DeferredSorted, now' = now,
         NEW n \in Nat, NEW f \in [1 .. n -> DOMAIN deferred],
         \A i, j \in 1 .. n : i < j => f[i] < f[j],
         deferred' = [k \in 1 .. n |-> deferred[f[k]]]
  PROVE  deferred' \in Seq(Entry) /\ Len(deferred') = n /\ Window' /\ DeferredSorted'
<1>1. deferred' \in Seq(Entry) /\ DOMAIN deferred' = 1 .. n /\ Len(deferred') = n
  BY EntryTyped
<1>2. \A k \in 1 .. n : f[k] \in DOMAIN deferred /\ deferred'[k] = deferred[f[k]]
  OBVIOUS
<1>3. Window'
  BY <1>1, <1>2 DEF Window, Ahead
<1>4. DeferredSorted'
  BY <1>1, <1>2 DEF DeferredSorted
<1> QED
  BY <1>1, <1>3, <1>4

LEMMA RemovalTyped ==
  ASSUME TypeOK, Window, DeferredSorted, NEW t \in Tasks, RemoveDeferred(t)
  PROVE  deferred' \in Seq(Entry) /\ Len(deferred') <= MaxDeferred /\ Window' /\ DeferredSorted'
<1> DEFINE S == Kept(deferred, t)
           n == Cardinality(S)
<1>1. S \subseteq 1 .. Len(deferred) /\ Len(deferred) \in Nat
  BY DEF Kept, TypeOK
<1>2. n \in Nat /\ n <= Len(deferred)
  <2>1. IsFiniteSet(1 .. Len(deferred)) /\ Cardinality(1 .. Len(deferred)) = Len(deferred)
    <3>1. Len(deferred) \in Int /\ 1 \in Int
      BY <1>1
    <3>2. IsFiniteSet(1 .. Len(deferred))
          /\ Cardinality(1 .. Len(deferred)) = IF 1 > Len(deferred) THEN 0 ELSE Len(deferred) - 1 + 1
      BY <3>1, FS_Interval
    <3>3. deferred \in Seq(Entry)
      BY DEF TypeOK
    <3> QED
      BY <1>1, <3>2, <3>3
  <2> QED
    BY <1>1, <2>1, FS_Subset, FS_CardinalityType
<1>3. PICK f \in [1 .. n -> S] :
        /\ \A i, j \in 1 .. n : i < j => f[i] < f[j]
        /\ deferred' = [k \in 1 .. n |-> deferred[f[k]]]
  BY DEF RemoveDeferred, Removals, InOrder
<1>4. f \in [1 .. n -> DOMAIN deferred]
  BY <1>1 DEF TypeOK
<1> HIDE DEF n, S
<1>5. deferred' \in Seq(Entry) /\ Len(deferred') = n /\ Window' /\ DeferredSorted'
  BY <1>2, <1>3, <1>4, SelectionKeeps DEF RemoveDeferred
<1>6. Len(deferred) <= MaxDeferred
  BY DEF TypeOK
<1> QED
  BY <1>1, <1>2, <1>5, <1>6, LimitsAssumption

LEMMA PopKeeps ==
  ASSUME TypeOK, Window, DeferredSorted, StepDeferred
  PROVE  deferred' \in Seq(Entry) /\ Len(deferred') <= MaxDeferred /\ Window' /\ DeferredSorted'
<1> DEFINE n == Len(deferred) - 1
           f == [k \in 1 .. n |-> k]
<1>1. deferred # <<>> /\ deferred \in Seq(Entry) /\ Len(deferred) <= MaxDeferred
  BY DEF StepDeferred, Due, TypeOK
<1>2. n \in Nat /\ f \in [1 .. n -> DOMAIN deferred] /\ \A i, j \in 1 .. n : i < j => f[i] < f[j]
  BY <1>1
<1>3. deferred' = [k \in 1 .. n |-> deferred[f[k]]]
  BY <1>1, <1>2 DEF StepDeferred
<1>4. now' = now
  BY DEF StepDeferred
<1> HIDE DEF n, f
<1>5. deferred' \in Seq(Entry) /\ Len(deferred') = n /\ Window' /\ DeferredSorted'
  BY <1>2, <1>3, <1>4, SelectionKeeps
<1> QED
  BY <1>1, <1>5, LimitsAssumption DEF n

LEMMA InsertKeeps ==
  ASSUME TypeOK, Window, DeferredSorted, now' = now, Len(deferred) < MaxDeferred,
         NEW t \in Tasks, NEW d \in Delays,
         NEW i \in InsertionPoints(deferred, Offset(now, d)),
         deferred' = Inserted(deferred, i, [at |-> Offset(now, d), task |-> t])
  PROVE  deferred' \in Seq(Entry) /\ Len(deferred') <= MaxDeferred /\ Window' /\ DeferredSorted'
<1> DEFINE n == Len(deferred)
           e == [at |-> Offset(now, d), task |-> t]
<1>1. /\ n \in Nat /\ DOMAIN deferred = 1 .. n /\ i \in 0 .. n
      /\ now \in AbsTime /\ d \in RelTime /\ d \in -MaxLag .. HalfRange - 1 - MaxLag
  BY WindowAssumption, HalfRangeAssumption DEF TypeOK, InsertionPoints, RelTime
<1>2. e \in Entry /\ Ahead(e) = d /\ e.at = Offset(now, d)
  BY <1>1, OffsetValue, OffsetAhead DEF Entry, Ahead
<1>3. \A k \in 1 .. n :
        /\ deferred[k] \in Entry
        /\ Ahead(deferred[k]) \in -MaxLag .. HalfRange - 1 - MaxLag
        /\ Difference(deferred[k].at, e.at) = Ahead(deferred[k]) - d
        /\ Difference(e.at, deferred[k].at) = d - Ahead(deferred[k])
  <2> SUFFICES ASSUME NEW k \in 1 .. n
               PROVE  /\ deferred[k] \in Entry
                      /\ Ahead(deferred[k]) \in -MaxLag .. HalfRange - 1 - MaxLag
                      /\ Difference(deferred[k].at, e.at) = Ahead(deferred[k]) - d
                      /\ Difference(e.at, deferred[k].at) = d - Ahead(deferred[k])
    OBVIOUS
  <2>1. /\ deferred[k] \in Entry /\ deferred[k].at \in AbsTime /\ e.at \in AbsTime
        /\ Ahead(deferred[k]) \in -MaxLag .. HalfRange - 1 - MaxLag
    BY <1>1, <1>2, EntryTyped DEF Window, Entry
  <2>2. /\ Ahead(deferred[k]) - d \in -HalfRange + 1 .. HalfRange - 1
        /\ d - Ahead(deferred[k]) \in -HalfRange + 1 .. HalfRange - 1
    BY <1>1, <2>1, WindowAssumption, HalfRangeAssumption
  <2> QED
    BY <1>1, <1>2, <2>1, <2>2, DifferenceInWindow DEF Ahead
<1>4. /\ i # 0 => Ahead(deferred[i]) > d
      /\ \A k \in i + 1 .. n : Ahead(deferred[k]) <= d
  BY <1>1, <1>2, <1>3, WindowAssumption, HalfRangeAssumption DEF InsertionPoints, Follows
<1>5. \A k, l \in 1 .. n : k < l => Ahead(deferred[k]) >= Ahead(deferred[l])
  <2> SUFFICES ASSUME NEW k \in 1 .. n, NEW l \in 1 .. n, k < l
               PROVE  Ahead(deferred[k]) >= Ahead(deferred[l])
    OBVIOUS
  <2>1. ~(Ahead(deferred[k]) - Ahead(deferred[l]) < 0)
    BY <1>1, SortedByAhead DEF DeferredSorted, Precedes
  <2>2. Ahead(deferred[k]) \in Int /\ Ahead(deferred[l]) \in Int
    BY <1>3, WindowAssumption, HalfRangeAssumption
  <2> QED
    BY <2>1, <2>2
<1>a. d \in Int /\ \A k \in 1 .. n : Ahead(deferred[k]) \in Int
  BY <1>1, <1>3, WindowAssumption, HalfRangeAssumption
<1> DEFINE Old(k) == IF k <= i THEN k ELSE k - 1   \* where an old entry was
<1>6. /\ DOMAIN deferred' = 1 .. n + 1
      /\ \A k \in 1 .. n + 1 :
           deferred'[k] = IF k <= i THEN deferred[k] ELSE IF k = i + 1 THEN e ELSE deferred[k - 1]
  BY DEF Inserted
<1> HIDE DEF e, n
<1>7. \A k \in 1 .. n + 1 :
        /\ k = i + 1 => deferred'[k] = e
        /\ k # i + 1 => Old(k) \in 1 .. n /\ deferred'[k] = deferred[Old(k)]
  <2> SUFFICES ASSUME NEW k \in 1 .. n + 1
               PROVE  /\ k = i + 1 => deferred'[k] = e
                      /\ k # i + 1 => Old(k) \in 1 .. n /\ deferred'[k] = deferred[Old(k)]
    OBVIOUS
  <2>1. deferred'[k] = IF k <= i THEN deferred[k] ELSE IF k = i + 1 THEN e ELSE deferred[k - 1]
    BY <1>6
  <2>2. k = i + 1 => ~(k <= i)
    BY <1>1
  <2>3. k # i + 1 => Old(k) \in 1 .. n
    BY <1>1
  <2> QED
    BY <2>1, <2>2, <2>3
<1>8. \A k, l \in 1 .. n + 1 : k < l /\ k # i + 1 /\ l # i + 1 => Old(k) < Old(l)
  BY <1>1
<1>9. \A k \in 1 .. n + 1 : deferred'[k] \in {deferred[j] : j \in 1 .. n} \union {e}
  BY <1>7
<1> HIDE DEF Old
<1>10. deferred' \in Seq(Entry) /\ Len(deferred') = n + 1
  <2>1. \A k \in 1 .. n + 1 : deferred'[k] \in Entry
    BY <1>2, <1>3, <1>9
  <2>2. deferred' \in [1 .. n + 1 -> Entry]
    BY <1>6, <2>1 DEF Inserted, n
  <2>3. n + 1 \in Nat
    BY <1>1
  <2> QED
    BY <2>2, <2>3
<1>11. Window'
  <2>1. \A k \in 1 .. n + 1 : Ahead(deferred'[k]) \in -MaxLag .. HalfRange - 1 - MaxLag
    BY <1>1, <1>2, <1>3, <1>9
  <2> QED
    BY <1>6, <2>1 DEF Window, Ahead
<1>12. DeferredSorted'
  <2> SUFFICES ASSUME NEW k \in 1 .. n + 1, NEW l \in 1 .. n + 1, k < l
               PROVE  ~Precedes(deferred'[k].at, deferred'[l].at)
    BY <1>6 DEF DeferredSorted
  <2>1. CASE k # i + 1 /\ l # i + 1
    <3>1. /\ Old(k) \in DOMAIN deferred /\ deferred'[k] = deferred[Old(k)]
          /\ Old(l) \in DOMAIN deferred /\ deferred'[l] = deferred[Old(l)]
      BY <1>1, <1>7, <2>1
    <3>2. Old(k) < Old(l)
      BY <1>8, <2>1
    <3> QED
      BY <3>1, <3>2 DEF DeferredSorted
  <2>2. CASE l = i + 1
    <3>1. k # i + 1 /\ k <= i /\ i # 0 /\ i \in 1 .. n /\ k \in 1 .. n
      BY <1>1, <2>2
    <3>2. deferred'[k] = deferred[k] /\ deferred'[l] = e
      BY <1>7, <2>2, <3>1 DEF Old
    <3>3. Ahead(deferred[i]) > d
      BY <1>4, <3>1
    <3>4. Ahead(deferred[k]) >= Ahead(deferred[i])
      <4>1. CASE k = i
        BY <1>a, <3>1, <4>1
      <4>2. CASE k < i
        BY <1>5, <3>1, <4>2
      <4> QED
        BY <3>1, <4>1, <4>2
    <3>5. Difference(deferred'[k].at, deferred'[l].at) = Ahead(deferred[k]) - d
      BY <1>3, <3>1, <3>2
    <3> QED
      BY <1>a, <3>1, <3>3, <3>4, <3>5 DEF Precedes
  <2>3. CASE k = i + 1
    <3>1. l # i + 1 /\ ~(l <= i) /\ l - 1 \in i + 1 .. n /\ l - 1 \in 1 .. n
      BY <1>1, <2>3
    <3>2. deferred'[l] = deferred[l - 1] /\ deferred'[k] = e
      BY <1>7, <2>3, <3>1 DEF Old
    <3>3. Ahead(deferred[l - 1]) <= d
      BY <1>4, <3>1
    <3>4. Difference(deferred'[k].at, deferred'[l].at) = d - Ahead(deferred[l - 1])
      BY <1>3, <3>1, <3>2
    <3> QED
      BY <1>a, <3>1, <3>3, <3>4 DEF Precedes
  <2> QED
    BY <2>1, <2>2, <2>3
<1> QED
  BY <1>1, <1>10, <1>11, <1>12, LimitsAssumption DEF n

LEMMA TickKeeps ==
  ASSUME TypeOK, Window, DeferredSorted, Tick
  PROVE  now' \in AbsTime /\ Window' /\ DeferredSorted'
<1>1. now \in AbsTime /\ now' = Offset(now, 1) /\ deferred' = deferred
  BY DEF TypeOK, Tick
<1>2. now' \in AbsTime
  BY <1>1, WrappedValue, HalfRangeAssumption DEF Offset, AbsTime
<1>3. Window'
  <2> SUFFICES ASSUME NEW k \in DOMAIN deferred
               PROVE  Difference(deferred[k].at, now') \in -MaxLag .. HalfRange - 1 - MaxLag
    BY <1>1 DEF Window, Ahead
  <2> DEFINE x == deferred[k].at
             a == Difference(x, now)
             b == Difference(x, now')
             c == Difference(now', now)
  <2>1. x \in AbsTime /\ a \in -MaxLag + 1 .. HalfRange - 1 - MaxLag
    BY EntryTyped, WindowAssumption, HalfRangeAssumption DEF Window, Ahead, Tick
  <2>2. HalfRange >= 2
    BY <2>1, WindowAssumption, HalfRangeAssumption
  <2>3. c = 1
    BY <1>1, <2>2, OffsetAhead, HalfRangeAssumption DEF RelTime
  <2>4. a - c \in -HalfRange + 1 .. HalfRange - 1
    BY <2>1, <2>3, WindowAssumption, HalfRangeAssumption
  <2>5. b = a - c
    BY <1>1, <1>2, <2>1, <2>4, DifferenceInWindow
  <2> HIDE DEF a, b, c, x
  <2>6. b \in -MaxLag .. HalfRange - 1 - MaxLag
    BY <2>1, <2>3, <2>5, WindowAssumption, HalfRangeAssumption
  <2> QED
    BY <2>6 DEF b, x
<1>4. DeferredSorted'
  BY <1>1 DEF DeferredSorted
<1> QED
  BY <1>2, <1>3, <1>4

LEMMA StepIInv == IInv /\ [Next]_vars => IInv'
<1> SUFFICES ASSUME TypeOK, Window, DeferredSorted, [Next]_vars
             PROVE  TypeOK' /\ Window' /\ DeferredSorted'
  BY DEF IInv
<1>1. CASE StepIrq
  <2>1. Head(irq) \in Tasks /\ Tail(irq) \in Seq(IsrTasks) /\ Len(Tail(irq)) <= MaxIrq
    BY <1>1, TasksAssumption, LimitsAssumption DEF StepIrq, TypeOK
  <2> QED
    BY <1>1, <2>1, SameDeferred DEF StepIrq, TypeOK
<1>2. CASE StepDeferred
  <2>1. curr' \in Tasks
    BY <1>2, EntryTyped DEF StepDeferred, Due, Soonest, TypeOK
  <2> QED
    BY <1>2, <2>1, PopKeeps DEF StepDeferred, TypeOK
<1>3. CASE StepAsap
  <2>1. /\ Head(asap) \in Tasks \union {NoTask}
        /\ Tail(asap) \in Seq(Tasks \union {NoTask}) /\ Len(Tail(asap)) <= MaxAsap
    BY <1>3, LimitsAssumption DEF StepAsap, TypeOK
  <2> QED
    BY <1>3, <2>1, SameDeferred DEF StepAsap, TypeOK
<1>4. CASE StepIdle \/ TaskReturn
  BY <1>4, SameDeferred DEF StepIdle, TaskReturn, TypeOK
<1>5. ASSUME NEW t \in Tasks \union {NoTask}, Asap(t)
      PROVE  TypeOK' /\ Window' /\ DeferredSorted'
  <2>1. asap' \in Seq(Tasks \union {NoTask}) /\ Len(asap') <= MaxAsap
    BY <1>5, LimitsAssumption DEF Asap, Queued, TypeOK
  <2> QED
    BY <1>5, <2>1, SameDeferred DEF Asap, TypeOK
<1>6. ASSUME NEW t \in Tasks \union {NoTask}, SetIdle(t)
      PROVE  TypeOK' /\ Window' /\ DeferredSorted'
  BY <1>6, SameDeferred DEF SetIdle, TypeOK
<1>7. ASSUME NEW t \in Tasks, NEW d \in Delays, SchedAux(t, Offset(now, d))
      PROVE  TypeOK' /\ Window' /\ DeferredSorted'
  <2>1. CASE Len(deferred) = MaxDeferred
    BY <1>7, <2>1, SameDeferred DEF SchedAux, Scheduled, TypeOK
  <2>2. CASE Len(deferred) # MaxDeferred
    <3>1. /\ Len(deferred) < MaxDeferred /\ now' = now
          /\ \E i \in InsertionPoints(deferred, Offset(now, d)) :
               deferred' = Inserted(deferred, i, [at |-> Offset(now, d), task |-> t])
      BY <1>7, <2>2, LimitsAssumption DEF SchedAux, Scheduled, TypeOK
    <3>2. deferred' \in Seq(Entry) /\ Len(deferred') <= MaxDeferred /\ Window' /\ DeferredSorted'
      BY <3>1, InsertKeeps
    <3> QED
      BY <1>7, <3>2 DEF SchedAux, TypeOK
  <2> QED
    BY <2>1, <2>2
<1>8. ASSUME NEW t \in Tasks, RemoveDeferred(t)
      PROVE  TypeOK' /\ Window' /\ DeferredSorted'
  BY <1>8, RemovalTyped DEF RemoveDeferred, TypeOK
<1>9. CASE Reset
  BY <1>9, LimitsAssumption DEF Reset, TypeOK, Window, DeferredSorted
<1>10. ASSUME NEW t \in IsrTasks, FromIsr(t)
       PROVE  TypeOK' /\ Window' /\ DeferredSorted'
  <2>1. irq' \in Seq(IsrTasks) /\ Len(irq') <= MaxIrq
    BY <1>10, LimitsAssumption DEF FromIsr, TypeOK
  <2> QED
    BY <1>10, <2>1, SameDeferred DEF FromIsr, TypeOK
<1>11. CASE Tick
  BY <1>11, TickKeeps DEF Tick, TypeOK
<1>12. CASE UNCHANGED vars
  BY <1>12, SameDeferred DEF vars, TypeOK
<1> QED
  BY <1>1, <1>2, <1>3, <1>4, <1>5, <1>6, <1>7, <1>8, <1>9, <1>10, <1>11, <1>12
     DEF Next, Step, Call, DeferUntil, DeferFor

LEMMA SpecIInv == Spec => []IInv
  BY InitIInv, StepIInv, PTL DEF Spec

(* The queues hold tasks, within their limits; curr and idle are tasks or  *)
(* NULL.                                                                   *)
THEOREM TypeCorrect == Spec => []TypeOK
<1>1. IInv => TypeOK
  BY DEF IInv
<1> QED
  BY <1>1, SpecIInv, PTL

(* The deferred array is in descending time order at every instant, though *)
(* the clock wraps and mu_time_precedes is no order on all times.          *)
THEOREM DeferredStaysSorted == Spec => []DeferredSorted
<1>1. IInv => DeferredSorted
  BY DEF IInv
<1> QED
  BY <1>1, SpecIInv, PTL

(* No deferred task runs early, and none runs before one that is due       *)
(* earlier.                                                                *)
THEOREM EarliestDueFirst == Spec => RunsEarliestDue
<1> DEFINE Chosen(k) ==
      /\ deferred[k].task = curr'
      /\ ~Precedes(now, deferred[k].at)
      /\ \A l \in DOMAIN deferred : ~Precedes(deferred[l].at, deferred[k].at)
<1>1. IInv /\ [Next]_vars =>
        [curr = NoTask /\ curr' # NoTask /\ deferred' # deferred =>
           \E k \in DOMAIN deferred : Chosen(k)]_vars
  <2> SUFFICES ASSUME TypeOK, Window, DeferredSorted, [Next]_vars,
                      curr = NoTask, curr' # NoTask, deferred' # deferred
               PROVE  \E k \in DOMAIN deferred : Chosen(k)
    BY DEF IInv
  <2>1. StepDeferred
    BY DEF Next, Step, StepIrq, StepAsap, StepIdle, TaskReturn, Call, Asap, DeferUntil,
           DeferFor, SchedAux, RemoveDeferred, Reset, SetIdle, FromIsr, Tick, vars
  <2> DEFINE n == Len(deferred)
  <2>2. n \in DOMAIN deferred /\ DOMAIN deferred = 1 .. n /\ n \in Nat
    BY <2>1 DEF StepDeferred, Due, TypeOK
  <2>3. deferred[n].task = curr' /\ ~Precedes(now, deferred[n].at)
    BY <2>1 DEF StepDeferred, Due, Soonest
  <2>4. \A l \in DOMAIN deferred : ~Precedes(deferred[l].at, deferred[n].at)
    <3> SUFFICES ASSUME NEW l \in DOMAIN deferred
                 PROVE  ~Precedes(deferred[l].at, deferred[n].at)
      OBVIOUS
    <3>1. CASE l = n
      <4>1. Difference(deferred[n].at, deferred[n].at) = 0
        BY <2>2, SortedByAhead, EntryTyped, HalfRangeAssumption DEF RelTime
      <4> QED
        BY <3>1, <4>1 DEF Precedes
    <3>2. CASE l # n
      BY <2>2, <3>2 DEF DeferredSorted
    <3> QED
      BY <3>1, <3>2
  <2> QED
    BY <2>2, <2>3, <2>4
<1> QED
  BY <1>1, SpecIInv, PTL DEF Spec, RunsEarliestDue
-------------------------------------------------------------------------------
(* Turns: how often a task of S is to run, when c runs and q is the asap   *)
(* queue.  The proofs about programs of several tasks rest on these.       *)

NoTurn(q, c, S) == c \notin S /\ \A k \in DOMAIN q : q[k] \notin S

OneTurn(q, c, S) ==   \* at most
  /\ \A j, k \in DOMAIN q : q[j] \in S /\ q[k] \in S => j = k
  /\ c \in S => \A k \in DOMAIN q : q[k] \notin S

LEMMA TurnTaken ==
  ASSUME NEW T, NEW q \in Seq(T), q # <<>>, NEW c, NEW S
  PROVE  /\ NoTurn(q, c, S) => NoTurn(Tail(q), Head(q), S)
         /\ OneTurn(q, c, S) => OneTurn(Tail(q), Head(q), S)
<1>1. /\ Len(q) \in Nat /\ 1 \in 1 .. Len(q) /\ DOMAIN q = 1 .. Len(q) /\ Head(q) = q[1]
      /\ DOMAIN Tail(q) = 1 .. Len(q) - 1
      /\ \A i \in 1 .. Len(q) - 1 : Tail(q)[i] = q[i + 1]
  OBVIOUS
<1>2. \A i \in DOMAIN Tail(q) : i + 1 \in DOMAIN q \ {1} /\ Tail(q)[i] = q[i + 1]
  BY <1>1
<1>3. \A i, j \in DOMAIN Tail(q) : i + 1 = j + 1 => i = j
  BY <1>1
<1> QED
  BY <1>1, <1>2, <1>3 DEF NoTurn, OneTurn

LEMMA QueuedItems ==
  ASSUME NEW T, NEW q \in Seq(T), NEW t \in T
  PROVE  /\ Queued(q, t) \in Seq(T)
         /\ Len(q) <= MaxAsap => Len(Queued(q, t)) <= MaxAsap
         /\ \A k \in DOMAIN Queued(q, t) :
              \/ k \in DOMAIN q /\ Queued(q, t)[k] = q[k]
              \/ k = Len(q) + 1 /\ Queued(q, t)[k] = t
         /\ Len(q) \in Nat /\ DOMAIN q = 1 .. Len(q)
<1>1. CASE Len(q) < MaxAsap
  BY <1>1, LimitsAssumption DEF Queued
<1>2. CASE ~(Len(q) < MaxAsap)
  BY <1>2 DEF Queued
<1> QED
  BY <1>1, <1>2

LEMMA TurnQueued ==
  ASSUME NEW T, NEW q \in Seq(T), NEW t \in T, NEW c, NEW S
  PROVE  /\ NoTurn(q, c, S) => OneTurn(Queued(q, t), c, S)
         /\ NoTurn(q, c, S) /\ t \notin S => NoTurn(Queued(q, t), c, S)
         /\ OneTurn(q, c, S) /\ t \notin S => OneTurn(Queued(q, t), c, S)
<1> DEFINE r == Queued(q, t)
<1>1. \A k \in DOMAIN r : (k \in DOMAIN q /\ r[k] = q[k]) \/ (k = Len(q) + 1 /\ r[k] = t)
  BY QueuedItems
<1> HIDE DEF r
<1>2. /\ NoTurn(q, c, S) => OneTurn(r, c, S)
      /\ NoTurn(q, c, S) /\ t \notin S => NoTurn(r, c, S)
      /\ OneTurn(q, c, S) /\ t \notin S => OneTurn(r, c, S)
  BY <1>1 DEF NoTurn, OneTurn
<1> QED
  BY <1>2 DEF r

LEMMA TurnEnded ==
  ASSUME NEW q, NEW c, NEW S, NEW none, none \notin S
  PROVE  /\ NoTurn(q, c, S) => NoTurn(q, none, S)
         /\ OneTurn(q, c, S) => OneTurn(q, none, S)
         /\ OneTurn(q, c, S) /\ c \in S => NoTurn(q, none, S)
  BY DEF NoTurn, OneTurn

\* As the programs count turns.
Places(q, c, S) == {k \in DOMAIN q : q[k] \in S} \union {k \in {0} : c \in S}

LEMMA TurnsCounted ==
  ASSUME NEW T, NEW q \in Seq(T), NEW c, NEW S
  PROVE  /\ OneTurn(q, c, S) => Cardinality(Places(q, c, S)) <= 1
         /\ NoTurn(q, c, S) => Cardinality(Places(q, c, S)) = 0
<1> DEFINE places == Places(q, c, S)
<1>1. 0 \notin DOMAIN q
  OBVIOUS
<1>2. ASSUME OneTurn(q, c, S)
      PROVE  Cardinality(places) <= 1
  <2>1. \A j, k \in places : j = k
    BY <1>1, <1>2 DEF OneTurn, Places
  <2> HIDE DEF places
  <2>2. places # {} => \E k : places = {k}
    <3> SUFFICES ASSUME NEW k \in places PROVE places = {k}
      OBVIOUS
    <3> QED
      BY <2>1
  <2>3. Cardinality(places) = 0 \/ Cardinality(places) = 1
    BY <2>2, FS_EmptySet, FS_Singleton
  <2> QED
    BY <2>3
<1>3. ASSUME NoTurn(q, c, S)
      PROVE  Cardinality(places) = 0
  <2>1. places = {}
    BY <1>3 DEF NoTurn, Places
  <2> QED
    BY <2>1, FS_EmptySet
<1> QED
  BY <1>2, <1>3
-------------------------------------------------------------------------------
(* The array as a calendar. *)

\* The functions that count a set in order reach all of it.
LEMMA InOrderOnto ==
  ASSUME NEW S, IsFiniteSet(S), S \subseteq Nat, NEW f \in InOrder(S)
  PROVE  /\ f \in [1 .. Cardinality(S) -> S]
         /\ \A i, j \in 1 .. Cardinality(S) : f[i] = f[j] => i = j
         /\ \A x \in S : \E i \in 1 .. Cardinality(S) : f[i] = x
<1> DEFINE n == Cardinality(S)
           N == 1 .. n
<1>1. n \in Nat /\ IsFiniteSet(N) /\ Cardinality(N) = n
  <2>1. n \in Nat
    BY FS_CardinalityType
  <2> HIDE DEF n
  <2>2. 1 \in Int /\ n \in Int
    BY <2>1
  <2>3. IsFiniteSet(1 .. n) /\ Cardinality(1 .. n) = IF 1 > n THEN 0 ELSE n - 1 + 1
    BY <2>2, FS_Interval
  <2> QED
    BY <2>1, <2>3
<1>2. f \in [N -> S] /\ \A i, j \in N : i < j => f[i] < f[j]
  BY DEF InOrder
<1>3. \A i, j \in N : f[i] = f[j] => i = j
  <2> SUFFICES ASSUME NEW i \in N, NEW j \in N, f[i] = f[j] PROVE i = j
    OBVIOUS
  <2>1. f[i] \in Nat /\ i \in Int /\ j \in Int
    <3>1. f[i] \in S
      BY <1>2
    <3>2. \A k \in 1 .. n : k \in Int
      BY <1>1
    <3>3. i \in Int /\ j \in Int
      BY <3>2
    <3> HIDE DEF N
    <3> QED
      BY <3>1, <3>3
  <2>2. ~(i < j) /\ ~(j < i)
    BY <1>2, <2>1
  <2> QED
    BY <2>1, <2>2
<1>4. f \in Injection(N, S)
  BY <1>2, <1>3 DEF Injection, IsInjective
<1>5. f \in Surjection(N, S)
  <2>1. Cardinality(N) = Cardinality(S)
    BY <1>1
  <2> HIDE DEF N
  <2> QED
    BY <1>4, <2>1, FS_Injection
<1> QED
  BY <1>2, <1>3, <1>5 DEF Surjection

\* What a removal keeps, counted in order.
LEMMA RemovalCounted ==
  ASSUME NEW d \in Seq(Entry), NEW u, NEW r \in Removals(d, u)
  PROVE  \E f :
           /\ f \in [DOMAIN r -> DOMAIN d]
           /\ \A i, j \in DOMAIN r : i < j => f[i] < f[j]
           /\ \A i \in DOMAIN r : r[i] = d[f[i]] /\ d[f[i]].task # u
           /\ \A k \in DOMAIN d : d[k].task # u => \E i \in DOMAIN r : f[i] = k
<1> DEFINE S == Kept(d, u)
           n == Cardinality(S)
<1>1. /\ S \subseteq DOMAIN d /\ DOMAIN d = 1 .. Len(d) /\ Len(d) \in Nat
      /\ \A k \in DOMAIN d : k \in S <=> d[k].task # u
  BY DEF Kept
<1>2. IsFiniteSet(S) /\ S \subseteq Nat
  <2> DEFINE m == Len(d)
  <2>1. 1 \in Int /\ m \in Int
    BY <1>1
  <2> HIDE DEF m
  <2>2. IsFiniteSet(1 .. m)
    BY <2>1, FS_Interval
  <2> QED
    BY <1>1, <2>2, FS_Subset DEF m
<1>3. PICK f \in InOrder(S) : r = [k \in 1 .. n |-> d[f[k]]]
  BY DEF Removals
<1>4. /\ f \in [1 .. n -> S]
      /\ \A i, j \in 1 .. n : i < j => f[i] < f[j]
      /\ \A x \in S : \E i \in 1 .. n : f[i] = x
  BY <1>2, InOrderOnto DEF InOrder
<1> HIDE DEF n, S
<1>5. DOMAIN r = 1 .. n /\ \A k \in 1 .. n : r[k] = d[f[k]]
  BY <1>3
<1>6. f \in [DOMAIN r -> DOMAIN d] /\ \A i \in DOMAIN r : r[i] = d[f[i]] /\ d[f[i]].task # u
  BY <1>1, <1>4, <1>5
<1>7. \A k \in DOMAIN d : d[k].task # u => \E i \in DOMAIN r : f[i] = k
  BY <1>1, <1>4, <1>5
<1>8. \A i, j \in DOMAIN r : i < j => f[i] < f[j]
  BY <1>4, <1>5
<1> QED
  BY <1>6, <1>7, <1>8

\* A set of numbers up to n has a greatest one.
LEMMA Greatest ==
  ASSUME NEW n \in Nat, NEW S \in SUBSET (1 .. n), S # {}
  PROVE  \E m \in S : \A l \in S : l <= m
<1> DEFINE Less == {p \in Nat \X Nat : p[1] < p[2]}
           T == {n - l : l \in S}
<1>1. IsWellFoundedOn(Less, Nat)
  BY NatLessThanWellFounded, Zenon DEF OpToRel
<1>2. T \subseteq Nat /\ T # {}
  <2>1. \A l \in S : n - l \in Nat
    OBVIOUS
  <2> QED
    BY <2>1
<1>3. \E x \in T : \A y \in T : ~(<<y, x>> \in Less)
  <2> HIDE DEF T, Less
  <2> QED
    BY <1>1, <1>2, WFMin, Zenon
<1>4. PICK x \in T : \A y \in T : ~(y < x)
  BY <1>2, <1>3
<1>5. PICK m \in S : x = n - m
  BY <1>4
<1>6. \A l \in S : ~(n - l < n - m)
  BY <1>4, <1>5
<1> QED
  BY <1>5, <1>6

\* The entries for a time are the n behind the first lo.
Block(d, at, lo, n) ==
  /\ lo + n <= Len(d)
  /\ \A k \in DOMAIN d : d[k].at = at <=> k \in lo + 1 .. lo + n

LEMMA BlockBooked ==
  ASSUME NEW d \in Seq(Entry), NEW at, NEW lo \in Nat, NEW n \in Nat, Block(d, at, lo, n)
  PROVE  BookedFor(d, at) = [k \in 1 .. n |-> d[lo + n + 1 - k].task]
<1> DEFINE same == {k \in DOMAIN d : d[k].at = at}
           last == CHOOSE k \in same : same \subseteq 1 .. k
<1>1. same = lo + 1 .. lo + n
  BY DEF Block
<1>2. Cardinality(same) = n
  <2> DEFINE a == lo + 1
             b == lo + n
  <2>1. a \in Int /\ b \in Int /\ (a > b <=> n = 0) /\ b - a + 1 = n
    OBVIOUS
  <2>2. same = a .. b
    BY <1>1
  <2> HIDE DEF a, b
  <2> QED
    BY <2>1, <2>2, FS_Interval
<1>3. BookedFor(d, at) = [k \in 1 .. n |-> d[last + 1 - k].task]
  BY <1>2 DEF BookedFor
<1>4. CASE n = 0
  BY <1>3, <1>4
<1>5. CASE n # 0
  <2>1. lo + n \in same /\ same \subseteq 1 .. lo + n
    BY <1>1, <1>5
  <2>2. \A k \in same : same \subseteq 1 .. k => k = lo + n
    BY <1>1, <2>1
  <2> HIDE DEF same
  <2>3. last = lo + n
    BY <2>1, <2>2
  <2> QED
    BY <1>3, <2>3
<1> QED
  BY <1>4, <1>5

\* A sorted array near the clock t: what IInv says of it.
Orderly(d, t) ==
  /\ d \in Seq(Entry) /\ t \in AbsTime
  /\ \A k \in DOMAIN d : Difference(d[k].at, t) \in -MaxLag .. HalfRange - 1 - MaxLag
  /\ \A k, l \in DOMAIN d : k < l => ~Precedes(d[k].at, d[l].at)

LEMMA OrderlyDeferred ==
  IInv => Orderly(deferred, now)
  BY DEF IInv, TypeOK, Window, DeferredSorted, Ahead, Orderly

\* An orderly array is in descending order of the distances from the clock.
LEMMA Descending ==
  ASSUME NEW d, NEW t, Orderly(d, t), NEW k \in DOMAIN d, NEW l \in DOMAIN d
  PROVE  /\ d[k].at \in AbsTime /\ d[l].at \in AbsTime
         /\ Difference(d[k].at, t) \in Int /\ Difference(d[l].at, t) \in Int
         /\ Difference(d[k].at, d[l].at) = Difference(d[k].at, t) - Difference(d[l].at, t)
         /\ k < l => Difference(d[k].at, t) >= Difference(d[l].at, t)
<1> DEFINE x == d[k].at
           y == d[l].at
<1>1. x \in AbsTime /\ y \in AbsTime /\ t \in AbsTime
  <2>1. d[k] \in Entry /\ d[l] \in Entry
    BY DEF Orderly
  <2> QED
    BY <2>1 DEF Entry, Orderly
<1>2. /\ Difference(x, t) \in -MaxLag .. HalfRange - 1 - MaxLag
      /\ Difference(y, t) \in -MaxLag .. HalfRange - 1 - MaxLag
      /\ k < l => ~Precedes(x, y)
  BY DEF Orderly
<1> HIDE DEF x, y
<1>3. /\ Difference(x, t) \in Int /\ Difference(y, t) \in Int
      /\ Difference(x, t) - Difference(y, t) \in -HalfRange + 1 .. HalfRange - 1
  BY <1>2, WindowAssumption, HalfRangeAssumption
<1>4. Difference(x, y) = Difference(x, t) - Difference(y, t)
  BY <1>1, <1>3, DifferenceInWindow
<1>5. k < l => Difference(x, t) >= Difference(y, t)
  BY <1>2, <1>3, <1>4 DEF Precedes
<1> QED
  BY <1>1, <1>3, <1>4, <1>5 DEF x, y

LEMMA SameTime ==
  ASSUME NEW x \in AbsTime, NEW y \in AbsTime, Difference(x, y) = 0
  PROVE  x = y
<1>1. 0 - (x - y) \in {0, 2 * HalfRange, -(2 * HalfRange)}
  BY DifferenceValue
<1> QED
  BY <1>1, HalfRangeAssumption DEF AbsTime

\* Entries for one time lie next to each other.
LEMMA Grouped ==
  ASSUME NEW d, NEW t, Orderly(d, t),
         NEW k \in DOMAIN d, NEW l \in DOMAIN d, NEW m \in DOMAIN d,
         k < l, l < m, d[k].at = d[m].at
  PROVE  d[l].at = d[k].at
<1>1. /\ Difference(d[k].at, t) >= Difference(d[l].at, t)
      /\ Difference(d[l].at, t) >= Difference(d[m].at, t)
      /\ Difference(d[l].at, t) \in Int /\ Difference(d[k].at, t) \in Int
      /\ Difference(d[l].at, d[k].at) = Difference(d[l].at, t) - Difference(d[k].at, t)
      /\ d[l].at \in AbsTime /\ d[k].at \in AbsTime
  BY Descending
<1>2. Difference(d[l].at, d[k].at) = 0
  BY <1>1
<1> QED
  BY <1>1, <1>2, SameTime

LEMMA BlockExists ==
  ASSUME NEW d, NEW t, Orderly(d, t), NEW at
  PROVE  \E lo, n \in Nat : Block(d, at, lo, n)
<1> DEFINE L == Len(d)
           same == {k \in DOMAIN d : d[k].at = at}
           mirror == {L + 1 - k : k \in same}
<1>1. L \in Nat /\ DOMAIN d = 1 .. L
  BY DEF Orderly
<1>2. CASE same = {}
  <2>1. Block(d, at, 0, 0)
    BY <1>1, <1>2 DEF Block
  <2> QED
    BY <2>1
<1>3. CASE same # {}
  <2>1. PICK last \in same : \A k \in same : k <= last
    BY <1>1, <1>3, Greatest
  <2>2. PICK first \in same : \A k \in same : first <= k
    <3>1. \A k \in same : L + 1 - k \in 1 .. L
      BY <1>1
    <3>2. mirror \in SUBSET (1 .. L) /\ mirror # {}
      BY <1>3, <3>1
    <3>3. PICK x \in mirror : \A y \in mirror : y <= x
      <4> HIDE DEF mirror, L
      <4> QED
        BY <1>1, <3>2, Greatest
    <3>4. PICK k \in same : x = L + 1 - k
      BY <3>3
    <3>5. \A j \in same : L + 1 - j <= L + 1 - k
      BY <3>3, <3>4
    <3>6. \A j \in same : j \in Int /\ k \in Int
      BY <1>1
    <3>7. \A j \in same : k <= j
      BY <1>1, <3>5, <3>6
    <3> QED
      BY <3>7
  <2>3. first \in 1 .. L /\ last \in 1 .. L /\ first <= last
    BY <1>1, <2>1, <2>2
  <2>4. \A k \in DOMAIN d : d[k].at = at <=> k \in first .. last
    <3> SUFFICES ASSUME NEW k \in DOMAIN d, k \in first .. last PROVE d[k].at = at
      BY <1>1, <2>1, <2>2, <2>3
    <3>1. CASE k = first \/ k = last
      BY <3>1
    <3>2. CASE k # first /\ k # last
      <4>1. first < k /\ k < last
        BY <2>3, <3>2
      <4> QED
        BY <1>1, <2>1, <2>2, <4>1, Grouped
    <3> QED
      BY <3>1, <3>2
  <2> DEFINE lo == first - 1
             n == last - first + 1
  <2>5. lo \in Nat /\ n \in Nat /\ lo + n = last /\ lo + 1 = first
    BY <2>3
  <2> HIDE DEF lo, n
  <2>6. Block(d, at, lo, n)
    BY <1>1, <2>3, <2>4, <2>5 DEF Block
  <2> QED
    BY <2>5, <2>6
<1> QED
  BY <1>2, <1>3

LEMMA SequenceIsFunction ==
  ASSUME NEW S, NEW s \in Seq(S), NEW n, Len(s) = n
  PROVE  s = [k \in 1 .. n |-> s[k]]
<1>1. s \in [1 .. Len(s) -> S]
  OBVIOUS
<1> QED
  BY <1>1

\* The last entry is the oldest booking for its time.
LEMMA PopBooked ==
  ASSUME NEW d, NEW t, Orderly(d, t), d # <<>>, NEW at
  PROVE  LET soonest == d[Len(d)]
             r == SubSeq(d, 1, Len(d) - 1)
             q == BookedFor(d, at)
         IN  /\ at # soonest.at => BookedFor(r, at) = q
             /\ at = soonest.at => q # <<>> /\ Head(q) = soonest.task /\ BookedFor(r, at) = Tail(q)
<1> DEFINE L == Len(d)
           r == SubSeq(d, 1, L - 1)
<1>1. L \in Nat /\ L # 0 /\ DOMAIN d = 1 .. L /\ d \in Seq(Entry)
  BY DEF Orderly
<1>2. /\ r \in Seq(Entry) /\ Len(r) = L - 1 /\ DOMAIN r = 1 .. L - 1
      /\ \A k \in 1 .. L - 1 : r[k] = d[k]
  BY <1>1
<1>3. PICK lo \in Nat, n \in Nat : Block(d, at, lo, n)
  BY BlockExists
<1>4. BookedFor(d, at) = [k \in 1 .. n |-> d[lo + n + 1 - k].task]
  BY <1>1, <1>3, BlockBooked
<1> HIDE DEF L, r
<1>5. lo + n <= L /\ \A k \in 1 .. L : d[k].at = at <=> k \in lo + 1 .. lo + n
  BY <1>1, <1>3 DEF Block, L
<1>6. CASE at # d[L].at
  <2>1. L \notin lo + 1 .. lo + n
    BY <1>1, <1>5, <1>6
  <2>2. CASE n = 0
    <3>1. Block(r, at, 0, 0)
      BY <1>1, <1>2, <1>5, <2>2 DEF Block
    <3>2. BookedFor(r, at) = [k \in 1 .. 0 |-> r[0 + 0 + 1 - k].task]
      BY <1>2, <3>1, BlockBooked
    <3>3. BookedFor(r, at) = BookedFor(d, at)
      BY <1>4, <2>2, <3>2
    <3> QED
      BY <1>6, <3>3 DEF L, r
  <2>3. CASE n # 0
    <3>1. lo + n <= L - 1
      BY <1>1, <1>5, <2>1, <2>3
    <3>2. Block(r, at, lo, n)
      BY <1>1, <1>2, <1>5, <3>1 DEF Block
    <3>3. BookedFor(r, at) = [k \in 1 .. n |-> r[lo + n + 1 - k].task]
      BY <1>2, <3>2, BlockBooked
    <3>4. \A k \in 1 .. n : r[lo + n + 1 - k] = d[lo + n + 1 - k]
      <4>1. \A k \in 1 .. n : lo + n + 1 - k \in 1 .. L - 1
        BY <1>1, <3>1
      <4> QED
        BY <1>2, <4>1
    <3>5. BookedFor(r, at) = BookedFor(d, at)
      BY <1>4, <3>3, <3>4
    <3> QED
      BY <1>6, <3>5 DEF L, r
  <2> QED
    BY <2>2, <2>3
<1>7. CASE at = d[L].at
  <2>1. L \in lo + 1 .. lo + n
    BY <1>1, <1>5, <1>7
  <2>2. lo + n = L /\ n # 0 /\ n - 1 \in Nat /\ lo + (n - 1) = L - 1
    BY <1>1, <1>5, <2>1
  <2>3. Block(r, at, lo, n - 1)
    BY <1>1, <1>2, <1>5, <2>2 DEF Block
  <2>4. BookedFor(r, at) = [k \in 1 .. n - 1 |-> r[lo + (n - 1) + 1 - k].task]
    BY <1>2, <2>2, <2>3, BlockBooked
  <2>5. \A k \in 1 .. n - 1 : /\ r[lo + (n - 1) + 1 - k] = d[lo + n + 1 - (k + 1)]
                              /\ k + 1 \in 1 .. n
    <3>1. \A k \in 1 .. n - 1 : /\ lo + (n - 1) + 1 - k \in 1 .. L - 1
                                /\ lo + (n - 1) + 1 - k = lo + n + 1 - (k + 1)
                                /\ k + 1 \in 1 .. n
      BY <1>1, <2>2
    <3> QED
      BY <1>2, <3>1
  <2> DEFINE q == [k \in 1 .. n |-> d[lo + n + 1 - k].task]
  <2>6. \A k \in 1 .. n : q[k] = d[lo + n + 1 - k].task
    OBVIOUS
  <2>7. q \in Seq(Tasks) /\ Len(q) = n
    <3>1. \A k \in 1 .. n : lo + n + 1 - k \in 1 .. L
      BY <1>1, <2>2
    <3>2. \A i \in 1 .. L : d[i] \in Entry
      <4>1. \A i \in 1 .. Len(d) : d[i] \in Entry
        BY <1>1
      <4> QED
        BY <4>1 DEF L
    <3>3. \A k \in 1 .. n : d[lo + n + 1 - k] \in Entry
      BY <3>1, <3>2
    <3> QED
      BY <3>3 DEF Entry
  <2> HIDE DEF q
  <2>8. q # <<>> /\ Head(q) = d[L].task
    <3>1. 1 \in 1 .. n /\ lo + n + 1 - 1 = L
      BY <1>1, <2>2
    <3>2. q[1] = d[L].task
      BY <2>6, <3>1
    <3>3. q # <<>> /\ Head(q) = q[1]
      BY <2>2, <2>7
    <3> QED
      BY <3>2, <3>3
  <2>9. /\ Tail(q) \in Seq(Tasks) /\ Len(Tail(q)) = n - 1
        /\ \A k \in 1 .. n - 1 : Tail(q)[k] = q[k + 1]
    BY <2>2, <2>7, <2>8
  <2>10. \A k \in 1 .. n - 1 : Tail(q)[k] = r[lo + (n - 1) + 1 - k].task
    BY <2>5, <2>6, <2>9
  <2>11. Tail(q) = BookedFor(r, at)
    <3>1. Tail(q) = [k \in 1 .. n - 1 |-> Tail(q)[k]]
      BY <2>9, SequenceIsFunction
    <3> QED
      BY <2>4, <2>10, <3>1
  <2>12. BookedFor(d, at) = q
    BY <1>4 DEF q
  <2> QED
    BY <1>7, <2>8, <2>11, <2>12 DEF L, r
<1> QED
  BY <1>6, <1>7

\* A new entry is the latest booking for its time.
LEMMA InsertBooked ==
  ASSUME NEW d, NEW t, Orderly(d, t), NEW u \in Tasks, NEW at0 \in AbsTime,
         NEW i \in InsertionPoints(d, at0), NEW r,
         r = Inserted(d, i, [at |-> at0, task |-> u]), NEW at
  PROVE  /\ at # at0 => BookedFor(r, at) = BookedFor(d, at)
         /\ at = at0 => BookedFor(r, at) = Append(BookedFor(d, at), u)
<1> DEFINE L == Len(d)
           e == [at |-> at0, task |-> u]
<1>1. L \in Nat /\ DOMAIN d = 1 .. L /\ d \in Seq(Entry) /\ e \in Entry
  BY DEF Orderly, Entry
<1>2. /\ i \in 0 .. L
      /\ i # 0 => Follows(d[i].at, at0)
      /\ \A k \in i + 1 .. L : ~Follows(d[k].at, at0)
  BY DEF InsertionPoints
<1>3. e.at = at0 /\ e.task = u
  OBVIOUS
<1>4. /\ DOMAIN r = 1 .. L + 1
      /\ \A k \in 1 .. L + 1 :
           r[k] = IF k <= i THEN d[k] ELSE IF k = i + 1 THEN e ELSE d[k - 1]
  BY <1>1 DEF Inserted
<1>5. r = [k \in 1 .. L + 1 |-> r[k]]
  BY DEF Inserted
<1> HIDE DEF L, e
<1>6. /\ \A k \in 1 .. i : k \in 1 .. L /\ r[k] = d[k]
      /\ r[i + 1] = e
      /\ \A k \in i + 2 .. L + 1 : k - 1 \in 1 .. L /\ r[k] = d[k - 1]
  BY <1>1, <1>2, <1>4
<1>7. r \in Seq(Entry) /\ Len(r) = L + 1
  <2>1. \A k \in 1 .. L + 1 : k \in 1 .. i \/ k = i + 1 \/ k \in i + 2 .. L + 1
    BY <1>1, <1>2
  <2>2. \A k \in 1 .. L : d[k] \in Entry
    BY <1>1
  <2>3. \A k \in 1 .. L + 1 : r[k] \in Entry
    BY <1>1, <1>6, <2>1, <2>2
  <2>4. r \in [1 .. L + 1 -> Entry] /\ L + 1 \in Nat
    BY <1>1, <1>5, <2>3
  <2> QED
    BY <2>4
<1>8. \A k, l \in 1 .. L :
        /\ d[k].at \in AbsTime
        /\ Difference(d[k].at, d[l].at) \in Int
        /\ Difference(d[k].at, d[l].at) = -Difference(d[l].at, d[k].at)
        /\ k <= l => Difference(d[k].at, d[l].at) >= 0
  <2> SUFFICES ASSUME NEW k \in 1 .. L, NEW l \in 1 .. L
               PROVE  /\ d[k].at \in AbsTime
                      /\ Difference(d[k].at, d[l].at) \in Int
                      /\ Difference(d[k].at, d[l].at) = -Difference(d[l].at, d[k].at)
                      /\ k <= l => Difference(d[k].at, d[l].at) >= 0
    OBVIOUS
  <2> DEFINE a == Difference(d[k].at, t)
             b == Difference(d[l].at, t)
             c == Difference(d[k].at, d[l].at)
             f == Difference(d[l].at, d[k].at)
  <2>1. /\ d[k].at \in AbsTime
        /\ a \in Int /\ b \in Int /\ c = a - b /\ f = b - a
        /\ k < l => a >= b
    BY <1>1, Descending
  <2>2. k = l => a = b
    OBVIOUS
  <2>3. k <= l => k < l \/ k = l
    BY <1>1
  <2> HIDE DEF a, b, c, f
  <2>4. c \in Int /\ c = -f /\ (k <= l => c >= 0)
    BY <2>1, <2>2, <2>3
  <2> QED
    BY <2>1, <2>4 DEF c, f
<1>9. PICK lo \in Nat, n \in Nat : Block(d, at, lo, n)
  BY BlockExists
<1>10. lo + n <= L /\ \A k \in 1 .. L : d[k].at = at <=> k \in lo + 1 .. lo + n
  BY <1>1, <1>9 DEF Block, L
<1>11. BookedFor(d, at) = [k \in 1 .. n |-> d[lo + n + 1 - k].task]
  BY <1>1, <1>9, BlockBooked
\* No entry for a time is on both sides of the new one.
<1>12. \A k, l \in 1 .. L : k <= i /\ i < l => d[k].at # d[l].at
  <2> SUFFICES ASSUME NEW k \in 1 .. L, NEW l \in 1 .. L, k <= i, i < l, d[k].at = d[l].at
               PROVE  FALSE
    OBVIOUS
  <2>1. i \in 1 .. L /\ i + 1 \in 1 .. L /\ i + 1 <= l /\ i # 0
    BY <1>1, <1>2
  <2>2. d[i].at = d[k].at /\ d[i + 1].at = d[k].at
    <3>1. k = i \/ k < i
      BY <1>1, <2>1
    <3>2. k < i => d[i].at = d[k].at
      BY <1>1, <2>1, Grouped
    <3>3. i + 1 = l \/ (k < i + 1 /\ i + 1 < l)
      BY <1>1, <2>1
    <3>4. k < i + 1 /\ i + 1 < l => d[i + 1].at = d[k].at
      BY <1>1, <2>1, Grouped
    <3> QED
      BY <3>1, <3>2, <3>3, <3>4
  <2>3. Follows(d[i].at, at0) /\ ~Follows(d[i + 1].at, at0)
    BY <1>1, <1>2, <2>1
  <2> QED
    BY <2>2, <2>3
<1>13. ASSUME NEW lo2 \in Nat, Block(r, at, lo2, n),
              \A k \in 1 .. n : r[lo2 + n + 1 - k] = d[lo + n + 1 - k]
       PROVE  BookedFor(r, at) = BookedFor(d, at)
  <2>1. BookedFor(r, at) = [k \in 1 .. n |-> r[lo2 + n + 1 - k].task]
    <3>1. r \in Seq(Entry) /\ lo2 \in Nat /\ n \in Nat /\ Block(r, at, lo2, n)
      BY <1>7, <1>13
    <3> QED
      BY ONLY <3>1, BlockBooked
  <2> QED
    BY <1>11, <1>13, <2>1
<1>14. CASE at # at0
  <2>1. CASE n = 0
    <3>1. \A k \in 1 .. L + 1 : r[k].at # at
      <4>1. \A k \in 1 .. L : d[k].at # at
        BY <1>1, <1>10, <2>1
      <4>2. \A k \in 1 .. L + 1 : k \in 1 .. i \/ k = i + 1 \/ k \in i + 2 .. L + 1
        BY <1>1, <1>2
      <4> QED
        BY <1>1, <1>3, <1>6, <1>14, <4>1, <4>2
    <3>2. Block(r, at, 0, n)
      BY <1>1, <1>4, <1>7, <2>1, <3>1 DEF Block
    <3> QED
      BY <1>13, <1>14, <2>1, <3>2
  <2>2. CASE n # 0 /\ lo + n <= i
    <3>1. \A k \in 1 .. i : r[k].at = at <=> k \in lo + 1 .. lo + n
      BY <1>6, <1>10
    <3>2. \A k \in i + 1 .. L + 1 : r[k].at # at /\ k \notin lo + 1 .. lo + n
      <4>1. \A k \in i + 1 .. L + 1 : k \notin lo + 1 .. lo + n
        BY <1>1, <1>2, <2>2
      <4>2. r[i + 1].at # at
        BY <1>3, <1>6, <1>14
      <4>3. \A k \in i + 2 .. L + 1 : k - 1 \notin lo + 1 .. lo + n
        BY <1>1, <1>2, <2>2
      <4>4. \A k \in i + 2 .. L + 1 : r[k].at # at
        BY <1>6, <1>10, <4>3
      <4>5. \A k \in i + 1 .. L + 1 : k = i + 1 \/ k \in i + 2 .. L + 1
        BY <1>1, <1>2
      <4> QED
        BY <4>1, <4>2, <4>4, <4>5
    <3>3. \A k \in 1 .. L + 1 : k \in 1 .. i \/ k \in i + 1 .. L + 1
      BY <1>1, <1>2
    <3>4. Block(r, at, lo, n)
      BY <1>1, <1>4, <1>7, <1>10, <3>1, <3>2, <3>3 DEF Block
    <3>5. \A k \in 1 .. n : r[lo + n + 1 - k] = d[lo + n + 1 - k]
      <4>1. \A k \in 1 .. n : lo + n + 1 - k \in 1 .. i
        BY <1>2, <2>2
      <4> QED
        BY <1>6, <4>1
    <3> QED
      BY <1>13, <1>14, <3>4, <3>5
  <2>3. CASE n # 0 /\ i <= lo
    <3>1. \A k \in 1 .. i + 1 : r[k].at # at /\ k \notin lo + 2 .. lo + n + 1
      <4>1. \A k \in 1 .. i + 1 : k \notin lo + 2 .. lo + n + 1
        BY <1>2, <2>3
      <4>2. \A k \in 1 .. i : k \notin lo + 1 .. lo + n
        BY <1>2, <2>3
      <4>3. \A k \in 1 .. i : r[k].at # at
        BY <1>6, <1>10, <4>2
      <4>4. r[i + 1].at # at
        BY <1>3, <1>6, <1>14
      <4>5. \A k \in 1 .. i + 1 : k \in 1 .. i \/ k = i + 1
        BY <1>2
      <4> QED
        BY <4>1, <4>3, <4>4, <4>5
    <3>2. \A k \in i + 2 .. L + 1 : r[k].at = at <=> k \in lo + 2 .. lo + n + 1
      <4>1. \A k \in i + 2 .. L + 1 : k - 1 \in lo + 1 .. lo + n <=> k \in lo + 2 .. lo + n + 1
        BY <1>1, <1>2
      <4> QED
        BY <1>6, <1>10, <4>1
    <3>3. \A k \in 1 .. L + 1 : k \in 1 .. i + 1 \/ k \in i + 2 .. L + 1
      BY <1>1, <1>2
    <3>4. Block(r, at, lo + 1, n)
      <4>1. /\ lo + 1 + n <= L + 1 /\ lo + 1 + 1 = lo + 2 /\ lo + 1 + n = lo + n + 1
            /\ DOMAIN r = 1 .. L + 1
        BY <1>1, <1>4, <1>10
      <4> QED
        BY <1>7, <3>1, <3>2, <3>3, <4>1 DEF Block
    <3>5. \A k \in 1 .. n : r[(lo + 1) + n + 1 - k] = d[lo + n + 1 - k]
      <4>1. \A k \in 1 .. n : /\ (lo + 1) + n + 1 - k \in i + 2 .. L + 1
                            /\ ((lo + 1) + n + 1 - k) - 1 = lo + n + 1 - k
        BY <1>1, <1>2, <1>10, <2>3
      <4> QED
        BY <1>6, <4>1
    <3>6. lo + 1 \in Nat
      OBVIOUS
    <3> QED
      BY <1>13, <1>14, <3>4, <3>5, <3>6
  <2>4. n = 0 \/ lo + n <= i \/ i <= lo
    <3> SUFFICES ASSUME n # 0, ~(lo + n <= i), ~(i <= lo) PROVE FALSE
      OBVIOUS
    <3>1. /\ lo + 1 \in 1 .. L /\ lo + n \in 1 .. L /\ lo + 1 <= i /\ i < lo + n
          /\ lo + 1 \in lo + 1 .. lo + n /\ lo + n \in lo + 1 .. lo + n
      BY <1>1, <1>2, <1>10
    <3>2. d[lo + 1].at = at /\ d[lo + n].at = at
      BY <1>10, <3>1
    <3> QED
      BY <1>12, <3>1, <3>2
  <2> QED
    BY <2>1, <2>2, <2>3, <2>4
<1>15. CASE at = at0
  <2>1. i + n <= L /\ \A k \in 1 .. L : d[k].at = at <=> k \in i + 1 .. i + n
    <3>1. CASE n = 0
      BY <1>1, <1>2, <1>10, <3>1
    <3>2. CASE n # 0
      <4>1. lo + 1 \in 1 .. L /\ d[lo + 1].at = at
        BY <1>1, <1>10, <3>2
      <4>2. ~(lo < i)
        <5> SUFFICES ASSUME lo < i PROVE FALSE
          OBVIOUS
        <5>1. i # 0 /\ i \in 1 .. L /\ lo + 1 <= i
          BY <1>2
        <5>2. Difference(d[i].at, at0) > 0
          BY <1>2, <5>1 DEF Follows
        <5>3. /\ Difference(d[i].at, at0) = -Difference(at0, d[i].at)
              /\ Difference(at0, d[i].at) >= 0 /\ Difference(at0, d[i].at) \in Int
          BY <1>8, <1>15, <4>1, <5>1
        <5> QED
          BY <5>2, <5>3
      <4>3. ~(i < lo)
        <5> SUFFICES ASSUME i < lo PROVE FALSE
          OBVIOUS
        <5>1. lo \in i + 1 .. L /\ lo \in 1 .. L /\ lo <= lo + 1 /\ lo \notin lo + 1 .. lo + n
          BY <1>1, <1>2, <1>10
        <5>2. ~(Difference(d[lo].at, at0) > 0)
          BY <1>2, <5>1 DEF Follows
        <5>3. /\ Difference(d[lo].at, at0) >= 0 /\ Difference(d[lo].at, at0) \in Int
              /\ d[lo].at \in AbsTime
          BY <1>8, <1>15, <4>1, <5>1
        <5>4. d[lo].at = at0
          BY <5>2, <5>3, SameTime
        <5> QED
          BY <1>10, <1>15, <5>1, <5>4
      <4>4. i = lo
        BY <1>2, <4>2, <4>3
      <4> QED
        BY <1>10, <4>4
    <3> QED
      BY <3>1, <3>2
  <2>2. Block(r, at, i, n + 1)
    <3>1. \A k \in 1 .. i : r[k].at # at /\ k \notin i + 1 .. i + (n + 1)
      <4>1. \A k \in 1 .. i : k \notin i + 1 .. i + (n + 1) /\ k \notin i + 1 .. i + n
        BY <1>2
      <4> QED
        BY <1>6, <2>1, <4>1
    <3>2. r[i + 1].at = at /\ i + 1 \in i + 1 .. i + (n + 1)
      BY <1>2, <1>3, <1>6, <1>15
    <3>3. \A k \in i + 2 .. L + 1 : r[k].at = at <=> k \in i + 1 .. i + (n + 1)
      <4>1. \A k \in i + 2 .. L + 1 : k - 1 \in i + 1 .. i + n <=> k \in i + 1 .. i + (n + 1)
        BY <1>1, <1>2
      <4> QED
        BY <1>6, <2>1, <4>1
    <3>4. \A k \in 1 .. L + 1 : k \in 1 .. i \/ k = i + 1 \/ k \in i + 2 .. L + 1
      BY <1>1, <1>2
    <3>5. i + (n + 1) <= L + 1 /\ DOMAIN r = 1 .. L + 1
      BY <1>1, <1>2, <1>4, <2>1
    <3> QED
      BY <1>7, <3>1, <3>2, <3>3, <3>4, <3>5 DEF Block
  <2>3. BookedFor(r, at) = [k \in 1 .. n + 1 |-> r[i + (n + 1) + 1 - k].task]
    <3> DEFINE m == n + 1
    <3>1. r \in Seq(Entry) /\ i \in Nat /\ m \in Nat /\ Block(r, at, i, m)
      BY <1>2, <1>7, <2>2
    <3> HIDE DEF m
    <3>2. BookedFor(r, at) = [k \in 1 .. m |-> r[i + m + 1 - k].task]
      BY ONLY <3>1, BlockBooked
    <3> QED
      BY <3>2 DEF m
  <2>4. BookedFor(d, at) = [k \in 1 .. n |-> d[i + n + 1 - k].task]
    <3>1. Block(d, at, i, n)
      BY <1>1, <2>1 DEF Block, L
    <3> QED
      BY <1>1, <1>2, <3>1, BlockBooked
  <2> DEFINE q == BookedFor(d, at)
             s == Append(q, u)
  <2>5. \A k \in 1 .. n : r[i + (n + 1) + 1 - k] = d[i + n + 1 - k] /\ d[i + n + 1 - k] \in Entry
    <3>1. \A k \in 1 .. n : /\ i + (n + 1) + 1 - k \in i + 2 .. L + 1
                          /\ (i + (n + 1) + 1 - k) - 1 = i + n + 1 - k
                          /\ i + n + 1 - k \in 1 .. L
      BY <1>1, <1>2, <2>1
    <3> QED
      BY <1>1, <1>6, <3>1
  <2>6. r[i + (n + 1) + 1 - (n + 1)] = e
    <3>1. i + (n + 1) + 1 - (n + 1) = i + 1
      BY <1>2
    <3> QED
      BY <1>6, <3>1
  <2>7. q \in Seq(Tasks) /\ Len(q) = n /\ \A k \in 1 .. n : q[k] = d[i + n + 1 - k].task
    <3>1. \A k \in 1 .. n : d[i + n + 1 - k].task \in Tasks
      BY <2>5 DEF Entry
    <3>2. q \in [1 .. n -> Tasks] /\ \A k \in 1 .. n : q[k] = d[i + n + 1 - k].task
      BY <2>4, <3>1
    <3> QED
      BY <3>2
  <2> HIDE DEF q
  <2>8. s \in Seq(Tasks) /\ Len(s) = n + 1 /\ s[n + 1] = u /\ \A k \in 1 .. n : s[k] = q[k]
    BY <2>7
  <2> HIDE DEF s
  <2>9. \A k \in 1 .. n + 1 : s[k] = r[i + (n + 1) + 1 - k].task
    <3>1. \A k \in 1 .. n + 1 : k \in 1 .. n \/ k = n + 1
      OBVIOUS
    <3>2. s[n + 1] = r[i + (n + 1) + 1 - (n + 1)].task
      BY <1>3, <2>6, <2>8
    <3>3. \A k \in 1 .. n : s[k] = r[i + (n + 1) + 1 - k].task
      BY <2>5, <2>7, <2>8
    <3> QED
      BY <3>1, <3>2, <3>3
  <2>10. s = BookedFor(r, at)
    <3>1. s = [k \in 1 .. n + 1 |-> s[k]]
      BY <2>8, SequenceIsFunction
    <3> QED
      BY <2>3, <2>9, <3>1
  <2> QED
    BY <1>15, <2>10 DEF s, q
<1> QED
  BY <1>14, <1>15

\* A removal takes a task's bookings out of each time's queue.
LEMMA RemoveBooked ==
  ASSUME NEW d, NEW t, Orderly(d, t), NEW u, NEW r \in Removals(d, u), Orderly(r, t), NEW at
  PROVE  Booked!Without(u, BookedFor(d, at), BookedFor(r, at))
<1>1. d \in Seq(Entry) /\ r \in Seq(Entry)
  BY DEF Orderly
<1>2. PICK f :
        /\ f \in [DOMAIN r -> DOMAIN d]
        /\ \A i, j \in DOMAIN r : i < j => f[i] < f[j]
        /\ \A i \in DOMAIN r : r[i] = d[f[i]] /\ d[f[i]].task # u
        /\ \A k \in DOMAIN d : d[k].task # u => \E i \in DOMAIN r : f[i] = k
  BY <1>1, RemovalCounted, SMTT(30)
<1>3. PICK lo \in Nat, n \in Nat : Block(d, at, lo, n)
  BY BlockExists
<1>4. PICK lo2 \in Nat, n2 \in Nat : Block(r, at, lo2, n2)
  BY BlockExists
<1> DEFINE queue == BookedFor(d, at)
           after == BookedFor(r, at)
           g == [i \in 1 .. n2 |-> lo + n + 1 - f[lo2 + n2 + 1 - i]]
<1>5. /\ queue = [k \in 1 .. n |-> d[lo + n + 1 - k].task]
      /\ after = [k \in 1 .. n2 |-> r[lo2 + n2 + 1 - k].task]
  BY <1>1, <1>3, <1>4, BlockBooked
<1> HIDE DEF queue, after
<1>6. /\ DOMAIN queue = 1 .. n /\ \A k \in 1 .. n : queue[k] = d[lo + n + 1 - k].task
      /\ DOMAIN after = 1 .. n2 /\ \A k \in 1 .. n2 : after[k] = r[lo2 + n2 + 1 - k].task
  BY <1>5
\* In the arrays: where the entries for the time are.
<1>7. /\ \A k \in 1 .. n : lo + n + 1 - k \in DOMAIN d
      /\ \A k \in DOMAIN d : d[k].at = at => k \in lo + 1 .. lo + n
      /\ \A k \in 1 .. n : d[lo + n + 1 - k].at = at
  <2>1. lo + n <= Len(d) /\ DOMAIN d = 1 .. Len(d) /\ Len(d) \in Nat
    BY <1>1, <1>3 DEF Block
  <2>2. \A k \in DOMAIN d : d[k].at = at <=> k \in lo + 1 .. lo + n
    BY <1>3 DEF Block
  <2>3. \A k \in 1 .. n : lo + n + 1 - k \in 1 .. Len(d) /\ lo + n + 1 - k \in lo + 1 .. lo + n
    BY <2>1
  <2> QED
    BY <2>1, <2>2, <2>3
<1>8. /\ \A i \in 1 .. n2 : lo2 + n2 + 1 - i \in DOMAIN r
      /\ \A i \in DOMAIN r : r[i].at = at => i \in lo2 + 1 .. lo2 + n2
      /\ \A i \in 1 .. n2 : r[lo2 + n2 + 1 - i].at = at
  <2>1. lo2 + n2 <= Len(r) /\ DOMAIN r = 1 .. Len(r) /\ Len(r) \in Nat
    BY <1>1, <1>4 DEF Block
  <2>2. \A i \in DOMAIN r : r[i].at = at <=> i \in lo2 + 1 .. lo2 + n2
    BY <1>4 DEF Block
  <2>3. \A i \in 1 .. n2 : lo2 + n2 + 1 - i \in 1 .. Len(r)
                            /\ lo2 + n2 + 1 - i \in lo2 + 1 .. lo2 + n2
    BY <2>1
  <2> QED
    BY <2>1, <2>2, <2>3
<1>9. \A i \in 1 .. n2 :
        /\ f[lo2 + n2 + 1 - i] \in DOMAIN d
        /\ f[lo2 + n2 + 1 - i] \in lo + 1 .. lo + n
        /\ d[f[lo2 + n2 + 1 - i]].task = after[i]
        /\ after[i] # u
        /\ after[i] \in Tasks
  <2> SUFFICES ASSUME NEW i \in 1 .. n2
               PROVE  /\ f[lo2 + n2 + 1 - i] \in DOMAIN d
                      /\ f[lo2 + n2 + 1 - i] \in lo + 1 .. lo + n
                      /\ d[f[lo2 + n2 + 1 - i]].task = after[i]
                      /\ after[i] # u
                      /\ after[i] \in Tasks
    OBVIOUS
  <2> DEFINE j == lo2 + n2 + 1 - i
  <2>1. j \in DOMAIN r /\ r[j].at = at /\ after[i] = r[j].task
    BY <1>6, <1>8
  <2> HIDE DEF j
  <2>2. f[j] \in DOMAIN d /\ r[j] = d[f[j]] /\ d[f[j]].task # u
    BY <1>2, <2>1
  <2>3. d[f[j]] \in Entry
    BY <1>1, <2>2
  <2>4. /\ f[j] \in DOMAIN d /\ f[j] \in lo + 1 .. lo + n /\ d[f[j]].task = after[i]
        /\ after[i] # u /\ after[i] \in Tasks
    BY <1>7, <2>1, <2>2, <2>3 DEF Entry
  <2> QED
    BY <2>4 DEF j
<1>10. g \in [DOMAIN after -> DOMAIN queue]
  <2>1. \A i \in 1 .. n2 : lo + n + 1 - f[lo2 + n2 + 1 - i] \in 1 .. n
    <3> SUFFICES ASSUME NEW i \in 1 .. n2
                 PROVE  lo + n + 1 - f[lo2 + n2 + 1 - i] \in 1 .. n
      OBVIOUS
    <3> DEFINE x == f[lo2 + n2 + 1 - i]
    <3>1. x \in lo + 1 .. lo + n
      BY <1>9
    <3> HIDE DEF x
    <3>2. lo + n + 1 - x \in 1 .. n
      BY <3>1
    <3> QED
      BY <3>2 DEF x
  <2> QED
    BY <1>6, <2>1
<1>11. \A i, j \in DOMAIN after : i < j => g[i] < g[j]
  <2> SUFFICES ASSUME NEW i \in 1 .. n2, NEW j \in 1 .. n2, i < j
               PROVE  lo + n + 1 - f[lo2 + n2 + 1 - i] < lo + n + 1 - f[lo2 + n2 + 1 - j]
    BY <1>6
  <2> DEFINE a == lo2 + n2 + 1 - i
             b == lo2 + n2 + 1 - j
             x == f[a]
             y == f[b]
  <2>1. a \in DOMAIN r /\ b \in DOMAIN r /\ b < a
    BY <1>8
  <2>2. x \in lo + 1 .. lo + n /\ y \in lo + 1 .. lo + n
    BY <1>9
  <2> HIDE DEF a, b
  <2>3. y < x
    BY <1>2, <2>1
  <2> HIDE DEF x, y
  <2>4. lo + n + 1 - x < lo + n + 1 - y
    BY <2>2, <2>3
  <2> QED
    BY <2>4 DEF x, y, a, b
<1>12. \A k \in DOMAIN queue : queue[k] # u => \E i \in DOMAIN after : g[i] = k
  <2> SUFFICES ASSUME NEW k \in 1 .. n, queue[k] # u
               PROVE  \E i \in 1 .. n2 : g[i] = k
    BY <1>6
  <2> DEFINE p == lo + n + 1 - k
  <2>1. p \in DOMAIN d /\ d[p].at = at /\ d[p].task # u /\ k = lo + n + 1 - p
    BY <1>6, <1>7
  <2> HIDE DEF p
  <2>2. PICK j \in DOMAIN r : f[j] = p
    BY <1>2, <2>1
  <2>3. r[j].at = at
    BY <1>2, <2>1, <2>2
  <2>4. j \in lo2 + 1 .. lo2 + n2
    BY <1>8, <2>3
  <2> DEFINE i == lo2 + n2 + 1 - j
  <2>5. i \in 1 .. n2 /\ lo2 + n2 + 1 - i = j
    BY <2>4
  <2> HIDE DEF i
  <2>6. g[i] = lo + n + 1 - f[lo2 + n2 + 1 - i]
    BY <2>5
  <2>7. g[i] = k
    BY <2>1, <2>2, <2>5, <2>6
  <2> QED
    BY <2>5, <2>7
<1>13. \A i \in DOMAIN after : after[i] = queue[g[i]]
  <2> SUFFICES ASSUME NEW i \in 1 .. n2 PROVE after[i] = queue[g[i]]
    BY <1>6
  <2> DEFINE x == f[lo2 + n2 + 1 - i]
  <2>1. x \in lo + 1 .. lo + n /\ d[x].task = after[i]
    BY <1>9
  <2>2. g[i] = lo + n + 1 - x
    OBVIOUS
  <2> HIDE DEF x
  <2>3. lo + n + 1 - x \in 1 .. n /\ lo + n + 1 - (lo + n + 1 - x) = x
    BY <2>1
  <2>4. queue[lo + n + 1 - x] = d[x].task
    BY <1>6, <2>3
  <2> QED
    BY <2>1, <2>2, <2>4
<1>14. after \in Seq(Tasks \ {u})
  <2>1. \A i \in 1 .. n2 : after[i] \in Tasks \ {u}
    BY <1>9
  <2>2. after \in [1 .. n2 -> Tasks \ {u}]
    BY <1>5, <1>6, <2>1
  <2> QED
    BY <2>2
<1> HIDE DEF g
<1>15. Booked!Without(u, queue, after)
  BY <1>10, <1>11, <1>12, <1>13, <1>14 DEF Booked!Without
<1> QED
  BY <1>15 DEF queue, after

\* The calendar has the same times as the scheduler.
LEMMA BookedTimes ==
  /\ Booked!AbsTime = AbsTime
  /\ \A x, y : Booked!Precedes(x, y) <=> Precedes(x, y)
  /\ \A x, y : Booked!Offset(x, y) = Offset(x, y)
  BY DEF Booked!AbsTime, AbsTime, Booked!Precedes, Precedes, Booked!Difference, Difference,
         Booked!Signed, Signed, Booked!Wrapped, Wrapped, Booked!Offset, Offset

LEMMA EmptyBooked ==
  ASSUME NEW d, d = <<>>, NEW at
  PROVE  BookedFor(d, at) = <<>>
<1>1. d \in Seq(Entry) /\ Len(d) = 0 /\ DOMAIN d = {}
  OBVIOUS
<1>2. Block(d, at, 0, 0)
  BY <1>1 DEF Block
<1>3. \A lo, n \in Nat : Block(d, at, lo, n) =>
        BookedFor(d, at) = [k \in 1 .. n |-> d[lo + n + 1 - k].task]
  BY ONLY <1>1, BlockBooked
<1>4. BookedFor(d, at) = [k \in 1 .. 0 |-> d[0 + 0 + 1 - k].task]
  BY <1>2, <1>3
<1> QED
  BY <1>4

LEMMA InitCalendar == Init => Booked!CalendarInit
  BY EmptyBooked, BookedTimes DEF Init, Booked!CalendarInit

\* The tasks booked for each time.
Bookings == [at \in AbsTime |-> BookedFor(deferred, at)]

LEMMA BookStep ==
  ASSUME IInv, NEW u \in Tasks, NEW d \in Delays, SchedAux(u, Offset(now, d))
  PROVE  UNCHANGED <<now, Bookings, curr>> \/ Booked!Book(u, Offset(now, d))
<1> DEFINE at0 == Offset(now, d)
<1>1. Orderly(deferred, now) /\ at0 \in AbsTime
  BY OrderlyDeferred, OffsetValue, WindowAssumption DEF IInv, TypeOK
<1>2. UNCHANGED <<now, curr>>
  BY DEF SchedAux
<1> HIDE DEF at0
<1>3. CASE Len(deferred) = MaxDeferred
  BY <1>2, <1>3 DEF SchedAux, Scheduled, Bookings
<1>4. CASE Len(deferred) # MaxDeferred
  <2>1. PICK i \in InsertionPoints(deferred, at0) :
          deferred' = Inserted(deferred, i, [at |-> at0, task |-> u])
    BY <1>4 DEF SchedAux, Scheduled, at0
  <2>2. \A at : /\ at # at0 => BookedFor(deferred', at) = BookedFor(deferred, at)
                /\ at = at0 => BookedFor(deferred', at) = Append(BookedFor(deferred, at), u)
    BY <1>1, <2>1, InsertBooked
  <2>3. /\ Bookings'[at0] = Append(Bookings[at0], u)
        /\ Bookings' = [Bookings EXCEPT ![at0] = Bookings'[at0]]
    BY <1>1, <2>2 DEF Bookings
  <2>4. Booked!Book(u, at0)
    BY <1>2, <2>3 DEF Booked!Book, Bookings
  <2> QED
    BY <2>4 DEF at0
<1> QED
  BY <1>3, <1>4

LEMMA PopStep ==
  ASSUME IInv, StepDeferred
  PROVE  \E at \in AbsTime : Booked!RunBooked(at)
<1> DEFINE soonest == deferred[Len(deferred)]
           r == SubSeq(deferred, 1, Len(deferred) - 1)
           at0 == soonest.at
<1>1. /\ curr = NoTask /\ curr' = soonest.task /\ deferred' = r /\ UNCHANGED now
      /\ deferred # <<>> /\ ~Precedes(now, at0)
  BY DEF StepDeferred, Due, Soonest
<1>2. Orderly(deferred, now)
  BY OrderlyDeferred
<1>3. Len(deferred) \in DOMAIN deferred /\ DOMAIN deferred = 1 .. Len(deferred) /\ Len(deferred) \in Nat
  BY <1>1, <1>2 DEF Orderly
<1>4. at0 \in AbsTime
  BY <1>2, <1>3, Descending
<1>5. \A at : /\ at # at0 => BookedFor(r, at) = BookedFor(deferred, at)
              /\ at = at0 => /\ BookedFor(deferred, at) # <<>>
                             /\ Head(BookedFor(deferred, at)) = soonest.task
                             /\ BookedFor(r, at) = Tail(BookedFor(deferred, at))
  BY <1>1, <1>2, PopBooked
<1>6. \A other \in AbsTime : BookedFor(deferred, other) # <<>> => ~Precedes(other, at0)
  <2> SUFFICES ASSUME NEW other \in AbsTime, BookedFor(deferred, other) # <<>>
               PROVE  ~Precedes(other, at0)
    OBVIOUS
  <2>1. PICK lo \in Nat, n \in Nat : Block(deferred, other, lo, n)
    BY <1>2, BlockExists
  <2>2. BookedFor(deferred, other) = [k \in 1 .. n |-> deferred[lo + n + 1 - k].task]
    BY <1>2, <2>1, BlockBooked DEF Orderly
  <2>3. n # 0
    BY <2>2
  <2>4. lo + 1 \in DOMAIN deferred /\ deferred[lo + 1].at = other
    BY <1>3, <2>1, <2>3 DEF Block
  <2> DEFINE L == Len(deferred)
             a == Difference(deferred[lo + 1].at, now)
             b == Difference(deferred[L].at, now)
             c == Difference(deferred[lo + 1].at, deferred[L].at)
  <2>5. a \in Int /\ b \in Int /\ c = a - b /\ (lo + 1 < L => a >= b)
    BY <1>2, <1>3, <2>4, Descending
  <2>6. lo + 1 < L \/ lo + 1 = L
    <3>1. lo + 1 \in 1 .. L /\ L \in Nat
      BY <1>3, <2>4
    <3> HIDE DEF L
    <3> QED
      BY <3>1
  <2>7. lo + 1 = L => a = b
    OBVIOUS
  <2> HIDE DEF a, b, c
  <2>8. ~(c < 0)
    BY <2>5, <2>6, <2>7
  <2> QED
    BY <2>4, <2>8 DEF Precedes, c
<1> HIDE DEF soonest, r, at0
<1>7. /\ Bookings[at0] # <<>> /\ Head(Bookings[at0]) = curr'
      /\ \A other \in AbsTime : Bookings[other] # <<>> => ~Precedes(other, at0)
      /\ Bookings' = [Bookings EXCEPT ![at0] = Tail(@)]
  BY <1>1, <1>4, <1>5, <1>6 DEF Bookings
<1>8. Booked!RunBooked(at0)
  BY <1>1, <1>4, <1>7, BookedTimes DEF Booked!RunBooked, Bookings
<1> QED
  BY <1>4, <1>8

LEMMA RemoveStep ==
  ASSUME IInv, IInv', NEW u \in Tasks, RemoveDeferred(u)
  PROVE  Booked!Cancel(u)
<1>1. Orderly(deferred, now) /\ Orderly(deferred', now')
  BY OrderlyDeferred DEF IInv, TypeOK, Window, DeferredSorted, Ahead, Orderly
<1>2. deferred' \in Removals(deferred, u) /\ UNCHANGED <<now, curr>>
  BY DEF RemoveDeferred
<1>3. \A at : Booked!Without(u, BookedFor(deferred, at), BookedFor(deferred', at))
  BY <1>1, <1>2, RemoveBooked
<1> QED
  BY <1>2, <1>3, BookedTimes DEF Booked!Cancel

\* Every step of the scheduler is one of the calendar, or leaves it alone.
LEMMA CalendarStep ==
  IInv /\ IInv' /\ [Next]_vars => [Booked!CalendarNext]_(Booked!calendarVars)
<1> SUFFICES ASSUME IInv, IInv', [Next]_vars
             PROVE  [Booked!CalendarNext]_(Booked!calendarVars)
  OBVIOUS
<1>1. UNCHANGED <<now, Bookings, curr>> => UNCHANGED Booked!calendarVars
  BY DEF Booked!calendarVars, Bookings
<1>2. UNCHANGED deferred => UNCHANGED Bookings
  BY DEF Bookings
<1>3. curr' \in Tasks \union {NoTask} /\ curr \in Tasks \union {NoTask}
  BY DEF IInv, TypeOK
\* A task of the other queues or the idle task; or none, if NULL was queued.
<1>4. CASE StepIrq \/ StepAsap \/ StepIdle
  <2>1. curr = NoTask /\ UNCHANGED <<now, deferred>>
    BY <1>4 DEF StepIrq, StepAsap, StepIdle
  <2>2. CASE curr' = NoTask
    BY <1>1, <1>2, <2>1, <2>2
  <2>3. CASE curr' # NoTask
    BY <1>2, <1>3, <2>1, <2>3 DEF Booked!CalendarNext, Booked!RunOther, Bookings
  <2> QED
    BY <2>2, <2>3
<1>5. CASE StepDeferred
  BY <1>5, PopStep, BookedTimes DEF Booked!CalendarNext
<1>6. CASE TaskReturn
  BY <1>2, <1>6 DEF TaskReturn, Booked!CalendarNext, Booked!Finish, Bookings
<1>7. ASSUME NEW u \in Tasks, NEW d \in Delays, SchedAux(u, Offset(now, d))
      PROVE  [Booked!CalendarNext]_(Booked!calendarVars)
  <2>1. Offset(now, d) \in AbsTime
    BY OffsetValue, WindowAssumption DEF IInv, TypeOK
  <2> QED
    BY <1>1, <1>7, <2>1, BookStep, BookedTimes DEF Booked!CalendarNext
<1>8. ASSUME NEW u \in Tasks, RemoveDeferred(u)
      PROVE  [Booked!CalendarNext]_(Booked!calendarVars)
  BY <1>8, RemoveStep DEF Booked!CalendarNext
<1>9. CASE Reset
  <2>1. deferred' = <<>> /\ UNCHANGED <<now, curr>>
    BY <1>9 DEF Reset
  <2>2. \A at : BookedFor(deferred', at) = <<>>
    BY <2>1, EmptyBooked
  <2> QED
    BY <2>1, <2>2, BookedTimes DEF Booked!CalendarNext, Booked!CancelAll
<1>10. CASE Tick
  BY <1>2, <1>10, BookedTimes DEF Tick, Booked!CalendarNext, Booked!Tick, Bookings
<1>11. CASE UNCHANGED <<now, deferred, curr>>
  BY <1>1, <1>2, <1>11
<1> QED
  <2>1. ASSUME NEW t, Asap(t) \/ SetIdle(t) \/ FromIsr(t) PROVE UNCHANGED <<now, deferred, curr>>
    BY <2>1 DEF Asap, SetIdle, FromIsr
  <2>2. UNCHANGED vars => UNCHANGED <<now, deferred, curr>>
    BY DEF vars
  <2> QED
    BY <1>4, <1>5, <1>6, <1>7, <1>8, <1>9, <1>10, <1>11, <2>1, <2>2
       DEF Next, Step, Call, DeferUntil, DeferFor

(* The array with its linear search, memmove and count is a calendar:      *)
(* deferred tasks run in the order of their times and, for one time, in    *)
(* the order in which they were deferred; none early, none twice, and none *)
(* is lost but by a removal.                                               *)
THEOREM SchedImplementsCalendar == Spec => ImplementsCalendar
<1>1. IInv /\ IInv' /\ [Next]_vars => [Booked!CalendarNext]_(Booked!calendarVars)
  BY CalendarStep
<1> QED
  BY <1>1, InitCalendar, SpecIInv, PTL DEF Spec, ImplementsCalendar, Booked!CalendarSpec
===============================================================================
