------------------------------ MODULE MulibProofs ------------------------------
(***************************************************************************)
(* Proofs about the parts of mulib that keep sequences: the exclusive      *)
(* access manager, for every set of tasks, every capacity of the pending   *)
(* queue and every depth of nested calls; the linked queue and list, for   *)
(* every set of items; the clients of the strings, for all texts, indices, *)
(* messages and needles.                                                   *)
(***************************************************************************)
EXTENDS MuAccessMgr, MuQueue, StrClients, TLAPS, FiniteSetTheorems, SequenceTheorems, WellFoundedInduction

(* Induction over the naturals, from their order; and what removing an     *)
(* element does to a sequence.                                             *)
Less == {p \in Nat \X Nat : p[1] < p[2]}

LEMMA Induction ==
  ASSUME NEW S, 0 \in S, \A n \in Nat : n \in S => n + 1 \in S
  PROVE  Nat \subseteq S
<1> SUFFICES ASSUME Nat \ S # {} PROVE FALSE
  OBVIOUS
<1>1. IsWellFoundedOn(Less, Nat)
  BY NatLessThanWellFounded, Zenon DEF OpToRel, Less
<1>2. PICK n \in Nat \ S : \A m \in Nat \ S : ~(<<m, n>> \in Less)
  <2> DEFINE T == Nat \ S
  <2>1. T \subseteq Nat /\ T # {}
    OBVIOUS
  <2> HIDE DEF T
  <2>2. \E n \in T : \A m \in T : ~(<<m, n>> \in Less)
    BY <1>1, <2>1, WFMin, Zenon
  <2> QED
    BY <2>2 DEF T
<1>3. n # 0 /\ n - 1 \in Nat /\ <<n - 1, n>> \in Less
  BY <1>2 DEF Less
<1>4. n - 1 \in S
  BY <1>2, <1>3
<1>5. (n - 1) + 1 \in S
  BY <1>3, <1>4
<1> QED
  BY <1>2, <1>5

LEMMA TakenAt ==
  ASSUME NEW S, NEW s \in Seq(S), NEW k \in 1 .. Len(s)
  PROVE  /\ RemoveAt(s, k) \in Seq(S) /\ Len(RemoveAt(s, k)) = Len(s) - 1
         /\ \A j \in 1 .. Len(s) - 1 : RemoveAt(s, k)[j] = IF j <= k - 1 THEN s[j] ELSE s[j + 1]
<1> DEFINE front == SubSeq(s, 1, k - 1)
           rest == SubSeq(s, k + 1, Len(s))
           r == front \o rest
<1>1. Len(s) \in Nat /\ \A j \in 1 .. Len(s) : s[j] \in S
  BY LenProperties, ElementOfSeq
<1>2. /\ front \in Seq(S) /\ Len(front) = k - 1
      /\ \A j \in 1 .. k - 1 : front[j] = s[j]
  <2>1. \A i \in 1 .. k - 1 : s[i] \in S
    BY <1>1
  <2> QED
    BY <1>1, <2>1, SubSeqProperties
<1>3. /\ rest \in Seq(S) /\ Len(rest) = Len(s) - k
      /\ \A j \in 1 .. Len(s) - k : rest[j] = s[k + j]
  <2>1. \A i \in k + 1 .. Len(s) : s[i] \in S
    BY <1>1
  <2> QED
    BY <1>1, <2>1, SubSeqProperties
<1> HIDE DEF front, rest
<1>4. /\ r \in Seq(S) /\ Len(r) = Len(s) - 1
      /\ \A j \in 1 .. Len(s) - 1 : r[j] = IF j <= k - 1 THEN front[j] ELSE rest[j - (k - 1)]
  <2>1. /\ r \in Seq(S) /\ Len(r) = Len(front) + Len(rest)
        /\ \A j \in 1 .. Len(front) + Len(rest) :
             r[j] = IF j <= Len(front) THEN front[j] ELSE rest[j - Len(front)]
    BY <1>2, <1>3, ConcatProperties
  <2>2. Len(front) + Len(rest) = Len(s) - 1
    BY <1>1, <1>2, <1>3
  <2> QED
    BY <1>2, <2>1, <2>2
<1> HIDE DEF r
<1>5. ASSUME NEW j \in 1 .. Len(s) - 1
      PROVE  r[j] = IF j <= k - 1 THEN s[j] ELSE s[j + 1]
  <2>1. CASE j <= k - 1
    <3>1. j \in 1 .. k - 1
      BY <1>1, <2>1
    <3> QED
      BY <1>2, <1>4, <2>1, <3>1
  <2>2. CASE ~(j <= k - 1)
    <3>1. j - (k - 1) \in 1 .. Len(s) - k /\ k + (j - (k - 1)) = j + 1
      BY <1>1, <2>2
    <3> QED
      BY <1>3, <1>4, <2>2, <3>1
  <2> QED
    BY <2>1, <2>2
<1>6. RemoveAt(s, k) = r
  BY DEF RemoveAt, r, front, rest
<1> QED
  BY <1>4, <1>5, <1>6
-------------------------------------------------------------------------------
(* The access manager.                                                     *)

Frame == [task : Clients, by : {"request", "release", "reset"}]

AccessTyped ==
  /\ owner \in Clients \union {NoTask}
  /\ pending \in Seq(Clients)
  /\ calls \in Seq(Frame)

\* While some wait for a free resource, the task on top of the stack is one
\* that a reset has woken, and it waits no more: were it to request the
\* resource while it waits, it would wait for what it owns.
WokenOnTop ==
  owner = NoTask /\ pending # <<>> =>
    calls # <<>> /\ Last(calls).by = "reset" /\ ~Waits(Last(calls).task)

AccessInv == AccessTyped /\ WokenOnTop /\ ~Waits(owner) /\ IsInjective(pending)
-------------------------------------------------------------------------------
(* What the three changes of a queue without repetitions make of it. *)

LEMMA RemovedAt ==
  ASSUME NEW S, NEW q \in Seq(S), IsInjective(q), NEW k \in DOMAIN q
  PROVE  /\ RemoveAt(q, k) \in Seq(S)
         /\ ToSet(RemoveAt(q, k)) \subseteq ToSet(q) \ {q[k]}
         /\ IsInjective(RemoveAt(q, k))
<1> DEFINE r == RemoveAt(q, k)
           Old(j) == IF j <= k - 1 THEN j ELSE j + 1
<1>1. Len(q) \in Nat /\ DOMAIN q = 1 .. Len(q) /\ k \in 1 .. Len(q)
  BY LenProperties
<1>2. /\ r \in Seq(S) /\ Len(r) = Len(q) - 1
      /\ \A j \in 1 .. Len(q) - 1 : r[j] = IF j <= k - 1 THEN q[j] ELSE q[j + 1]
  BY <1>1, TakenAt
<1>3. DOMAIN r = 1 .. Len(q) - 1
  BY <1>2, LenProperties
<1> HIDE DEF r
<1>4. \A j \in DOMAIN r : Old(j) \in DOMAIN q \ {k} /\ r[j] = q[Old(j)]
  BY <1>1, <1>2, <1>3
<1>5. \A i, j \in DOMAIN r : Old(i) = Old(j) => i = j
  BY <1>1, <1>3
<1> HIDE DEF Old
<1>6. ToSet(r) \subseteq ToSet(q) \ {q[k]}
  BY <1>4 DEF ToSet, IsInjective
<1>7. IsInjective(r)
  BY <1>4, <1>5 DEF IsInjective
<1> QED
  BY <1>2, <1>6, <1>7 DEF r

LEMMA HeadTaken ==
  ASSUME NEW S, NEW q \in Seq(S), IsInjective(q), q # <<>>
  PROVE  /\ Head(q) \in S /\ Tail(q) \in Seq(S)
         /\ ToSet(Tail(q)) \subseteq ToSet(q) \ {Head(q)}
         /\ IsInjective(Tail(q))
<1>1. /\ Len(q) \in Nat \ {0} /\ DOMAIN q = 1 .. Len(q) /\ Head(q) = q[1]
      /\ Head(q) \in S /\ Tail(q) \in Seq(S) /\ DOMAIN Tail(q) = 1 .. Len(q) - 1
      /\ \A i \in 1 .. Len(q) - 1 : Tail(q)[i] = q[i + 1]
  BY HeadTailProperties, LenProperties, EmptySeq
<1>2. \A i \in DOMAIN Tail(q) : i + 1 \in DOMAIN q \ {1} /\ Tail(q)[i] = q[i + 1]
  BY <1>1
<1>3. \A i, j \in DOMAIN Tail(q) : i + 1 = j + 1 => i = j
  BY <1>1
<1>4. ToSet(Tail(q)) \subseteq ToSet(q) \ {Head(q)}
  BY <1>1, <1>2 DEF ToSet, IsInjective
<1>5. IsInjective(Tail(q))
  BY <1>2, <1>3 DEF IsInjective
<1> QED
  BY <1>1, <1>4, <1>5

LEMMA NewAppended ==
  ASSUME NEW S, NEW q \in Seq(S), IsInjective(q), NEW e \in S, e \notin ToSet(q)
  PROVE  /\ Append(q, e) \in Seq(S)
         /\ ToSet(Append(q, e)) = ToSet(q) \union {e}
         /\ IsInjective(Append(q, e))
<1>1. /\ Len(q) \in Nat /\ DOMAIN q = 1 .. Len(q)
      /\ Append(q, e) \in Seq(S) /\ DOMAIN Append(q, e) = 1 .. Len(q) + 1
      /\ \A i \in 1 .. Len(q) : Append(q, e)[i] = q[i]
      /\ Append(q, e)[Len(q) + 1] = e
  BY AppendProperties, LenProperties
<1>2. \A i \in DOMAIN Append(q, e) :
        \/ i \in DOMAIN q /\ Append(q, e)[i] = q[i]
        \/ i = Len(q) + 1 /\ Append(q, e)[i] = e
  BY <1>1
<1>3. DOMAIN q \subseteq DOMAIN Append(q, e) /\ Len(q) + 1 \in DOMAIN Append(q, e)
  BY <1>1
<1>4. ToSet(Append(q, e)) = ToSet(q) \union {e}
  BY <1>1, <1>2, <1>3 DEF ToSet
<1>5. IsInjective(Append(q, e))
  BY <1>2 DEF ToSet, IsInjective
<1> QED
  BY <1>1, <1>4, <1>5

LEMMA FramePushed ==
  ASSUME NEW s \in Seq(Frame), NEW f \in Frame
  PROVE  Append(s, f) \in Seq(Frame) /\ Append(s, f) # <<>> /\ Last(Append(s, f)) = f
<1>1. /\ Len(s) \in Nat /\ Append(s, f) \in Seq(Frame) /\ Len(Append(s, f)) = Len(s) + 1
      /\ Append(s, f)[Len(s) + 1] = f
  BY AppendProperties, LenProperties
<1> QED
  BY <1>1, EmptySeq DEF Last

LEMMA FramePopped ==
  ASSUME NEW s \in Seq(Frame), s # <<>>
  PROVE  Front(s) \in Seq(Frame) /\ Last(s) \in Frame
<1>1. Len(s) \in Nat \ {0} /\ \A i \in 1 .. Len(s) : s[i] \in Frame
  BY EmptySeq, ElementOfSeq
<1>2. \A i \in 1 .. Len(s) - 1 : s[i] \in Frame
  BY <1>1
<1> QED
  BY <1>1, <1>2, SubSeqProperties DEF Front, Last
-------------------------------------------------------------------------------
LEMMA InitAccessInv == Init => AccessInv
<1> SUFFICES ASSUME Init PROVE AccessInv
  OBVIOUS
<1>1. pending = <<>> /\ calls = <<>> /\ owner = NoTask
  BY DEF Init
<1>2. DOMAIN pending = {}
  BY <1>1
<1> QED
  BY <1>1, <1>2, EmptySeq DEF AccessInv, AccessTyped, WokenOnTop, Waits, ToSet, IsInjective

LEMMA RequestKeeps ==
  ASSUME AccessInv, NEW t \in Clients, Request(t)
  PROVE  AccessInv'
<1> USE DEF AccessInv
<1>1. CASE owner = NoTask /\ owner' = t /\ Called(t, "request") /\ UNCHANGED pending
  <2>1. ~Waits(t)
    <3>1. CASE pending = <<>>
      BY <3>1 DEF Waits, ToSet
    <3>2. CASE pending # <<>>
      BY <1>1, <3>2 DEF WokenOnTop, Request, Acts
    <3> QED
      BY <3>1, <3>2
  <2>2. calls' \in Seq(Frame)
    BY <1>1, FramePushed DEF Called, Frame, AccessTyped
  <2> QED
    BY <1>1, <2>1, <2>2, ClientsAssumption DEF AccessTyped, WokenOnTop, Waits
<1>2. CASE owner = t /\ UNCHANGED vars
  BY <1>2 DEF vars, AccessTyped, WokenOnTop, Waits
<1>3. CASE Enqueue(t)
  <2>1. CASE Len(pending) < MaxPending /\ ~Waits(t)
    <3>1. pending' = Append(pending, t) /\ owner \notin {NoTask, t} /\ UNCHANGED <<owner, calls>>
      BY <1>3, <2>1 DEF Enqueue
    <3>2. /\ pending' \in Seq(Clients) /\ IsInjective(pending')
          /\ ToSet(pending') = ToSet(pending) \union {t}
      BY <2>1, <3>1, NewAppended DEF AccessTyped, Waits
    <3> QED
      BY <3>1, <3>2 DEF AccessTyped, WokenOnTop, Waits
  <2>2. CASE ~(Len(pending) < MaxPending /\ ~Waits(t))
    BY <1>3, <2>2 DEF Enqueue, AccessTyped, WokenOnTop, Waits
  <2> QED
    BY <2>1, <2>2
<1> QED
  BY <1>1, <1>2, <1>3 DEF Request

LEMMA ReleaseKeeps ==
  ASSUME AccessInv, NEW t \in Clients, Release(t)
  PROVE  AccessInv'
<1> USE DEF AccessInv
<1>1. CASE t = owner /\ HandOver /\ pending = <<>>
  BY <1>1, ClientsAssumption DEF HandOver, AccessTyped, WokenOnTop, Waits, ToSet
<1>2. CASE t = owner /\ HandOver /\ pending # <<>>
  <2>1. owner' = Head(pending) /\ pending' = Tail(pending) /\ Called(Head(pending), "release")
    BY <1>2 DEF HandOver
  <2>2. /\ Head(pending) \in Clients /\ pending' \in Seq(Clients) /\ IsInjective(pending')
        /\ Head(pending) \notin ToSet(pending')
    BY <1>2, <2>1, HeadTaken DEF AccessTyped
  <2>3. calls' \in Seq(Frame)
    BY <2>1, <2>2, FramePushed DEF Called, Frame, AccessTyped
  <2> QED
    BY <2>1, <2>2, <2>3, ClientsAssumption DEF AccessTyped, WokenOnTop, Waits
<1>3. CASE t # owner /\ Delete(t) /\ UNCHANGED <<owner, calls>>
  <2>1. /\ pending' \in Seq(Clients) /\ IsInjective(pending')
        /\ ToSet(pending') \subseteq ToSet(pending)
    <3>1. CASE Waits(t)
      BY <1>3, <3>1, RemovedAt DEF Delete, AccessTyped
    <3>2. CASE ~Waits(t)
      BY <1>3, <3>2 DEF Delete, AccessTyped
    <3> QED
      BY <3>1, <3>2
  <2>2. pending' # <<>> => pending # <<>>
    <3> SUFFICES ASSUME pending' # <<>>, pending = <<>> PROVE FALSE
      OBVIOUS
    <3>1. Len(pending') \in Nat \ {0} /\ DOMAIN pending' = 1 .. Len(pending')
      BY <2>1, EmptySeq, LenProperties
    <3>2. pending'[1] \in ToSet(pending')
      BY <3>1 DEF ToSet
    <3>3. ToSet(pending) = {}
      BY DEF ToSet
    <3> QED
      BY <2>1, <3>2, <3>3
  <2> QED
    BY <1>3, <2>1, <2>2 DEF AccessTyped, WokenOnTop, Waits
<1> QED
  BY <1>1, <1>2, <1>3 DEF Release

\* The loop of a reset goes on, or ends with nobody waiting.
LEMMA TriggerKeeps ==
  ASSUME AccessInv, NEW outer \in Seq(Frame), Trigger(outer),
         owner' \in {owner, NoTask}
  PROVE  AccessInv'
<1> USE DEF AccessInv
<1>1. CASE pending = <<>>
  BY <1>1, ClientsAssumption DEF Trigger, AccessTyped, WokenOnTop, Waits, ToSet
<1>2. CASE pending # <<>>
  <2> DEFINE f == [task |-> Head(pending), by |-> "reset"]
  <2>1. calls' = Append(outer, f) /\ pending' = Tail(pending)
    BY <1>2 DEF Trigger
  <2>2. /\ Head(pending) \in Clients /\ pending' \in Seq(Clients) /\ IsInjective(pending')
        /\ ToSet(pending') \subseteq ToSet(pending) \ {Head(pending)}
    BY <1>2, <2>1, HeadTaken DEF AccessTyped
  <2>3. f \in Frame /\ f.task = Head(pending) /\ f.by = "reset"
    BY <2>2 DEF Frame
  <2> HIDE DEF f
  <2>4. calls' \in Seq(Frame) /\ calls' # <<>> /\ Last(calls') = f
    BY <2>1, <2>3, FramePushed
  <2>5. NoTask \notin ToSet(pending')
    BY <2>2, ElementOfSeq, LenProperties, ClientsAssumption DEF ToSet
  <2> QED
    BY <2>2, <2>3, <2>4, <2>5 DEF AccessTyped, WokenOnTop, Waits
<1> QED
  BY <1>1, <1>2

LEMMA ReturnKeeps ==
  ASSUME AccessInv, Return
  PROVE  AccessInv'
<1>1. calls \in Seq(Frame) /\ Front(calls) \in Seq(Frame) /\ Last(calls) \in Frame
  BY FramePopped DEF AccessInv, AccessTyped, Return
<1>2. CASE Last(calls).by = "reset"
  BY <1>1, <1>2, TriggerKeeps DEF Return
<1>3. CASE Last(calls).by # "reset"
  BY <1>1, <1>3 DEF AccessInv, Return, AccessTyped, WokenOnTop, Waits
<1> QED
  BY <1>2, <1>3

LEMMA StepAccessInv == AccessInv /\ [Next]_vars => AccessInv'
<1> SUFFICES ASSUME AccessInv, [Next]_vars PROVE AccessInv'
  OBVIOUS
<1>1. CASE Reset
  BY <1>1, TriggerKeeps DEF Reset, AccessInv, AccessTyped
<1>2. CASE Return
  BY <1>2, ReturnKeeps
<1>3. ASSUME NEW t \in Clients, Request(t) PROVE AccessInv'
  BY <1>3, RequestKeeps
<1>4. ASSUME NEW t \in Clients, Release(t) PROVE AccessInv'
  BY <1>4, ReleaseKeeps
<1>5. CASE UNCHANGED vars
  BY <1>5 DEF vars, AccessInv, AccessTyped, WokenOnTop, Waits
<1> QED
  BY <1>1, <1>2, <1>3, <1>4, <1>5 DEF Next

(* Nobody waits for a free resource unless a reset is waking those who     *)
(* wait, nobody waits twice or for what it owns: for all nestings of       *)
(* request, release and reset in the calls that these make.                *)
THEOREM NobodyWaitsIdly == FairSpec => []NoIdleWait
<1>1. AccessInv => NoIdleWait
  <2> SUFFICES ASSUME AccessInv PROVE NoIdleWait
    OBVIOUS
  <2>1. ASSUME owner = NoTask, pending # <<>> PROVE Resetting
    <3>1. calls \in Seq(Frame) /\ calls # <<>> /\ Last(calls).by = "reset"
      BY <2>1 DEF AccessInv, AccessTyped, WokenOnTop
    <3>2. Len(calls) \in DOMAIN calls
      BY <3>1, EmptySeq, LenProperties
    <3> QED
      BY <3>1, <3>2 DEF Resetting, Last
  <2> QED
    BY <2>1 DEF NoIdleWait, AccessInv
<1> QED
  BY <1>1, InitAccessInv, StepAccessInv, PTL DEF FairSpec, Spec

-------------------------------------------------------------------------------
(* The linked queue and list.                                              *)
(* A sequence is listed at a header if the links lead from the header      *)
(* through its items to the null pointer.                                  *)

Node(head, s, k) == IF k = 0 THEN head ELSE s[k]

Chain(n, head, s) ==
  /\ s \in Seq(Items) /\ IsInjective(s)
  /\ \A k \in 0 .. Len(s) : n[Node(head, s, k)] = IF k = Len(s) THEN Null ELSE s[k + 1]

Headers == {First, Loose}

LEMMA CountTo ==
  ASSUME NEW n \in Nat
  PROVE  Cardinality(1 .. n) = n
BY FS_Interval

LEMMA ChainFits ==
  ASSUME NEW s \in Seq(Items), IsInjective(s)
  PROVE  Len(s) \in Nat /\ Cardinality(Items) \in Nat /\ Len(s) <= Cardinality(Items)
<1>1. /\ Len(s) \in Nat /\ s \in [1 .. Len(s) -> Items] /\ DOMAIN s = 1 .. Len(s)
  BY LenProperties
<1>2. s \in Injection(1 .. Len(s), Items)
  BY <1>1 DEF Injection, IsInjective
<1>3. IsFiniteSet(Items) /\ Cardinality(Items) \in Nat
  BY ItemsAssumption, FS_CardinalityType
<1>4. Cardinality(1 .. Len(s)) <= Cardinality(Items)
  BY <1>2, <1>3, FS_Injection
<1>5. Cardinality(1 .. Len(s)) = Len(s)
  BY <1>1, CountTo
<1> QED
  BY <1>1, <1>3, <1>4, <1>5

\* The path along a chain.
LEMMA ChainPath ==
  ASSUME NEW n, NEW head, NEW s, Chain(n, head, s), head # Null
  PROVE  \A k \in 0 .. Cardinality(Items) + 1 :
           Path(n, head)[k] = IF k <= Len(s) THEN Node(head, s, k) ELSE Null
<1> DEFINE N == Cardinality(Items) + 1
           Follows(f) == f = [k \in 0 .. N |->
                                IF k = 0 THEN head
                                ELSE IF f[k - 1] = Null THEN Null ELSE n[f[k - 1]]]
           w == [k \in 0 .. N |-> IF k <= Len(s) THEN Node(head, s, k) ELSE Null]
<1>1. /\ Len(s) \in Nat /\ N \in Nat /\ Len(s) < N
      /\ \A k \in 1 .. Len(s) : s[k] \in Items /\ s[k] # Null
  <2>1. \A k \in 1 .. Len(s) : s[k] \in Items
    BY ElementOfSeq DEF Chain
  <2> QED
    BY <2>1, ChainFits, ItemsAssumption DEF Chain
<1>2. \A k \in 0 .. N : w[k] = IF k = 0 THEN head ELSE IF w[k - 1] = Null THEN Null ELSE n[w[k - 1]]
  <2> SUFFICES ASSUME NEW k \in 0 .. N
               PROVE  w[k] = IF k = 0 THEN head ELSE IF w[k - 1] = Null THEN Null ELSE n[w[k - 1]]
    OBVIOUS
  <2>1. CASE k = 0
    BY <1>1, <2>1 DEF Node
  <2>2. CASE k \in 1 .. Len(s)
    <3>1. k - 1 \in 0 .. Len(s) /\ k - 1 \in 0 .. N /\ k - 1 # Len(s) /\ (k - 1) + 1 = k
      BY <1>1, <2>2
    <3>2. w[k - 1] = Node(head, s, k - 1) /\ w[k] = s[k]
      BY <1>1, <2>2, <3>1 DEF Node
    <3>3. w[k - 1] # Null
      BY <1>1, <2>2, <3>1, <3>2 DEF Node
    <3>4. n[Node(head, s, k - 1)] = s[k]
      BY <3>1 DEF Chain
    <3> QED
      BY <2>2, <3>2, <3>3, <3>4
  <2>3. CASE k = Len(s) + 1
    <3>1. k - 1 = Len(s) /\ k - 1 \in 0 .. N /\ k # 0
      BY <1>1, <2>3
    <3>2. w[k - 1] = Node(head, s, Len(s)) /\ w[k] = Null
      BY <1>1, <2>3, <3>1
    <3>3. n[Node(head, s, Len(s))] = Null
      BY <1>1 DEF Chain
    <3> QED
      BY <3>1, <3>2, <3>3
  <2>4. CASE k > Len(s) + 1
    <3>1. k - 1 \in 0 .. N /\ k # 0 /\ ~(k - 1 <= Len(s)) /\ ~(k <= Len(s))
      BY <1>1, <2>4
    <3> QED
      BY <3>1
  <2> QED
    BY <1>1, <2>1, <2>2, <2>3, <2>4
<1>3. Follows(w)
  <2>1. w = [k \in 0 .. N |-> w[k]]
    OBVIOUS
  <2> HIDE DEF w
  <2>2. [k \in 0 .. N |-> w[k]]
          = [k \in 0 .. N |-> IF k = 0 THEN head ELSE IF w[k - 1] = Null THEN Null ELSE n[w[k - 1]]]
    BY <1>2
  <2> QED
    BY <2>1, <2>2
<1> HIDE DEF w
<1>4. Path(n, head) = CHOOSE f : Follows(f)
  BY DEF Path
<1>5. Follows(Path(n, head))
  <2> HIDE DEF Follows
  <2> QED
    BY <1>3, <1>4
<1>6. \A k \in 0 .. N : Path(n, head)[k] = w[k]
  <2> DEFINE f == Path(n, head)
             S == {k \in Nat : k \in 0 .. N => f[k] = w[k]}
  <2> HIDE DEF f
  <2>1. \A k \in 0 .. N : f[k] = IF k = 0 THEN head ELSE IF f[k - 1] = Null THEN Null ELSE n[f[k - 1]]
    BY <1>5 DEF f
  <2>2. 0 \in S
    BY <1>1, <1>2, <2>1
  <2>3. ASSUME NEW k \in Nat, k \in S PROVE k + 1 \in S
    <3> SUFFICES ASSUME k + 1 \in 0 .. N PROVE f[k + 1] = w[k + 1]
      OBVIOUS
    <3>1. k \in 0 .. N /\ k + 1 # 0 /\ (k + 1) - 1 = k
      BY <1>1
    <3>2. f[k] = w[k]
      BY <2>3, <3>1
    <3>3. f[k + 1] = IF f[k] = Null THEN Null ELSE n[f[k]]
      BY <2>1, <3>1
    <3>4. w[k + 1] = IF w[k] = Null THEN Null ELSE n[w[k]]
      BY <1>2, <3>1
    <3> QED
      BY <3>2, <3>3, <3>4
  <2> HIDE DEF S
  <2>4. Nat \subseteq S
    BY <2>2, <2>3, Induction
  <2> QED
    BY <1>1, <2>4 DEF S, f
<1> QED
  BY <1>6 DEF w

LEMMA ChainListed ==
  ASSUME NEW n, NEW head, NEW s, Chain(n, head, s), head # Null
  PROVE  Listed(n, head) = s
<1>1. /\ Len(s) \in Nat /\ Cardinality(Items) \in Nat /\ Len(s) <= Cardinality(Items)
      /\ s \in [1 .. Len(s) -> Items]
  BY ChainFits, LenProperties DEF Chain
<1>2. \A k \in 1 .. Len(s) : Path(n, head)[k] = s[k] /\ s[k] # Null
  BY <1>1, ChainPath, ItemsAssumption DEF Node
<1>3. {k \in 1 .. Cardinality(Items) + 1 : Path(n, head)[k] # Null} = 1 .. Len(s)
  BY <1>1, <1>2, ChainPath
<1>4. Length(n, head) = Len(s)
  <2>1. Cardinality(1 .. Len(s)) = Len(s)
    BY <1>1, CountTo
  <2> QED
    BY <1>3, <2>1 DEF Length
<1>5. Listed(n, head) = [k \in 1 .. Len(s) |-> Path(n, head)[k]]
  BY <1>4 DEF Listed
<1>6. [k \in 1 .. Len(s) |-> Path(n, head)[k]] = [k \in 1 .. Len(s) |-> s[k]]
  BY <1>2
<1> QED
  BY <1>1, <1>5, <1>6

\* The header and the items of a chain are all different.
LEMMA NodesApart ==
  ASSUME NEW n, NEW head \in Headers, NEW s, Chain(n, head, s)
  PROVE  /\ Len(s) \in Nat /\ \A k \in 1 .. Len(s) : s[k] \in Items
         /\ \A k \in 0 .. Len(s) : Node(head, s, k) \in Items \union {head} /\ Node(head, s, k) \in Refs
         /\ \A j, k \in 0 .. Len(s) : Node(head, s, j) = Node(head, s, k) => j = k
<1>1. /\ Len(s) \in Nat /\ DOMAIN s = 1 .. Len(s)
      /\ \A k \in 1 .. Len(s) : s[k] \in Items
      /\ \A j, k \in 1 .. Len(s) : s[j] = s[k] => j = k
  <2>1. Len(s) \in Nat /\ DOMAIN s = 1 .. Len(s)
    BY LenProperties DEF Chain
  <2>2. \A k \in 1 .. Len(s) : s[k] \in Items
    BY ElementOfSeq DEF Chain
  <2> QED
    BY <2>1, <2>2 DEF Chain, IsInjective
<1>2. head \notin Items /\ head \in Refs
  BY ItemsAssumption DEF Headers, Refs
<1>3. \A k \in 0 .. Len(s) : k = 0 \/ k \in 1 .. Len(s)
  BY <1>1
<1> QED
  BY <1>1, <1>2, <1>3 DEF Node, Refs

\* After the p-th node an item is pushed, ...
LEMMA ChainGrows ==
  ASSUME NEW n \in [Refs -> Items \union {Null}], NEW head \in Headers, NEW s, Chain(n, head, s),
         NEW p \in 0 .. Len(s), NEW item \in Items, \A k \in 1 .. Len(s) : s[k] # item,
         NEW r \in Seq(Items), Len(r) = Len(s) + 1,
         \A k \in 1 .. Len(s) + 1 :
           r[k] = IF k <= p THEN s[k] ELSE IF k = p + 1 THEN item ELSE s[k - 1]
  PROVE  Chain(Pushed(n, Node(head, s, p), item), head, r)
<1> DEFINE ref == Node(head, s, p)
           m == Pushed(n, ref, item)
<1>0. s \in Seq(Items) /\ r \in Seq(Items)
  BY DEF Chain
<1>1. /\ Len(s) \in Nat /\ \A k \in 1 .. Len(s) : s[k] \in Items
      /\ \A k \in 0 .. Len(s) : Node(head, s, k) \in Items \union {head} /\ Node(head, s, k) \in Refs
      /\ \A j, k \in 0 .. Len(s) : Node(head, s, j) = Node(head, s, k) => j = k
  BY NodesApart
<1>2. \A k \in 0 .. Len(s) : Node(head, s, k) # item
  BY <1>1, ItemsAssumption DEF Node, Headers
<1>3. \A k \in 0 .. Len(s) : n[Node(head, s, k)] = IF k = Len(s) THEN Null ELSE s[k + 1]
  BY DEF Chain
<1>4. /\ ref \in Refs /\ item \in Refs /\ ref # item
      /\ m[item] = n[ref] /\ m[ref] = item
      /\ \A x \in Refs \ {item, ref} : m[x] = n[x]
  BY <1>1, <1>2 DEF Pushed, Refs
<1> HIDE DEF ref, m
<1>5. IsInjective(r)
  <2>1. DOMAIN r = 1 .. Len(s) + 1 /\ Len(s) + 1 \in Nat
    BY <1>1, LenProperties
  <2>2. \A j, k \in 1 .. Len(s) : s[j] = s[k] => j = k
    <3>1. \A k \in 1 .. Len(s) : k \in 0 .. Len(s) /\ Node(head, s, k) = s[k]
      BY <1>1 DEF Node
    <3> QED
      BY <1>1, <3>1
  <2> SUFFICES ASSUME NEW j \in 1 .. Len(s) + 1, NEW k \in 1 .. Len(s) + 1, r[j] = r[k]
               PROVE  j = k
    BY <2>1 DEF IsInjective
  <2> DEFINE Old(i) == IF i <= p THEN i ELSE i - 1
  <2>3. \A i \in 1 .. Len(s) + 1 : i # p + 1 => Old(i) \in 1 .. Len(s) /\ r[i] = s[Old(i)]
    BY <1>1
  <2>4. r[p + 1] = item
    BY <1>1
  <2>5. CASE j = p + 1 \/ k = p + 1
    BY <2>3, <2>4, <2>5
  <2>6. CASE j # p + 1 /\ k # p + 1
    <3>1. Old(j) = Old(k)
      <4>1. Old(j) \in 1 .. Len(s) /\ Old(k) \in 1 .. Len(s) /\ s[Old(j)] = s[Old(k)]
        BY <2>3, <2>6
      <4> HIDE DEF Old
      <4> QED
        BY <2>2, <4>1
    <3> QED
      BY <1>1, <2>6, <3>1
  <2> QED
    BY <2>5, <2>6
<1>6. ASSUME NEW k \in 0 .. Len(r)
      PROVE  m[Node(head, r, k)] = IF k = Len(r) THEN Null ELSE r[k + 1]
  <2>1. CASE k < p
    <3>1. k \in 0 .. Len(s) /\ k # Len(s) /\ k # Len(r) /\ k # p /\ k + 1 \in 1 .. Len(s) + 1 /\ k + 1 <= p
      BY <1>1, <2>1
    <3>2. Node(head, r, k) = Node(head, s, k)
      BY <1>1, <2>1, <3>1 DEF Node
    <3>3. Node(head, s, k) \in Refs \ {item, ref}
      BY <1>1, <1>2, <3>1 DEF ref
    <3>4. n[Node(head, s, k)] = s[k + 1] /\ r[k + 1] = s[k + 1]
      BY <1>3, <3>1
    <3> QED
      BY <1>4, <3>1, <3>2, <3>3, <3>4
  <2>2. CASE k = p
    <3>1. k # Len(r) /\ r[k + 1] = item
      BY <1>1, <2>2
    <3>2. Node(head, r, k) = ref
      BY <1>1, <2>2 DEF Node, ref
    <3> QED
      BY <1>4, <3>1, <3>2
  <2>3. CASE k = p + 1
    <3>1. k # 0 /\ Node(head, r, k) = item
      BY <1>1, <2>3 DEF Node
    <3>2. n[ref] = IF p = Len(s) THEN Null ELSE s[p + 1]
      BY <1>3 DEF ref
    <3>3. k = Len(r) <=> p = Len(s)
      BY <1>0, <1>1, <2>3
    <3>4. k # Len(r) => r[k + 1] = s[p + 1]
      BY <1>1, <2>3
    <3> QED
      BY <1>4, <3>1, <3>2, <3>3, <3>4
  <2>4. CASE k > p + 1
    <3>1. /\ k - 1 \in 0 .. Len(s) /\ k - 1 \in 1 .. Len(s) /\ k - 1 # p /\ k # 0 /\ k - 1 # 0
          /\ (k = Len(r) <=> k - 1 = Len(s)) /\ (k - 1) + 1 = k
      BY <1>1, <2>4
    <3>2. Node(head, r, k) = Node(head, s, k - 1)
      BY <1>1, <2>4, <3>1 DEF Node
    <3>3. Node(head, s, k - 1) \in Refs \ {item, ref}
      BY <1>1, <1>2, <3>1 DEF ref
    <3>4. n[Node(head, s, k - 1)] = IF k = Len(r) THEN Null ELSE s[k]
      BY <1>3, <3>1
    <3>5. k # Len(r) => r[k + 1] = s[k]
      BY <1>0, <1>1, <2>4
    <3> QED
      BY <1>4, <3>2, <3>3, <3>4, <3>5
  <2> QED
    BY <1>1, <2>1, <2>2, <2>3, <2>4
<1> QED
  BY <1>5, <1>6 DEF Chain, m, ref

\* ... or the item that follows it is popped.
LEMMA ChainShrinks ==
  ASSUME NEW n \in [Refs -> Items \union {Null}], NEW head \in Headers, NEW s, Chain(n, head, s),
         NEW p \in 0 .. Len(s), p < Len(s),
         NEW r \in Seq(Items), Len(r) = Len(s) - 1,
         \A k \in 1 .. Len(s) - 1 : r[k] = IF k <= p THEN s[k] ELSE s[k + 1]
  PROVE  Chain(Popped(n, Node(head, s, p)), head, r)
<1> DEFINE ref == Node(head, s, p)
           m == Popped(n, ref)
           item == s[p + 1]
<1>0. s \in Seq(Items) /\ r \in Seq(Items)
  BY DEF Chain
<1>1. /\ Len(s) \in Nat /\ \A k \in 1 .. Len(s) : s[k] \in Items
      /\ \A k \in 0 .. Len(s) : Node(head, s, k) \in Items \union {head} /\ Node(head, s, k) \in Refs
      /\ \A j, k \in 0 .. Len(s) : Node(head, s, j) = Node(head, s, k) => j = k
  BY NodesApart
<1>2. /\ p + 1 \in 0 .. Len(s) /\ p + 1 \in 1 .. Len(s) /\ item = Node(head, s, p + 1)
      /\ item \in Items /\ item # Null
  BY <1>1, ItemsAssumption DEF Node
<1>3. \A k \in 0 .. Len(s) : n[Node(head, s, k)] = IF k = Len(s) THEN Null ELSE s[k + 1]
  BY DEF Chain
<1>4. n[ref] = item
  BY <1>1, <1>3
<1>5. /\ ref \in Refs /\ item \in Refs /\ ref # item
      /\ m[ref] = n[item]
      /\ \A x \in Refs \ {item, ref} : m[x] = n[x]
  <2>1. ref \in Refs /\ item \in Refs /\ ref # item
    BY <1>1, <1>2
  <2> HIDE DEF ref, item
  <2> QED
    BY <1>2, <1>4, <2>1 DEF Popped
<1> HIDE DEF ref, m, item
<1> DEFINE Old(i) == IF i <= p THEN i ELSE i + 1
<1>6. \A i \in 1 .. Len(r) : Old(i) \in 1 .. Len(s) /\ r[i] = s[Old(i)]
  BY <1>1
<1>7. IsInjective(r)
  <2>1. DOMAIN r = 1 .. Len(r)
    BY LenProperties
  <2>2. \A j, k \in 1 .. Len(s) : s[j] = s[k] => j = k
    BY <1>1 DEF Node
  <2> SUFFICES ASSUME NEW j \in 1 .. Len(r), NEW k \in 1 .. Len(r), r[j] = r[k]
               PROVE  j = k
    BY <2>1 DEF IsInjective
  <2>3. Old(j) = Old(k)
    BY <1>6, <2>2
  <2> QED
    BY <1>1, <2>3
<1>8. ASSUME NEW k \in 0 .. Len(r)
      PROVE  m[Node(head, r, k)] = IF k = Len(r) THEN Null ELSE r[k + 1]
  <2>1. CASE k < p
    <3>1. /\ k \in 0 .. Len(s) /\ k # Len(s) /\ k # Len(r) /\ k # p /\ k # p + 1
          /\ k + 1 \in 1 .. Len(s) - 1 /\ k + 1 <= p
      BY <1>1, <2>1
    <3>2. Node(head, r, k) = Node(head, s, k)
      BY <1>1, <2>1, <3>1 DEF Node
    <3>3. Node(head, s, k) \in Refs \ {item, ref}
      BY <1>1, <1>2, <3>1 DEF ref
    <3>4. n[Node(head, s, k)] = s[k + 1] /\ r[k + 1] = s[k + 1]
      BY <1>3, <3>1
    <3> QED
      BY <1>5, <3>1, <3>2, <3>3, <3>4
  <2>2. CASE k = p
    <3>1. Node(head, r, k) = ref
      BY <1>1, <2>2 DEF Node, ref
    <3>2. n[item] = IF p + 1 = Len(s) THEN Null ELSE s[p + 2]
      BY <1>1, <1>2, <1>3
    <3>3. k = Len(r) <=> p + 1 = Len(s)
      BY <1>1, <2>2
    <3>4. k # Len(r) => r[k + 1] = s[p + 2]
      BY <1>1, <2>2
    <3> QED
      BY <1>5, <3>1, <3>2, <3>3, <3>4
  <2>3. CASE k > p
    <3>1. /\ k + 1 \in 0 .. Len(s) /\ k + 1 # p /\ k + 1 # p + 1 /\ k # 0 /\ k + 1 # 0
          /\ (k = Len(r) <=> k + 1 = Len(s))
      <4>1. Len(s) \in Nat /\ Len(r) = Len(s) - 1 /\ k \in 0 .. Len(s) - 1 /\ p \in 0 .. Len(s) /\ k > p
        BY <1>1, <2>3
      <4> QED
        BY ONLY <4>1
    <3>2. Node(head, r, k) = Node(head, s, k + 1)
      BY <1>1, <2>3, <3>1 DEF Node
    <3>3. Node(head, s, k + 1) \in Refs \ {item, ref}
      BY <1>1, <1>2, <3>1 DEF ref
    <3>4. n[Node(head, s, k + 1)] = IF k = Len(r) THEN Null ELSE s[k + 2]
      BY <1>1, <1>3, <3>1
    <3>5. k # Len(r) => r[k + 1] = s[k + 2]
      <4> SUFFICES ASSUME k # Len(r) PROVE r[k + 1] = s[k + 2]
        OBVIOUS
      <4>1. k + 1 \in 1 .. Len(s) - 1 /\ ~(k + 1 <= p) /\ (k + 1) + 1 = k + 2
        <5>1. /\ Len(s) \in Nat /\ k \in 0 .. Len(s) - 1 /\ k # Len(s) - 1
              /\ p \in 0 .. Len(s) /\ k > p
          BY <1>1, <2>3
        <5> QED
          BY ONLY <1>0, <5>1
      <4> QED
        BY <4>1
    <3> QED
      BY <1>5, <3>2, <3>3, <3>4, <3>5
  <2> QED
    BY <1>1, <2>1, <2>2, <2>3
<1> QED
  BY <1>7, <1>8 DEF Chain, m, ref

\* Nothing happens to a chain that the change does not touch.
LEMMA ChainStays ==
  ASSUME NEW n, NEW m, NEW head, NEW s, Chain(n, head, s),
         \A k \in 0 .. Len(s) : m[Node(head, s, k)] = n[Node(head, s, k)]
  PROVE  Chain(m, head, s)
BY DEF Chain

-------------------------------------------------------------------------------
(* Two chains without an item in common.                                   *)

Apart(s, o) == \A j \in 1 .. Len(s), k \in 1 .. Len(o) : s[j] # o[k]
Missing(item, s) == \A k \in 1 .. Len(s) : s[k] # item

Pair(n, head, s, other, o) ==
  /\ n \in [Refs -> Items \union {Null}]
  /\ Chain(n, head, s) /\ Chain(n, other, o) /\ Apart(s, o)

LEMMA PairSwapped ==
  ASSUME NEW n, NEW head, NEW s, NEW other, NEW o, Pair(n, head, s, other, o)
  PROVE  Pair(n, other, o, head, s)
BY DEF Pair, Apart

LEMMA PushKeeps ==
  ASSUME NEW n, NEW head \in Headers, NEW s, NEW other \in Headers, NEW o,
         head # other, Pair(n, head, s, other, o),
         NEW p \in 0 .. Len(s), NEW item \in Items, Missing(item, s), Missing(item, o),
         NEW r \in Seq(Items), Len(r) = Len(s) + 1,
         \A k \in 1 .. Len(s) + 1 :
           r[k] = IF k <= p THEN s[k] ELSE IF k = p + 1 THEN item ELSE s[k - 1]
  PROVE  Pair(Pushed(n, Node(head, s, p), item), head, r, other, o)
<1> DEFINE ref == Node(head, s, p)
           m == Pushed(n, ref, item)
<1>1. n \in [Refs -> Items \union {Null}] /\ Chain(n, head, s) /\ Chain(n, other, o) /\ Apart(s, o)
  BY DEF Pair
<1>2. Chain(m, head, r)
  BY <1>1, ChainGrows DEF Missing
<1>3. /\ Len(s) \in Nat /\ Len(o) \in Nat
      /\ \A k \in 1 .. Len(s) : s[k] \in Items
      /\ \A k \in 1 .. Len(o) : o[k] \in Items
      /\ \A k \in 0 .. Len(o) : Node(other, o, k) \in Refs
      /\ ref \in Refs
  BY <1>1, NodesApart
<1>4. head \notin Items /\ other \notin Items
  BY ItemsAssumption DEF Headers
<1>5. \A k \in 0 .. Len(o) : Node(other, o, k) # ref /\ Node(other, o, k) # item
  BY <1>1, <1>3, <1>4 DEF Node, Apart, Missing
<1> HIDE DEF ref
<1>6. m \in [Refs -> Items \union {Null}]
  BY <1>1, <1>3 DEF Pushed, Refs
<1>7. \A x \in Refs \ {item, ref} : m[x] = n[x]
  BY <1>1 DEF Pushed
<1> HIDE DEF m
<1>8. Chain(m, other, o)
  BY <1>1, <1>3, <1>5, <1>7, ChainStays
<1>9. Apart(r, o)
  <2> SUFFICES ASSUME NEW j \in 1 .. Len(s) + 1, NEW k \in 1 .. Len(o) PROVE r[j] # o[k]
    BY DEF Apart
  <2>1. \/ j \in 1 .. Len(s) /\ r[j] = s[j]
        \/ r[j] = item
        \/ j - 1 \in 1 .. Len(s) /\ r[j] = s[j - 1]
    BY <1>3
  <2> QED
    BY <1>1, <2>1 DEF Apart, Missing
<1> QED
  BY <1>2, <1>6, <1>8, <1>9 DEF Pair, m, ref

LEMMA PopKeeps ==
  ASSUME NEW n, NEW head \in Headers, NEW s, NEW other \in Headers, NEW o,
         head # other, Pair(n, head, s, other, o),
         NEW p \in 0 .. Len(s), p < Len(s),
         NEW r \in Seq(Items), Len(r) = Len(s) - 1,
         \A k \in 1 .. Len(s) - 1 : r[k] = IF k <= p THEN s[k] ELSE s[k + 1]
  PROVE  Pair(Popped(n, Node(head, s, p)), head, r, other, o)
<1> DEFINE ref == Node(head, s, p)
           m == Popped(n, ref)
<1>1. n \in [Refs -> Items \union {Null}] /\ Chain(n, head, s) /\ Chain(n, other, o) /\ Apart(s, o)
  BY DEF Pair
<1>2. Chain(m, head, r)
  BY <1>1, ChainShrinks
<1>3. /\ Len(s) \in Nat /\ Len(o) \in Nat
      /\ \A k \in 1 .. Len(s) : s[k] \in Items
      /\ \A k \in 1 .. Len(o) : o[k] \in Items
      /\ \A k \in 0 .. Len(o) : Node(other, o, k) \in Refs
      /\ ref \in Refs
  BY <1>1, NodesApart
<1>4. head \notin Items /\ other \notin Items
  BY ItemsAssumption DEF Headers
<1>5. n[ref] = s[p + 1] /\ p + 1 \in 1 .. Len(s)
  <2>1. p + 1 \in 1 .. Len(s) /\ p # Len(s)
    BY <1>3
  <2>2. n[Node(head, s, p)] = IF p = Len(s) THEN Null ELSE s[p + 1]
    BY <1>1, Zenon DEF Chain
  <2> QED
    BY <2>1, <2>2
<1>6. \A k \in 0 .. Len(o) : Node(other, o, k) # ref /\ Node(other, o, k) # n[ref]
  BY <1>1, <1>3, <1>4, <1>5 DEF Node, Apart
<1>7. n[ref] \in Items /\ n[ref] \in Refs
  BY <1>3, <1>5 DEF Refs
<1> HIDE DEF ref
<1>8. m \in [Refs -> Items \union {Null}]
  BY <1>1, <1>3, <1>7 DEF Popped
<1>9. \A x \in Refs \ {n[ref], ref} : m[x] = n[x]
  BY <1>1 DEF Popped
<1> HIDE DEF m
<1>10. Chain(m, other, o)
  BY <1>1, <1>3, <1>6, <1>9, ChainStays
<1>11. Apart(r, o)
  <2> SUFFICES ASSUME NEW j \in 1 .. Len(s) - 1, NEW k \in 1 .. Len(o) PROVE r[j] # o[k]
    BY DEF Apart
  <2>1. \/ j \in 1 .. Len(s) /\ r[j] = s[j]
        \/ j + 1 \in 1 .. Len(s) /\ r[j] = s[j + 1]
    BY <1>3
  <2> QED
    BY <1>1, <2>1 DEF Apart
<1> QED
  BY <1>2, <1>8, <1>10, <1>11 DEF Pair, m, ref

\* What the operations of the waiting line do to the items of a sequence.
LEMMA FrontPut ==
  ASSUME NEW s \in Seq(Items), NEW item \in Items
  PROVE  /\ <<item>> \o s \in Seq(Items) /\ Len(<<item>> \o s) = Len(s) + 1 /\ 0 \in 0 .. Len(s)
         /\ \A k \in 1 .. Len(s) + 1 :
              (<<item>> \o s)[k] = IF k <= 0 THEN s[k] ELSE IF k = 0 + 1 THEN item ELSE s[k - 1]
<1> DEFINE one == <<item>>
<1>1. one \in Seq(Items) /\ Len(one) = 1 /\ one[1] = item /\ Len(s) \in Nat
  BY LenProperties
<1> HIDE DEF one
<1>2. /\ one \o s \in Seq(Items) /\ Len(one \o s) = Len(one) + Len(s)
      /\ \A i \in 1 .. Len(one) + Len(s) :
           (one \o s)[i] = IF i <= Len(one) THEN one[i] ELSE s[i - Len(one)]
  BY <1>1, ConcatProperties
<1> DEFINE r == one \o s
<1> HIDE DEF r
<1>3. /\ r \in Seq(Items) /\ Len(r) = Len(s) + 1
      /\ \A i \in 1 .. Len(s) + 1 : r[i] = IF i <= 1 THEN one[i] ELSE s[i - 1]
  BY <1>1, <1>2 DEF r
<1>4. \A k \in 1 .. Len(s) + 1 : r[k] = IF k <= 0 THEN s[k] ELSE IF k = 0 + 1 THEN item ELSE s[k - 1]
  BY <1>1, <1>3
<1> QED
  BY <1>1, <1>3, <1>4 DEF r, one

LEMMA EndPut ==
  ASSUME NEW s \in Seq(Items), NEW item \in Items
  PROVE  /\ Append(s, item) \in Seq(Items) /\ Len(Append(s, item)) = Len(s) + 1
         /\ Len(s) \in 0 .. Len(s)
         /\ Append(s, item)[Len(s) + 1] = item
         /\ \A k \in 1 .. Len(s) + 1 :
              Append(s, item)[k] = IF k <= Len(s) THEN s[k]
                                   ELSE IF k = Len(s) + 1 THEN item ELSE s[k - 1]
<1>1. Len(s) \in Nat
  BY LenProperties
<1>2. /\ Append(s, item) \in Seq(Items) /\ Len(Append(s, item)) = Len(s) + 1
      /\ \A k \in 1 .. Len(s) : Append(s, item)[k] = s[k]
      /\ Append(s, item)[Len(s) + 1] = item
  BY <1>1
<1> DEFINE r == Append(s, item)
<1> HIDE DEF r
<1>3. \A k \in 1 .. Len(s) + 1 :
        r[k] = IF k <= Len(s) THEN s[k] ELSE IF k = Len(s) + 1 THEN item ELSE s[k - 1]
  BY <1>1, <1>2 DEF r
<1> QED
  BY <1>1, <1>2, <1>3 DEF r

LEMMA FrontTaken ==
  ASSUME NEW s \in Seq(Items), s # <<>>
  PROVE  /\ Tail(s) \in Seq(Items) /\ Len(Tail(s)) = Len(s) - 1
         /\ 0 \in 0 .. Len(s) /\ 0 < Len(s)
         /\ \A k \in 1 .. Len(s) - 1 : Tail(s)[k] = IF k <= 0 THEN s[k] ELSE s[k + 1]
<1>1. Len(s) \in Nat \ {0}
  BY EmptySeq
<1>2. /\ Tail(s) \in Seq(Items) /\ Len(Tail(s)) = Len(s) - 1
      /\ \A i \in 1 .. Len(Tail(s)) : Tail(s)[i] = s[i + 1]
  BY HeadTailProperties
<1> DEFINE r == Tail(s)
<1> HIDE DEF r
<1>3. \A k \in 1 .. Len(s) - 1 : r[k] = IF k <= 0 THEN s[k] ELSE s[k + 1]
  BY <1>1, <1>2 DEF r
<1> QED
  BY <1>1, <1>2, <1>3 DEF r

-------------------------------------------------------------------------------
(* The queue and the list besides: two chains without an item in common,   *)
(* and the tail points to the last item of the first.                      *)

LastOf(q) == IF q = <<>> THEN Null ELSE q[Len(q)]

Held(n, t, q, l) == Pair(n, First, q, Loose, l) /\ t = LastOf(q)

QueueInv == Held(next, tail, Listed(next, First), Listed(next, Loose))

LEMMA HeldListed ==
  ASSUME NEW n, NEW t, NEW q, NEW l, Held(n, t, q, l)
  PROVE  /\ Listed(n, First) = q /\ Listed(n, Loose) = l
         /\ q \in Seq(Items) /\ Len(q) \in Nat /\ DOMAIN q = 1 .. Len(q)
         /\ l \in Seq(Items) /\ Len(l) \in Nat /\ DOMAIN l = 1 .. Len(l)
<1>1. Chain(n, First, q) /\ Chain(n, Loose, l)
  BY DEF Held, Pair
<1>2. First # Null /\ Loose # Null
  BY ItemsAssumption
<1>3. Listed(n, First) = q /\ Listed(n, Loose) = l
  BY <1>1, <1>2, ChainListed
<1>4. q \in Seq(Items) /\ l \in Seq(Items)
  BY <1>1 DEF Chain
<1> QED
  BY <1>3, <1>4, LenProperties

LEMMA NewLists ==
  ASSUME NEW q, NEW l, Held(next', tail', q, l)
  PROVE  /\ QueueInv' /\ Listed(next, First)' = q /\ Listed(next, Loose)' = l
<1>1. Listed(next', First) = q /\ Listed(next', Loose) = l
  BY HeldListed
<1> QED
  BY <1>1 DEF QueueInv

LEMMA InitQueueInv ==
  ASSUME QueueInit
  PROVE  QueueInv /\ Line!LineInit
<1> DEFINE e == <<>>
<1>1. e \in Seq(Items) /\ Len(e) = 0 /\ IsInjective(e)
  <2>1. e \in Seq(Items) /\ Len(e) = 0 /\ DOMAIN e = {}
    OBVIOUS
  <2> QED
    BY <2>1 DEF IsInjective
<1> HIDE DEF e
<1>2. ASSUME NEW head \in Headers PROVE Chain(next, head, e)
  <2>1. \A k \in 0 .. Len(e) : k = 0 /\ Node(head, e, k) = head
    BY <1>1 DEF Node
  <2>2. next[head] = Null
    BY DEF QueueInit, Headers, Refs
  <2> QED
    BY <1>1, <2>1, <2>2 DEF Chain
<1>3. Held(next, tail, e, e)
  <2>1. next \in [Refs -> Items \union {Null}] /\ tail = Null
    BY DEF QueueInit
  <2>2. Apart(e, e)
    BY <1>1 DEF Apart
  <2>3. LastOf(e) = Null
    BY DEF LastOf, e
  <2> QED
    BY <1>2, <2>1, <2>2, <2>3 DEF Held, Pair, Headers
<1>4. Listed(next, First) = e /\ Listed(next, Loose) = e
  BY <1>3, HeldListed
<1> QED
  BY <1>3, <1>4 DEF QueueInv, Line!LineInit, e

-------------------------------------------------------------------------------
(* The items that an operation finds.                                      *)

LEMMA UnlistedMissing ==
  ASSUME QueueInv, NEW item, Unlisted(item)
  PROVE  /\ Missing(item, Listed(next, First)) /\ Missing(item, Listed(next, Loose))
         /\ Line!IsFree(item)
<1> DEFINE q == Listed(next, First)
           l == Listed(next, Loose)
<1>1. DOMAIN q = 1 .. Len(q) /\ DOMAIN l = 1 .. Len(l)
  BY HeldListed DEF QueueInv
<1>2. (\A k \in DOMAIN q : q[k] # item) /\ (\A k \in DOMAIN l : l[k] # item)
  <2>1. ~OnList(next, First, item) /\ ~OnList(next, Loose, item)
    BY DEF Unlisted
  <2> QED
    BY <2>1, Zenon DEF OnList
<1> HIDE DEF q, l
<1>3. item \notin Line!ToSet(q) /\ item \notin Line!ToSet(l)
  BY <1>2 DEF Line!ToSet
<1> QED
  BY <1>1, <1>2, <1>3 DEF Missing, Line!IsFree, q, l

LEMMA DeletedChain ==
  ASSUME NEW n, NEW head \in Headers, NEW s, Chain(n, head, s), NEW item \in Items
  PROVE  \/ Missing(item, s) /\ Deleted(n, head, item) = n
         \/ \E k \in 1 .. Len(s) :
              s[k] = item /\ Deleted(n, head, item) = Popped(n, Node(head, s, k - 1))
<1> DEFINE N == Cardinality(Items)
           before == {k \in 0 .. N : Path(n, head)[k] # Null /\ n[Path(n, head)[k]] = item}
<1>0. s \in Seq(Items)
  BY DEF Chain
<1>1. /\ Len(s) \in Nat /\ N \in Nat /\ Len(s) <= N
      /\ \A k \in 0 .. Len(s) : Node(head, s, k) \in Refs
  BY ChainFits, NodesApart DEF Chain
<1>2. head # Null /\ Null \notin Items
  BY ItemsAssumption DEF Headers
<1>3. \A k \in 0 .. N + 1 : Path(n, head)[k] = IF k <= Len(s) THEN Node(head, s, k) ELSE Null
  BY <1>2, ChainPath
<1>4. \A k \in 0 .. Len(s) : n[Node(head, s, k)] = IF k = Len(s) THEN Null ELSE s[k + 1]
  BY DEF Chain
<1>5. \A k \in before : /\ k \in 0 .. Len(s) /\ k # Len(s) /\ s[k + 1] = item
                        /\ Path(n, head)[k] = Node(head, s, k)
  <2> SUFFICES ASSUME NEW k \in 0 .. N, Path(n, head)[k] # Null, n[Path(n, head)[k]] = item
               PROVE  /\ k \in 0 .. Len(s) /\ k # Len(s) /\ s[k + 1] = item
                      /\ Path(n, head)[k] = Node(head, s, k)
    OBVIOUS
  <2>1. k \in 0 .. N + 1 /\ k <= Len(s) /\ k \in 0 .. Len(s)
    BY <1>1, <1>3
  <2>2. Path(n, head)[k] = Node(head, s, k)
    BY <1>3, <2>1
  <2>3. n[Node(head, s, k)] = item
    BY <2>2
  <2> QED
    BY <1>2, <1>4, <2>1, <2>2, <2>3
<1>6. \A k \in 1 .. Len(s) : s[k] = item => k - 1 \in before
  <2> SUFFICES ASSUME NEW k \in 1 .. Len(s), s[k] = item PROVE k - 1 \in before
    OBVIOUS
  <2>1. /\ k - 1 \in 0 .. N /\ k - 1 \in 0 .. N + 1 /\ k - 1 <= Len(s) /\ k - 1 \in 0 .. Len(s)
        /\ k - 1 # Len(s) /\ (k - 1) + 1 = k
    BY <1>1
  <2>2. Path(n, head)[k - 1] = Node(head, s, k - 1)
    BY <1>3, <2>1
  <2>3. n[Node(head, s, k - 1)] = item
    BY <1>4, <2>1
  <2>4. Node(head, s, k - 1) # Null
    BY <1>1, <1>2, <2>1, ItemsAssumption DEF Refs
  <2> QED
    BY <2>1, <2>2, <2>3, <2>4
<1>7. Deleted(n, head, item)
        = IF before = {} THEN n ELSE Popped(n, Path(n, head)[CHOOSE k \in before : TRUE])
  BY DEF Deleted
<1> HIDE DEF before
<1>8. CASE before = {}
  BY <1>6, <1>7, <1>8 DEF Missing
<1>9. CASE before # {}
  <2> DEFINE k == CHOOSE j \in before : TRUE
  <2>1. k \in before
    BY <1>9
  <2> HIDE DEF k
  <2>2. k + 1 \in 1 .. Len(s) /\ s[k + 1] = item /\ (k + 1) - 1 = k
    BY <1>0, <1>1, <1>5, <2>1
  <2>3. Deleted(n, head, item) = Popped(n, Node(head, s, k))
    BY <1>5, <1>7, <1>9, <2>1 DEF k
  <2> QED
    BY <2>2, <2>3
<1> QED
  BY <1>8, <1>9

-------------------------------------------------------------------------------
(* Each operation is a step of the waiting line.                           *)

LineStep == [Line!LineNext]_<<Listed(next, First), Listed(next, Loose)>>

LEMMA SameLine ==
  ASSUME Listed(next, First)' = Listed(next, First), Listed(next, Loose)' = Listed(next, Loose)
  PROVE  LineStep
BY DEF LineStep

LEMMA AppendStep ==
  ASSUME QueueInv, NEW item \in Items, QueueAppend(item)
  PROVE  QueueInv' /\ LineStep
<1> DEFINE q == Listed(next, First)
           l == Listed(next, Loose)
           m == [next EXCEPT ![item] = Null]
           r == Append(q, item)
<1>1. Pair(next, First, q, Loose, l) /\ tail = LastOf(q)
  BY DEF QueueInv, Held
<1>2. /\ q \in Seq(Items) /\ Len(q) \in Nat /\ Len(q) \in 0 .. Len(q)
      /\ Missing(item, q) /\ Missing(item, l) /\ Line!IsFree(item)
  BY HeldListed, UnlistedMissing DEF QueueInv, QueueAppend
<1> HIDE DEF q, l
<1>3. First \in Headers /\ Loose \in Headers /\ First # Loose /\ item \notin Headers
  BY ItemsAssumption DEF Headers
<1>4. Pair(m, First, q, Loose, l)
  <2>1. /\ next \in [Refs -> Items \union {Null}] /\ Apart(q, l)
        /\ Chain(next, First, q) /\ Chain(next, Loose, l)
    BY <1>1 DEF Pair
  <2>2. m \in [Refs -> Items \union {Null}] /\ \A x \in Refs \ {item} : m[x] = next[x]
    BY <2>1
  <2>3. /\ \A k \in 0 .. Len(q) : Node(First, q, k) \in Refs
        /\ \A k \in 0 .. Len(l) : Node(Loose, l, k) \in Refs
        /\ Len(q) \in Nat /\ Len(l) \in Nat
    BY <1>3, <2>1, NodesApart
  <2>4. /\ \A k \in 0 .. Len(q) : Node(First, q, k) # item
        /\ \A k \in 0 .. Len(l) : Node(Loose, l, k) # item
    BY <1>2, <1>3, <2>3 DEF Node, Missing, Headers
  <2> HIDE DEF m
  <2>5. Chain(m, First, q) /\ Chain(m, Loose, l)
    BY <2>1, <2>2, <2>3, <2>4, ChainStays
  <2> QED
    BY <2>1, <2>2, <2>5 DEF Pair
<1>5. next' = Pushed(m, Node(First, q, Len(q)), item) /\ tail' = item
  <2>1. CASE q = <<>>
    <3>1. Len(q) = 0 /\ tail = Null
      BY <1>1, <2>1 DEF LastOf
    <3> QED
      BY <3>1 DEF QueueAppend, Node
  <2>2. CASE q # <<>>
    <3>1. Len(q) # 0 /\ Len(q) \in 1 .. Len(q) /\ tail = q[Len(q)]
      BY <1>1, <1>2, <2>2, EmptySeq DEF LastOf
    <3>2. tail # Null
      BY <1>2, <3>1, ElementOfSeq, ItemsAssumption
    <3> QED
      BY <3>1, <3>2 DEF QueueAppend, Node
  <2> QED
    BY <2>1, <2>2
<1> HIDE DEF m
<1>6. /\ r \in Seq(Items) /\ Len(r) = Len(q) + 1
      /\ r[Len(q) + 1] = item
      /\ \A k \in 1 .. Len(q) + 1 :
           r[k] = IF k <= Len(q) THEN q[k] ELSE IF k = Len(q) + 1 THEN item ELSE q[k - 1]
  BY <1>2, EndPut
<1> HIDE DEF r
<1>7. Pair(next', First, r, Loose, l)
  BY <1>2, <1>3, <1>4, <1>5, <1>6, PushKeeps
<1>8. LastOf(r) = item
  BY <1>2, <1>6 DEF LastOf
<1>9. Held(next', tail', r, l)
  BY <1>5, <1>7, <1>8 DEF Held
<1>10. QueueInv' /\ Listed(next, First)' = r /\ Listed(next, Loose)' = l
  BY <1>9, NewLists
<1>11. Line!Join(item)
  BY <1>2, <1>10 DEF Line!Join, r, q
<1> QED
  BY <1>10, <1>11 DEF LineStep, Line!LineNext, l

LEMMA PrependStep ==
  ASSUME QueueInv, NEW item \in Items, QueuePrepend(item)
  PROVE  QueueInv' /\ LineStep
<1> DEFINE q == Listed(next, First)
           l == Listed(next, Loose)
           r == <<item>> \o q
<1>1. Pair(next, First, q, Loose, l) /\ tail = LastOf(q)
  BY DEF QueueInv, Held
<1>2. /\ q \in Seq(Items) /\ Len(q) \in Nat
      /\ Missing(item, q) /\ Missing(item, l) /\ Line!IsFree(item)
  BY HeldListed, UnlistedMissing DEF QueueInv, QueuePrepend
<1> HIDE DEF q, l
<1>3. First \in Headers /\ Loose \in Headers /\ First # Loose
  BY ItemsAssumption DEF Headers
<1>4. next' = Pushed(next, Node(First, q, 0), item)
  BY DEF QueuePrepend, Node
<1>5. /\ r \in Seq(Items) /\ Len(r) = Len(q) + 1 /\ 0 \in 0 .. Len(q)
      /\ \A k \in 1 .. Len(q) + 1 :
           r[k] = IF k <= 0 THEN q[k] ELSE IF k = 0 + 1 THEN item ELSE q[k - 1]
  BY <1>2, FrontPut
<1> HIDE DEF r
<1>6. Pair(next', First, r, Loose, l)
  BY <1>1, <1>2, <1>3, <1>4, <1>5, PushKeeps
<1>7. LastOf(r) = tail'
  <2>1. r # <<>> /\ LastOf(r) = r[Len(q) + 1]
    BY <1>2, <1>5 DEF LastOf
  <2>2. CASE q = <<>>
    <3>1. Len(q) = 0 /\ tail = Null
      BY <1>1, <2>2 DEF LastOf
    <3>2. r[1] = item
      BY <1>5, <3>1
    <3> QED
      BY <2>1, <3>1, <3>2 DEF QueuePrepend
  <2>3. CASE q # <<>>
    <3>1. Len(q) # 0 /\ Len(q) \in 1 .. Len(q) /\ tail = q[Len(q)]
      BY <1>1, <1>2, <2>3, EmptySeq DEF LastOf
    <3>2. tail # Null
      BY <1>2, <3>1, ElementOfSeq, ItemsAssumption
    <3>3. r[Len(q) + 1] = q[Len(q)]
      BY <1>2, <1>5, <3>1
    <3> QED
      BY <2>1, <3>1, <3>2, <3>3 DEF QueuePrepend
  <2> QED
    BY <2>2, <2>3
<1>8. Held(next', tail', r, l)
  BY <1>6, <1>7 DEF Held
<1>9. QueueInv' /\ Listed(next, First)' = r /\ Listed(next, Loose)' = l
  BY <1>8, NewLists
<1>10. Line!ButtIn(item)
  BY <1>2, <1>9 DEF Line!ButtIn, r, q
<1> QED
  BY <1>9, <1>10 DEF LineStep, Line!LineNext, l

LEMMA RemoveStep ==
  ASSUME QueueInv, QueueRemove
  PROVE  QueueInv' /\ LineStep
<1> DEFINE q == Listed(next, First)
           l == Listed(next, Loose)
           r == Tail(q)
<1>1. Pair(next, First, q, Loose, l) /\ tail = LastOf(q)
  BY DEF QueueInv, Held
<1>2. q \in Seq(Items) /\ Len(q) \in Nat
  BY HeldListed DEF QueueInv
<1> HIDE DEF q, l
<1>3. First \in Headers /\ Loose \in Headers /\ First # Loose
  BY ItemsAssumption DEF Headers
<1>4. next' = Popped(next, Node(First, q, 0))
  BY DEF QueueRemove, Node
<1>5. tail' = IF next'[First] = Null THEN Null ELSE tail
  BY DEF QueueRemove
<1>6. CASE q = <<>>
  <2>1. Len(q) = 0 /\ tail = Null
    BY <1>1, <1>6 DEF LastOf
  <2>2. next[First] = Null
    BY <1>1, <2>1 DEF Pair, Chain, Node
  <2>3. next' = next /\ tail' = tail
    BY <1>4, <1>5, <2>1, <2>2 DEF Popped, Node
  <2>4. Held(next', tail', q, l)
    BY <1>1, <2>3 DEF Held
  <2>5. QueueInv' /\ Listed(next, First)' = q /\ Listed(next, Loose)' = l
    BY <2>4, NewLists
  <2> QED
    BY <2>5, SameLine DEF q, l
<1>7. CASE q # <<>>
  <2>1. /\ r \in Seq(Items) /\ Len(r) = Len(q) - 1 /\ 0 \in 0 .. Len(q) /\ 0 < Len(q)
        /\ \A k \in 1 .. Len(q) - 1 : r[k] = IF k <= 0 THEN q[k] ELSE q[k + 1]
    BY <1>2, <1>7, FrontTaken
  <2> HIDE DEF r
  <2>2. Pair(next', First, r, Loose, l)
    BY <1>1, <1>3, <1>4, <2>1, PopKeeps
  <2>3. next'[First] = IF Len(r) = 0 THEN Null ELSE r[1]
    <3>1. Len(r) \in Nat /\ 0 \in 0 .. Len(r) /\ Node(First, r, 0) = First
      BY <1>2, <2>1 DEF Node
    <3> QED
      BY <2>2, <3>1 DEF Pair, Chain
  <2>4. tail' = LastOf(r)
    <3>1. CASE Len(q) = 1
      <4>1. Len(r) = 0 /\ r = <<>>
        BY <2>1, <3>1, EmptySeq
      <4> QED
        BY <1>5, <2>3, <4>1 DEF LastOf
    <3>2. CASE Len(q) # 1
      <4>1. Len(r) # 0 /\ r # <<>> /\ Len(q) - 1 \in 1 .. Len(q) - 1 /\ 1 \in 1 .. Len(r)
        BY <1>2, <2>1, <3>2
      <4>2. r[1] # Null
        BY <2>1, <4>1, ElementOfSeq, ItemsAssumption
      <4>3. LastOf(r) = q[Len(q)]
        BY <1>2, <2>1, <4>1 DEF LastOf
      <4> QED
        BY <1>1, <1>5, <1>7, <2>3, <4>1, <4>2, <4>3 DEF LastOf
    <3> QED
      BY <3>1, <3>2
  <2>5. Held(next', tail', r, l)
    BY <2>2, <2>4 DEF Held
  <2>6. QueueInv' /\ Listed(next, First)' = r /\ Listed(next, Loose)' = l
    BY <2>5, NewLists
  <2>7. Line!Serve
    BY <1>7, <2>6 DEF Line!Serve, r, q
  <2> QED
    BY <2>6, <2>7 DEF LineStep, Line!LineNext, l
<1> QED
  BY <1>6, <1>7

LEMMA DeleteStep ==
  ASSUME ~TailDeletes, QueueInv, NEW item \in Items, QueueDelete(item)
  PROVE  QueueInv' /\ LineStep
<1> DEFINE q == Listed(next, First)
           l == Listed(next, Loose)
<1>1. Pair(next, First, q, Loose, l) /\ tail = LastOf(q)
  BY DEF QueueInv, Held
<1>2. q \in Seq(Items) /\ Len(q) \in Nat /\ DOMAIN q = 1 .. Len(q)
  BY HeldListed DEF QueueInv
<1> HIDE DEF q, l
<1>3. First \in Headers /\ Loose \in Headers /\ First # Loose
  BY ItemsAssumption DEF Headers
<1>4. next' = Deleted(next, First, item) /\ tail' = tail /\ item # tail
  BY DEF QueueDelete
<1>5. \/ Missing(item, q) /\ Deleted(next, First, item) = next
      \/ \E k \in 1 .. Len(q) :
           q[k] = item /\ Deleted(next, First, item) = Popped(next, Node(First, q, k - 1))
  BY <1>1, <1>3, DeletedChain DEF Pair
<1>6. CASE Missing(item, q) /\ Deleted(next, First, item) = next
  <2>1. Held(next', tail', q, l)
    BY <1>1, <1>4, <1>6 DEF Held
  <2>2. QueueInv' /\ Listed(next, First)' = q /\ Listed(next, Loose)' = l
    BY <2>1, NewLists
  <2> QED
    BY <2>2, SameLine DEF q, l
<1>7. ASSUME NEW k \in 1 .. Len(q), q[k] = item,
             Deleted(next, First, item) = Popped(next, Node(First, q, k - 1))
      PROVE  QueueInv' /\ LineStep
  <2> DEFINE r == RemoveAt(q, k)
  <2>1. k - 1 \in 0 .. Len(q) /\ k - 1 < Len(q) /\ Len(q) # 0 /\ q # <<>>
    BY <1>2
  <2>2. k # Len(q)
    BY <1>1, <1>4, <1>7, <2>1 DEF LastOf
  <2>3. /\ r \in Seq(Items) /\ Len(r) = Len(q) - 1
        /\ \A j \in 1 .. Len(q) - 1 : r[j] = IF j <= k - 1 THEN q[j] ELSE q[j + 1]
    BY <1>2, TakenAt
  <2> HIDE DEF r
  <2>4. Pair(next', First, r, Loose, l)
    BY <1>1, <1>3, <1>4, <1>7, <2>1, <2>3, PopKeeps
  <2>5. LastOf(r) = LastOf(q)
    <3>1. /\ Len(r) # 0 /\ r # <<>> /\ Len(q) - 1 \in 1 .. Len(q) - 1
          /\ ~(Len(q) - 1 <= k - 1) /\ (Len(q) - 1) + 1 = Len(q)
      <4>1. Len(q) \in Nat /\ k \in 1 .. Len(q) /\ k # Len(q) /\ Len(r) = Len(q) - 1
        BY <1>2, <2>2, <2>3
      <4>2. /\ Len(r) # 0 /\ Len(q) - 1 \in 1 .. Len(q) - 1
            /\ ~(Len(q) - 1 <= k - 1) /\ (Len(q) - 1) + 1 = Len(q)
        BY ONLY <4>1
      <4>3. r # <<>>
        BY <4>2
      <4> QED
        BY <4>2, <4>3
    <3>2. r[Len(r)] = q[Len(q)]
      BY <2>3, <3>1
    <3> QED
      BY <2>1, <3>1, <3>2 DEF LastOf
  <2>6. Held(next', tail', r, l)
    BY <1>1, <1>4, <2>4, <2>5 DEF Held
  <2>7. QueueInv' /\ Listed(next, First)' = r /\ Listed(next, Loose)' = l
    BY <2>6, NewLists
  <2>8. Line!Leave(item)
    <3>1. r = Line!RemoveAt(q, k)
      BY DEF r, RemoveAt, Line!RemoveAt
    <3> QED
      BY <1>2, <1>7, <2>7, <3>1 DEF Line!Leave, Line!Without, q
  <2> QED
    BY <2>7, <2>8 DEF LineStep, Line!LineNext, l
<1> QED
  BY <1>5, <1>6, <1>7

\* The items that are taken from the queue point nowhere, and so does its head.
LEMMA ResetStep ==
  ASSUME QueueInv, QueueReset
  PROVE  QueueInv' /\ LineStep
<1> DEFINE q == Listed(next, First)
           l == Listed(next, Loose)
           e == <<>>
<1>1. Pair(next, First, q, Loose, l) /\ tail = LastOf(q)
  BY DEF QueueInv, Held
<1>2. /\ q \in Seq(Items) /\ Len(q) \in Nat /\ DOMAIN q = 1 .. Len(q)
  BY HeldListed DEF QueueInv
<1>3. next' = [r \in Refs |-> IF r = First \/ (\E k \in DOMAIN q : q[k] = r) THEN Null ELSE next[r]]
  BY DEF QueueReset, OnList
<1> HIDE DEF q, l
<1>4. First \in Headers /\ Loose \in Headers /\ First # Loose /\ First \notin Items /\ Loose \notin Items
  BY ItemsAssumption DEF Headers
<1>5. /\ next \in [Refs -> Items \union {Null}] /\ Apart(q, l)
      /\ Chain(next, First, q) /\ Chain(next, Loose, l)
  BY <1>1 DEF Pair
<1>6. /\ Len(l) \in Nat
      /\ \A k \in 1 .. Len(l) : l[k] \in Items
      /\ \A k \in 0 .. Len(l) : Node(Loose, l, k) \in Refs
      /\ \A k \in 1 .. Len(q) : q[k] \in Items
  BY <1>4, <1>5, NodesApart
<1>7. Chain(next', Loose, l)
  <2> SUFFICES ASSUME NEW k \in 0 .. Len(l)
               PROVE  next'[Node(Loose, l, k)] = next[Node(Loose, l, k)]
    BY <1>5, ChainStays
  <2>1. Node(Loose, l, k) # First /\ \A j \in DOMAIN q : q[j] # Node(Loose, l, k)
    BY <1>2, <1>4, <1>5, <1>6 DEF Node, Apart
  <2> QED
    BY <1>3, <1>6, <2>1
<1>8. e \in Seq(Items) /\ Len(e) = 0 /\ IsInjective(e)
  <2>1. e \in Seq(Items) /\ Len(e) = 0 /\ DOMAIN e = {}
    OBVIOUS
  <2> QED
    BY <2>1 DEF IsInjective
<1>9. LastOf(e) = Null
  BY DEF LastOf
<1>10. q = e => next[First] = Null
  <2> SUFFICES ASSUME q = e PROVE next[First] = Null
    OBVIOUS
  <2>1. Len(q) = 0
    BY <1>8
  <2> QED
    BY <1>5, <2>1 DEF Chain, Node
<1>11. q # e => next[First] # Null
  <2> SUFFICES ASSUME q # e PROVE next[First] # Null
    OBVIOUS
  <2>1. Len(q) # 0 /\ 0 \in 0 .. Len(q) /\ 1 \in 1 .. Len(q)
    BY <1>2, EmptySeq
  <2>2. next[First] = q[1]
    BY <1>5, <2>1 DEF Chain, Node
  <2> QED
    BY <1>6, <2>1, <2>2, ItemsAssumption
<1>12. tail' = Null
  BY <1>1, <1>10, <1>11 DEF QueueReset, LastOf
<1> HIDE DEF e
<1>13. Chain(next', First, e)
  <2>1. \A k \in 0 .. Len(e) : k = 0 /\ Node(First, e, k) = First
    BY <1>8 DEF Node
  <2>2. next'[First] = Null
    BY <1>3 DEF Refs
  <2> QED
    BY <1>8, <2>1, <2>2 DEF Chain
<1>14. next' \in [Refs -> Items \union {Null}]
  BY <1>3, <1>5
<1>15. Apart(e, l)
  BY <1>8 DEF Apart
<1>16. Held(next', tail', e, l)
  BY <1>7, <1>9, <1>12, <1>13, <1>14, <1>15 DEF Held, Pair
<1>17. QueueInv' /\ Listed(next, First)' = e /\ Listed(next, Loose)' = l
  BY <1>16, NewLists
<1>18. Line!Close
  BY <1>17 DEF Line!Close, e
<1> QED
  BY <1>17, <1>18 DEF LineStep, Line!LineNext, l

LEMMA PushStep ==
  ASSUME QueueInv, NEW item \in Items, ListPush(item)
  PROVE  QueueInv' /\ LineStep
<1> DEFINE q == Listed(next, First)
           l == Listed(next, Loose)
           r == <<item>> \o l
<1>1. Pair(next, First, q, Loose, l) /\ tail = LastOf(q)
  BY DEF QueueInv, Held
<1>2. /\ l \in Seq(Items) /\ Len(l) \in Nat
      /\ Missing(item, q) /\ Missing(item, l) /\ Line!IsFree(item)
  BY HeldListed, UnlistedMissing DEF QueueInv, ListPush
<1> HIDE DEF q, l
<1>3. First \in Headers /\ Loose \in Headers /\ First # Loose
  BY ItemsAssumption DEF Headers
<1>4. next' = Pushed(next, Node(Loose, l, 0), item) /\ tail' = tail
  BY DEF ListPush, Node
<1>5. /\ r \in Seq(Items) /\ Len(r) = Len(l) + 1 /\ 0 \in 0 .. Len(l)
      /\ \A k \in 1 .. Len(l) + 1 :
           r[k] = IF k <= 0 THEN l[k] ELSE IF k = 0 + 1 THEN item ELSE l[k - 1]
  BY <1>2, FrontPut
<1> HIDE DEF r
<1>6. Pair(next, Loose, l, First, q)
  BY <1>1, PairSwapped
<1>7. Pair(next', Loose, r, First, q)
  BY <1>2, <1>3, <1>4, <1>5, <1>6, PushKeeps
<1>8. Held(next', tail', q, r)
  BY <1>1, <1>4, <1>7, PairSwapped DEF Held
<1>9. QueueInv' /\ Listed(next, First)' = q /\ Listed(next, Loose)' = r
  BY <1>8, NewLists
<1>10. Line!Put(item)
  BY <1>2, <1>9 DEF Line!Put, r, l
<1> QED
  BY <1>9, <1>10 DEF LineStep, Line!LineNext, q

LEMMA TakeStep ==
  ASSUME QueueInv, ListPop
  PROVE  QueueInv' /\ LineStep
<1> DEFINE q == Listed(next, First)
           l == Listed(next, Loose)
           r == Tail(l)
<1>1. Pair(next, First, q, Loose, l) /\ tail = LastOf(q)
  BY DEF QueueInv, Held
<1>2. l \in Seq(Items) /\ Len(l) \in Nat
  BY HeldListed DEF QueueInv
<1> HIDE DEF q, l
<1>3. First \in Headers /\ Loose \in Headers /\ First # Loose
  BY ItemsAssumption DEF Headers
<1>4. next' = Popped(next, Node(Loose, l, 0)) /\ tail' = tail
  BY DEF ListPop, Node
<1>5. Pair(next, Loose, l, First, q)
  BY <1>1, PairSwapped
<1>6. CASE l = <<>>
  <2>1. Len(l) = 0
    BY <1>6
  <2>2. next[Loose] = Null
    BY <1>1, <2>1 DEF Pair, Chain, Node
  <2>3. Held(next', tail', q, l)
    BY <1>1, <1>4, <2>2 DEF Held, Popped, Node
  <2>4. QueueInv' /\ Listed(next, First)' = q /\ Listed(next, Loose)' = l
    BY <2>3, NewLists
  <2> QED
    BY <2>4, SameLine DEF q, l
<1>7. CASE l # <<>>
  <2>1. /\ r \in Seq(Items) /\ Len(r) = Len(l) - 1 /\ 0 \in 0 .. Len(l) /\ 0 < Len(l)
        /\ \A k \in 1 .. Len(l) - 1 : r[k] = IF k <= 0 THEN l[k] ELSE l[k + 1]
    BY <1>2, <1>7, FrontTaken
  <2> HIDE DEF r
  <2>2. Pair(next', Loose, r, First, q)
    BY <1>3, <1>4, <1>5, <2>1, PopKeeps
  <2>3. Held(next', tail', q, r)
    BY <1>1, <1>4, <2>2, PairSwapped DEF Held
  <2>4. QueueInv' /\ Listed(next, First)' = q /\ Listed(next, Loose)' = r
    BY <2>3, NewLists
  <2>5. Line!Take
    BY <1>7, <2>4 DEF Line!Take, r, l
  <2> QED
    BY <2>4, <2>5 DEF LineStep, Line!LineNext, q
<1> QED
  BY <1>6, <1>7

LEMMA TakeOutStep ==
  ASSUME QueueInv, NEW item \in Items, ListDelete(item)
  PROVE  QueueInv' /\ LineStep
<1> DEFINE q == Listed(next, First)
           l == Listed(next, Loose)
<1>1. Pair(next, First, q, Loose, l) /\ tail = LastOf(q)
  BY DEF QueueInv, Held
<1>2. l \in Seq(Items) /\ Len(l) \in Nat /\ DOMAIN l = 1 .. Len(l)
  BY HeldListed DEF QueueInv
<1> HIDE DEF q, l
<1>3. First \in Headers /\ Loose \in Headers /\ First # Loose
  BY ItemsAssumption DEF Headers
<1>4. next' = Deleted(next, Loose, item) /\ tail' = tail
  BY DEF ListDelete
<1>5. \/ Missing(item, l) /\ Deleted(next, Loose, item) = next
      \/ \E k \in 1 .. Len(l) :
           l[k] = item /\ Deleted(next, Loose, item) = Popped(next, Node(Loose, l, k - 1))
  BY <1>1, <1>3, DeletedChain DEF Pair
<1>6. CASE Missing(item, l) /\ Deleted(next, Loose, item) = next
  <2>1. Held(next', tail', q, l)
    BY <1>1, <1>4, <1>6 DEF Held
  <2>2. QueueInv' /\ Listed(next, First)' = q /\ Listed(next, Loose)' = l
    BY <2>1, NewLists
  <2> QED
    BY <2>2, SameLine DEF q, l
<1>7. ASSUME NEW k \in 1 .. Len(l), l[k] = item,
             Deleted(next, Loose, item) = Popped(next, Node(Loose, l, k - 1))
      PROVE  QueueInv' /\ LineStep
  <2> DEFINE r == RemoveAt(l, k)
  <2>1. k - 1 \in 0 .. Len(l) /\ k - 1 < Len(l)
    BY <1>2
  <2>2. /\ r \in Seq(Items) /\ Len(r) = Len(l) - 1
        /\ \A j \in 1 .. Len(l) - 1 : r[j] = IF j <= k - 1 THEN l[j] ELSE l[j + 1]
    BY <1>2, TakenAt
  <2> HIDE DEF r
  <2>3. Pair(next, Loose, l, First, q)
    BY <1>1, PairSwapped
  <2>4. Pair(next', Loose, r, First, q)
    BY <1>3, <1>4, <1>7, <2>1, <2>2, <2>3, PopKeeps
  <2>5. Held(next', tail', q, r)
    BY <1>1, <1>4, <2>4, PairSwapped DEF Held
  <2>6. QueueInv' /\ Listed(next, First)' = q /\ Listed(next, Loose)' = r
    BY <2>5, NewLists
  <2>7. Line!TakeOut(item)
    <3>1. r = Line!RemoveAt(l, k)
      BY DEF r, RemoveAt, Line!RemoveAt
    <3> QED
      BY <1>2, <1>7, <2>6, <3>1 DEF Line!TakeOut, Line!Without, l
  <2> QED
    BY <2>6, <2>7 DEF LineStep, Line!LineNext, q
<1> QED
  BY <1>5, <1>6, <1>7

LEMMA ReverseStep ==
  ASSUME QueueInv, ListReverse
  PROVE  QueueInv' /\ LineStep
<1> DEFINE q == Listed(next, First)
           l == Listed(next, Loose)
           r == Reverse(l)
           Position(x) == CHOOSE k \in DOMAIN l : l[k] = x
<1>1. Pair(next, First, q, Loose, l) /\ tail = LastOf(q)
  BY DEF QueueInv, Held
<1>2. /\ q \in Seq(Items) /\ Len(q) \in Nat
      /\ l \in Seq(Items) /\ Len(l) \in Nat /\ DOMAIN l = 1 .. Len(l)
  BY HeldListed DEF QueueInv
<1>3. next' = [x \in Refs |->
                 IF x = Loose THEN (IF l = <<>> THEN Null ELSE l[Len(l)])
                 ELSE IF ~(\E k \in DOMAIN l : l[k] = x) THEN next[x]
                 ELSE IF Position(x) = 1 THEN Null ELSE l[Position(x) - 1]]
  BY DEF ListReverse, OnList
<1> HIDE DEF q, l
<1>4. First \in Headers /\ Loose \in Headers /\ First # Loose /\ First \notin Items /\ Loose \notin Items
  BY ItemsAssumption DEF Headers
<1>5. /\ next \in [Refs -> Items \union {Null}] /\ Apart(q, l)
      /\ Chain(next, First, q) /\ Chain(next, Loose, l)
  BY <1>1 DEF Pair
<1>6. /\ \A k \in 1 .. Len(l) : l[k] \in Items /\ l[k] \in Refs
      /\ \A j, k \in 1 .. Len(l) : l[j] = l[k] => j = k
      /\ \A k \in 1 .. Len(q) : q[k] \in Items
      /\ \A k \in 0 .. Len(q) : Node(First, q, k) \in Refs
  <2>1. \A j, k \in 1 .. Len(l) : l[j] = l[k] => j = k
    BY <1>2, <1>5 DEF Chain, IsInjective
  <2> QED
    BY <1>4, <1>5, <2>1, NodesApart DEF Refs
<1>7. \A k \in 1 .. Len(l) : Position(l[k]) = k
  <2> SUFFICES ASSUME NEW k \in 1 .. Len(l) PROVE Position(l[k]) = k
    OBVIOUS
  <2>1. Position(l[k]) \in DOMAIN l /\ l[Position(l[k])] = l[k]
    BY <1>2
  <2> HIDE DEF Position
  <2> QED
    BY <1>2, <1>6, <2>1
<1>8. \A k \in 1 .. Len(l) : next'[l[k]] = IF k = 1 THEN Null ELSE l[k - 1]
  <2> SUFFICES ASSUME NEW k \in 1 .. Len(l)
               PROVE  next'[l[k]] = IF k = 1 THEN Null ELSE l[k - 1]
    OBVIOUS
  <2>1. l[k] # Loose /\ (\E j \in DOMAIN l : l[j] = l[k]) /\ l[k] \in Refs
    BY <1>2, <1>4, <1>6
  <2>2. Position(l[k]) = k
    BY <1>7
  <2> HIDE DEF Position
  <2> QED
    BY <1>3, <2>1, <2>2
<1>9. next'[Loose] = IF Len(l) = 0 THEN Null ELSE l[Len(l)]
  <2>1. Len(l) = 0 <=> l = <<>>
    BY <1>2, EmptySeq
  <2> HIDE DEF Position
  <2> QED
    BY <1>3, <2>1 DEF Refs
<1>10. \A x \in Refs : x # Loose /\ ~(\E k \in DOMAIN l : l[k] = x) => next'[x] = next[x]
  <2> HIDE DEF Position
  <2> QED
    BY <1>3
<1>11. next' \in [Refs -> Items \union {Null}]
  <2>1. \A x \in Refs : next'[x] \in Items \union {Null}
    <3> SUFFICES ASSUME NEW x \in Refs PROVE next'[x] \in Items \union {Null}
      OBVIOUS
    <3>1. CASE x = Loose
      <4>1. Len(l) # 0 => Len(l) \in 1 .. Len(l)
        BY <1>2
      <4> QED
        BY <1>6, <1>9, <3>1, <4>1
    <3>2. CASE x # Loose /\ ~(\E k \in DOMAIN l : l[k] = x)
      BY <1>5, <1>10, <3>2
    <3>3. CASE \E k \in DOMAIN l : l[k] = x
      <4>1. PICK k \in 1 .. Len(l) : l[k] = x
        BY <1>2, <3>3
      <4>2. k # 1 => k - 1 \in 1 .. Len(l)
        BY <1>2
      <4> QED
        BY <1>6, <1>8, <4>1, <4>2
    <3> QED
      BY <3>1, <3>2, <3>3
  <2>2. next' = [x \in Refs |-> next'[x]]
    BY <1>3
  <2> QED
    BY <2>1, <2>2
<1> HIDE DEF Position
<1>12. /\ r \in Seq(Items) /\ Len(r) = Len(l) /\ DOMAIN r = 1 .. Len(l)
       /\ \A k \in 1 .. Len(l) : r[k] = l[Len(l) - k + 1]
  <2>1. r = [k \in 1 .. Len(l) |-> l[Len(l) - k + 1]]
    BY DEF Reverse
  <2>2. \A k \in 1 .. Len(l) : Len(l) - k + 1 \in 1 .. Len(l)
    BY <1>2
  <2>3. r \in [1 .. Len(l) -> Items]
    BY <1>6, <2>1, <2>2
  <2>4. r \in Seq(Items)
    BY <1>2, <2>3, SeqDef
  <2>5. DOMAIN r = 1 .. Len(l) /\ Len(r) \in Nat /\ DOMAIN r = 1 .. Len(r)
    BY <2>3, <2>4, LenProperties
  <2>6. Len(r) = Len(l)
    BY <1>2, <2>5
  <2> QED
    BY <2>1, <2>4, <2>5, <2>6
<1> HIDE DEF r
<1>13. IsInjective(r)
  <2> SUFFICES ASSUME NEW j \in 1 .. Len(l), NEW k \in 1 .. Len(l), r[j] = r[k]
               PROVE  j = k
    BY <1>12 DEF IsInjective
  <2>1. Len(l) - j + 1 \in 1 .. Len(l) /\ Len(l) - k + 1 \in 1 .. Len(l)
    BY <1>2
  <2>2. Len(l) - j + 1 = Len(l) - k + 1
    BY <1>6, <1>12, <2>1
  <2> QED
    BY <1>2, <2>2
<1>14. ASSUME NEW k \in 0 .. Len(r)
       PROVE  next'[Node(Loose, r, k)] = IF k = Len(r) THEN Null ELSE r[k + 1]
  <2>1. CASE k = 0
    <3>1. Len(l) # 0 => 1 \in 1 .. Len(l) /\ Len(l) - 1 + 1 = Len(l)
      BY <1>2
    <3> QED
      BY <1>9, <1>12, <2>1, <3>1 DEF Node
  <2>2. CASE k # 0
    <3> DEFINE j == Len(l) - k + 1
    <3>1. k \in 1 .. Len(l) /\ j \in 1 .. Len(l) /\ (j = 1 <=> k = Len(r))
      <4>1. l \in Seq(Items) /\ r \in Seq(Items) /\ Len(l) \in Nat /\ Len(r) = Len(l) /\ k \in 0 .. Len(l) /\ k # 0
        BY <1>2, <1>12, <2>2
      <4> QED
        BY ONLY <4>1
    <3>2. Node(Loose, r, k) = l[j]
      BY <1>12, <2>2, <3>1 DEF Node
    <3>3. k # Len(r) => k + 1 \in 1 .. Len(l) /\ Len(l) - (k + 1) + 1 = j - 1
      <4>1. l \in Seq(Items) /\ r \in Seq(Items) /\ Len(l) \in Nat /\ Len(r) = Len(l) /\ k \in 1 .. Len(l) /\ j = Len(l) - k + 1
        BY <1>2, <1>12, <3>1
      <4> HIDE DEF j
      <4> QED
        BY ONLY <4>1
    <3>4. k # Len(r) => r[k + 1] = l[j - 1]
      BY <1>12, <3>3
    <3> HIDE DEF j
    <3> QED
      BY <1>8, <3>1, <3>2, <3>4
  <2> QED
    BY <2>1, <2>2
<1>15. Chain(next', Loose, r)
  BY <1>12, <1>13, <1>14 DEF Chain
<1>16. Chain(next', First, q)
  <2> SUFFICES ASSUME NEW k \in 0 .. Len(q)
               PROVE  next'[Node(First, q, k)] = next[Node(First, q, k)]
    BY <1>5, ChainStays
  <2>1. Node(First, q, k) # Loose /\ \A j \in DOMAIN l : l[j] # Node(First, q, k)
    BY <1>2, <1>4, <1>5, <1>6 DEF Node, Apart
  <2> QED
    BY <1>6, <1>10, <2>1
<1>17. Apart(q, r)
  <2> SUFFICES ASSUME NEW j \in 1 .. Len(q), NEW k \in 1 .. Len(l) PROVE q[j] # r[k]
    BY <1>12 DEF Apart
  <2>1. Len(l) - k + 1 \in 1 .. Len(l)
    BY <1>2
  <2> QED
    BY <1>5, <1>12, <2>1 DEF Apart
<1>18. Held(next', tail', q, r)
  BY <1>1, <1>11, <1>15, <1>16, <1>17 DEF Held, Pair, ListReverse
<1>19. QueueInv' /\ Listed(next, First)' = q /\ Listed(next, Loose)' = r
  BY <1>18, NewLists
<1>20. Line!TurnOver
  <2>1. Line!Reverse(l) = r
    BY DEF r, Reverse, Line!Reverse
  <2> QED
    BY <1>19, <2>1 DEF Line!TurnOver, l
<1> QED
  BY <1>19, <1>20 DEF LineStep, Line!LineNext, q

LEMMA StepQueueInv == ~TailDeletes /\ QueueInv /\ [QueueNext]_queueVars => QueueInv' /\ LineStep
<1> SUFFICES ASSUME ~TailDeletes, QueueInv, [QueueNext]_queueVars
             PROVE  QueueInv' /\ LineStep
  OBVIOUS
<1>1. ASSUME NEW item \in Items, QueueAppend(item) PROVE QueueInv' /\ LineStep
  BY <1>1, AppendStep
<1>2. ASSUME NEW item \in Items, QueuePrepend(item) PROVE QueueInv' /\ LineStep
  BY <1>2, PrependStep
<1>3. ASSUME NEW item \in Items, QueueDelete(item) PROVE QueueInv' /\ LineStep
  BY <1>3, DeleteStep
<1>4. ASSUME NEW item \in Items, ListPush(item) PROVE QueueInv' /\ LineStep
  BY <1>4, PushStep
<1>5. ASSUME NEW item \in Items, ListDelete(item) PROVE QueueInv' /\ LineStep
  BY <1>5, TakeOutStep
<1>6. CASE UNCHANGED queueVars
  <2>1. next' = next /\ tail' = tail
    BY <1>6 DEF queueVars
  <2> QED
    BY <2>1, SameLine DEF QueueInv
<1> QED
  BY <1>1, <1>2, <1>3, <1>4, <1>5, <1>6, RemoveStep, ResetStep, TakeStep, ReverseStep DEF QueueNext

(* The links are the waiting line: whatever calls are made, in whatever    *)
(* order, mu_queue and mu_list give the items out as they were put in, each *)
(* is in one place, and none is lost, for any number of items, as long as  *)
(* the last item does not leave the queue by mu_queue_delete.              *)
THEOREM QueueImplementsLine ==
  ASSUME ~TailDeletes
  PROVE  QueueSpec => ImplementsLine
<1>1. QueueInit => QueueInv /\ Line!LineInit
  BY InitQueueInv
<1>2. QueueInv /\ [QueueNext]_queueVars => QueueInv' /\ [Line!LineNext]_<<Listed(next, First), Listed(next, Loose)>>
  BY StepQueueInv DEF LineStep
<1> QED
  BY <1>1, <1>2, PTL DEF QueueSpec, ImplementsLine, Line!LineSpec

-------------------------------------------------------------------------------
(* Strings.  What mu_str relies on: a string and the zero that ends it are *)
(* within its memory, and the memory is not as long as MU_STR_END.         *)

Memory == Seq(0 .. 255)

Inside(s) ==
  /\ s \in [bytes : Memory, at : Nat, len : Nat]
  /\ s.at + s.len < Len(s.bytes) /\ Len(s.bytes) <= End

LEMMA Least ==
  ASSUME NEW S \in SUBSET Nat, S # {}
  PROVE  Min(S) \in S /\ \A x \in S : Min(S) <= x
<1> DEFINE Lowest(n) == \A x \in S : n <= x
<1>1. IsWellFoundedOn(Less, Nat)
  BY NatLessThanWellFounded, Zenon DEF OpToRel, Less
<1>2. PICK n \in S : \A x \in S : ~(<<x, n>> \in Less)
  BY <1>1, WFMin, Zenon
<1>3. Lowest(n)
  <2> SUFFICES ASSUME NEW x \in S PROVE n <= x
    OBVIOUS
  <2>1. x \in Nat /\ n \in Nat /\ ~(<<x, n>> \in Less)
    BY <1>2
  <2> QED
    BY <2>1 DEF Less
<1>4. Min(S) = CHOOSE m \in S : Lowest(m)
  BY DEF Min
<1> HIDE DEF Lowest
<1>5. Min(S) \in S /\ Lowest(Min(S))
  BY <1>3, <1>4
<1> QED
  BY <1>5 DEF Lowest

LEMMA LeastIs ==
  ASSUME NEW S \in SUBSET Nat, NEW n \in S, \A x \in S : n <= x
  PROVE  Min(S) = n
<1>1. Min(S) \in S /\ Min(S) <= n /\ n <= Min(S)
  BY Least
<1>2. Min(S) \in Nat /\ n \in Nat
  BY <1>1
<1> QED
  BY <1>1, <1>2

LEMMA Greatest ==
  ASSUME NEW n \in Int, NEW S \in SUBSET (0 .. n), S # {}
  PROVE  Max(S) \in S /\ \A x \in S : x <= Max(S)
<1> DEFINE Final(m) == \A x \in S : m >= x
           T == {n - x : x \in S}
<1>1. T \in SUBSET Nat /\ T # {}
  <2>1. \A x \in S : x \in Nat /\ n - x \in Nat
    OBVIOUS
  <2> QED
    BY <2>1
<1>2. PICK m \in S : Min(T) = n - m
  BY <1>1, Least
<1>3. \A x \in S : n - m <= n - x
  BY <1>1, <1>2, Least
<1>4. Final(m)
  BY <1>3
<1>5. Max(S) = CHOOSE k \in S : Final(k)
  BY DEF Max
<1> HIDE DEF Final
<1>6. Max(S) \in S /\ Final(Max(S))
  BY <1>4, <1>5
<1> QED
  BY <1>6 DEF Final

\* An index within a string of that length, and where a slice begins and ends.
Capped(i, len) == IF i < 0 THEN len + i ELSE IF i <= len THEN i ELSE len

Until(start, end, len) ==
  IF Capped(end, len) <= Capped(start, len) THEN Capped(start, len) ELSE Capped(end, len)

LEMMA LimitedIs ==
  ASSUME NEW i \in Int, NEW len \in Nat
  PROVE  Limited(i, len) = Capped(i, len)
<1>1. CASE i < 0
  BY <1>1 DEF Limited, Capped
<1>2. CASE i >= 0
  <2>1. Min({i, len}) = IF i <= len THEN i ELSE len
    BY <1>2, LeastIs
  <2> QED
    BY <1>2, <2>1 DEF Limited, Capped
<1> QED
  BY <1>1, <1>2

LEMMA SliceIs ==
  ASSUME NEW s, Inside(s), NEW start \in Int, NEW end \in Int, start >= -s.len
  PROVE  /\ Slice(s, start, end).bytes = s.bytes
         /\ Slice(s, start, end).at = s.at + Capped(start, s.len)
         /\ Slice(s, start, end).len = Until(start, end, s.len) - Capped(start, s.len)
         /\ Inside(Slice(s, start, end))
<1> DEFINE from == Capped(start, s.len)
           last == Capped(end, s.len)
           to == IF last <= from THEN from ELSE last
<1>1. /\ s.bytes \in Memory /\ s.at \in Nat /\ s.len \in Nat
      /\ s.at + s.len < Len(s.bytes) /\ Len(s.bytes) <= End
  BY DEF Inside
<1>2. from \in 0 .. s.len /\ last \in Int /\ last <= s.len
  BY <1>1 DEF Capped
<1>3. to \in from .. s.len
  BY <1>1, <1>2
<1>4. Max({from, last}) = to
  <2> DEFINE Final(m) == \A x \in {from, last} : m >= x
  <2>1. to \in {from, last} /\ Final(to) /\ \A m \in {from, last} : Final(m) => m = to
    BY <1>2
  <2>2. Max({from, last}) = CHOOSE m \in {from, last} : Final(m)
    BY DEF Max
  <2> HIDE DEF Final, to, from, last
  <2> QED
    BY <2>1, <2>2
<1>5. Slice(s, start, end) = [bytes |-> s.bytes, at |-> s.at + from, len |-> to - from]
  <2>1. Limited(start, s.len) = from /\ Limited(end, s.len) = last
    BY <1>1, LimitedIs
  <2> HIDE DEF from, last, to
  <2> QED
    BY <1>4, <2>1 DEF Slice, StrInit
<1> HIDE DEF from, to, last
<1>6. Inside(Slice(s, start, end))
  BY <1>1, <1>2, <1>3, <1>5 DEF Inside
<1> QED
  BY <1>5, <1>6 DEF from, to, last, Until

LEMMA CstrInside ==
  ASSUME NEW text \in Seq(1 .. 255), Len(text) < End
  PROVE  /\ Inside(StrInitCstr(text))
         /\ StrInitCstr(text).at = 0 /\ StrInitCstr(text).len = Len(text)
         /\ \A i \in 0 .. Len(text) - 1 : ByteAt(StrInitCstr(text), i) = text[i + 1]
         /\ StrInitCstr(text).bytes[Len(text) + 1] = 0
<1> DEFINE bytes == Append(text, 0)
<1>1. text \in Memory /\ Len(text) \in Nat
  <2>1. 1 .. 255 \subseteq 0 .. 255
    OBVIOUS
  <2> QED
    BY <2>1, SeqMonotonic, LenProperties DEF Memory
<1>2. /\ bytes \in Memory /\ Len(bytes) = Len(text) + 1
      /\ \A i \in 1 .. Len(text) : bytes[i] = text[i]
      /\ bytes[Len(text) + 1] = 0
  BY <1>1, AppendProperties DEF Memory
<1> HIDE DEF bytes
<1>3. StrInitCstr(text) = [bytes |-> bytes, at |-> 0, len |-> Len(text)]
  BY DEF StrInitCstr, StrInit, bytes
<1>4. Inside(StrInitCstr(text))
  BY <1>1, <1>2, <1>3 DEF Inside, End
<1>5. ASSUME NEW i \in 0 .. Len(text) - 1 PROVE ByteAt(StrInitCstr(text), i) = text[i + 1]
  <2>1. i + 1 \in 1 .. Len(text) /\ 0 + i + 1 = i + 1
    BY <1>1
  <2> QED
    BY <1>2, <1>3, <2>1 DEF ByteAt
<1> QED
  BY <1>2, <1>3, <1>4, <1>5
-------------------------------------------------------------------------------
(* Searches.                                                               *)

Hits(h, n) == {i \in 0 .. h.len - n.len : Occurs(n, h, i)}

LEMMA FindsIndex ==
  ASSUME NEW h, Inside(h), NEW n, n.len \in Nat, NEW skip, NEW i \in Find(h, n, skip)
  PROVE  i \in Nat
<1> DEFINE beyond == n.len > h.len
           last == IF beyond THEN Len(h.bytes) - h.at - n.len ELSE h.len - n.len
           hits == {k \in 0 .. last : Occurs(n, h, k)}
<1>1. hits \in SUBSET Nat
  OBVIOUS
<1>2. hits # {} => SkipTo(Min(hits), n, skip) \in Nat
  <2> HIDE DEF hits
  <2>1. hits # {} => Min(hits) \in Nat
    BY <1>1, Least
  <2> QED
    BY <2>1 DEF SkipTo
<1>3. i \in (IF n.len = 0 THEN {0}
             ELSE IF hits # {} THEN {SkipTo(Min(hits), n, skip)}
             ELSE IF beyond THEN {NotFound, End + 1}
             ELSE {NotFound})
  BY DEF Find
<1> HIDE DEF hits, beyond
<1> QED
  BY <1>2, <1>3 DEF NotFound, End

LEMMA FindIs ==
  ASSUME NEW h, h.len \in Nat, NEW n, n.len \in Nat, n.len <= h.len, NEW skip
  PROVE  Find(h, n, skip) = IF Hits(h, n) = {} THEN {NotFound}
                            ELSE {SkipTo(Min(Hits(h, n)), n, skip)}
<1>1. CASE n.len = 0
  <2>1. 0 \in Hits(h, n) /\ \A k \in Hits(h, n) : 0 <= k
    BY <1>1 DEF Hits, Occurs
  <2>2. Min(Hits(h, n)) = 0
    <3>1. Hits(h, n) \in SUBSET Nat
      BY DEF Hits
    <3> QED
      BY <2>1, <3>1, LeastIs
  <2> QED
    BY <1>1, <2>1, <2>2 DEF Find, SkipTo
<1>2. CASE n.len # 0
  <2> DEFINE beyond == n.len > h.len
             last == IF beyond THEN Len(h.bytes) - h.at - n.len ELSE h.len - n.len
             hits == {i \in 0 .. last : Occurs(n, h, i)}
  <2>1. ~beyond
    OBVIOUS
  <2>2. hits = Hits(h, n)
    BY <2>1 DEF Hits
  <2>3. Find(h, n, skip) = IF n.len = 0 THEN {0}
                           ELSE IF hits # {} THEN {SkipTo(Min(hits), n, skip)}
                           ELSE IF beyond THEN {NotFound, End + 1}
                           ELSE {NotFound}
    BY DEF Find
  <2> HIDE DEF hits, beyond
  <2> QED
    BY <1>2, <2>1, <2>2, <2>3
<1> QED
  BY <1>1, <1>2

LEMMA RFindIs ==
  ASSUME NEW h, h.len \in Nat, NEW n, n.len \in Nat, n.len <= h.len, NEW skip
  PROVE  RFind(h, n, skip) = IF Hits(h, n) = {} THEN NotFound
                             ELSE SkipTo(Max(Hits(h, n)), n, skip)
<1>1. CASE n.len = 0
  <2>1. h.len \in Hits(h, n) /\ Hits(h, n) \in SUBSET (0 .. h.len)
    BY <1>1 DEF Hits, Occurs
  <2>2. Max(Hits(h, n)) = h.len
    <3>1. Max(Hits(h, n)) \in Hits(h, n) /\ h.len <= Max(Hits(h, n))
      <4>1. h.len \in Int /\ Hits(h, n) # {}
        BY <2>1
      <4> QED
        BY <2>1, <4>1, Greatest
    <3>2. Max(Hits(h, n)) \in 0 .. h.len
      BY <2>1, <3>1
    <3> QED
      BY <3>1, <3>2
  <2> QED
    BY <1>1, <2>1, <2>2 DEF RFind, SkipTo
<1>2. CASE n.len # 0
  BY <1>2 DEF RFind, Hits
<1> QED
  BY <1>1, <1>2

LEMMA MatchesIndex ==
  ASSUME NEW s, s.len \in Nat, NEW predicate, NEW breakIf
  PROVE  Match(s, predicate, breakIf) \in Nat /\ RMatch(s, predicate, breakIf) \in Nat
<1> DEFINE hits == Matching(s, predicate, breakIf)
<1>1. hits \in SUBSET (0 .. s.len - 1) /\ hits \in SUBSET Nat
  BY DEF Matching
<1> HIDE DEF hits
<1>2. hits # {} => Min(hits) \in Nat /\ Max(hits) \in Nat
  <2>1. s.len - 1 \in Int
    OBVIOUS
  <2> QED
    BY <1>1, <2>1, Least, Greatest
<1> QED
  BY <1>2 DEF Match, RMatch, NotFound, End, hits

LEMMA TrimInside ==
  ASSUME NEW s, Inside(s), NEW predicate
  PROVE  Inside(LTrim(s, predicate)) /\ Inside(RTrim(s, predicate))
<1>1. s.len \in Nat /\ 0 \in Int /\ 0 >= -s.len /\ End \in Int
  BY DEF Inside, End
<1>2. ASSUME NEW i \in Nat PROVE Inside(Slice(s, i, End)) /\ Inside(Slice(s, 0, i))
  <2>1. i \in Int /\ i >= -s.len
    BY <1>1
  <2> QED
    BY <1>1, <2>1, SliceIs
<1> QED
  BY <1>1, <1>2, MatchesIndex DEF LTrim, RTrim
-------------------------------------------------------------------------------
StringsInside == Inside(str) /\ Inside(value) /\ Inside(body)

LEMMA InitInside == StrClientsInit => StringsInside
<1> SUFFICES ASSUME StrClientsInit PROVE StringsInside
  OBVIOUS
<1>1. \A text \in Texts \cup Messages : Inside(StrInitCstr(text))
  BY StringsAssumption, CstrInside
<1>2. Inside(Empty)
  <2>1. <<>> \in Seq(1 .. 255) /\ Len(<<>>) < End
    BY DEF End
  <2> QED
    BY <2>1, CstrInside DEF Empty
<1> QED
  BY <1>1, <1>2 DEF StrClientsInit, StringsInside

LEMMA NeedleLength ==
  /\ Len(Key) \in Nat /\ StrInitCstr(Key).len = Len(Key)
  /\ Len(Eol) \in Nat /\ StrInitCstr(Eol).len = Len(Eol)
  /\ Eol \o Eol \in Seq(1 .. 255) /\ Len(Eol \o Eol) \in Nat
  /\ StrInitCstr(Eol \o Eol).len = Len(Eol \o Eol)
<1>1. Key \in Seq(1 .. 255) /\ Eol \in Seq(1 .. 255)
  BY StringsAssumption
<1>2. Eol \o Eol \in Seq(1 .. 255)
  BY <1>1, ConcatProperties
<1> QED
  BY <1>1, <1>2, LenProperties DEF StrInitCstr, StrInit

LEMMA StepInside == StringsInside /\ [StrClientsNext]_strVars => StringsInside'
<1> SUFFICES ASSUME StringsInside, [StrClientsNext]_strVars PROVE StringsInside'
  OBVIOUS
<1>1. ASSUME KeepCopy, UNCHANGED body PROVE StringsInside'
  <2>1. Copy(str) = str
    BY DEF Copy, StrInit, Inside, StringsInside
  <2> QED
    BY <1>1, <2>1 DEF KeepCopy, StringsInside
<1>2. ASSUME Cut, UNCHANGED body PROVE StringsInside'
  <2>1. Indices \subseteq Int
    BY StringsAssumption
  <2> QED
    BY <1>2, <2>1, SliceIs DEF Cut, StringsInside
<1>3. ASSUME TrimIt, UNCHANGED body PROVE StringsInside'
  BY <1>3, TrimInside DEF TrimIt, Trim, StringsInside
<1>4. ASSUME NEW s, Inside(s), NEW n, n.len \in Nat, NEW skip, NEW i \in Find(s, n, skip)
      PROVE  Inside(Slice(s, i, End)) /\ Inside(Slice(s, 0, i))
  <2>1. i \in Nat
    BY <1>4, FindsIndex
  <2>2. s.len \in Nat /\ i \in Int /\ i >= -s.len /\ 0 >= -s.len /\ End \in Int
    BY <1>4, <2>1 DEF Inside, End
  <2> QED
    BY <1>4, <2>2, SliceIs
<1>5. ASSUME MessageStep PROVE StringsInside'
  <2>1. Inside(str) /\ Inside(value) /\ Inside(body) /\ UNCHANGED str
    BY <1>5 DEF MessageStep, StringsInside
  <2>2. CASE FindKey
    <3>1. \E i \in Find(str, StrInitCstr(Key), TRUE) : value' = Slice(str, i, End)
      BY <2>2 DEF FindKey
    <3>2. Inside(value')
      BY <1>4, <2>1, <3>1, NeedleLength
    <3> QED
      BY <2>1, <2>2, <3>2 DEF FindKey, StringsInside
  <2>3. CASE FindEol
    <3>1. \E i \in Find(value, StrInitCstr(Eol), FALSE) : value' = Slice(value, 0, i)
      BY <2>3 DEF FindEol
    <3>2. Inside(value')
      BY <1>4, <2>1, <3>1, NeedleLength
    <3> QED
      BY <2>1, <2>3, <3>2 DEF FindEol, StringsInside
  <2>4. CASE FindBody
    <3>1. \E i \in Find(str, StrInitCstr(Eol \o Eol), TRUE) : body' = Slice(str, i, End)
      BY <2>4 DEF FindBody
    <3>2. Inside(body')
      BY <1>4, <2>1, <3>1, NeedleLength
    <3> QED
      BY <2>1, <2>4, <3>2 DEF FindBody, StringsInside
  <2> QED
    BY <1>5, <2>2, <2>3, <2>4 DEF MessageStep
<1>6. CASE UNCHANGED strings
  BY <1>6 DEF strings, StringsInside
<1> QED
  BY <1>1, <1>2, <1>3, <1>5, <1>6 DEF StrClientsNext, CutStep, ParseUrl, strVars

(* Whatever it is cut with, a string lies within the memory it was made    *)
(* from: for every text, index and set of bytes to trim, and wherever a    *)
(* search that misses points.                                              *)
THEOREM StringsStayInside == StrClientsSpec => []SlicesInside
<1>1. StringsInside => SlicesInside
  BY DEF StringsInside, Inside, SlicesInside
<1> QED
  BY <1>1, InitInside, StepInside, PTL DEF StrClientsSpec
-------------------------------------------------------------------------------
LEMMA PartEqual ==
  ASSUME NEW s, Inside(s), NEW n, n.len \in Nat, NEW i \in Hits(s, n)
  PROVE  /\ Compare(Slice(s, i, i + n.len), n) = 0
         /\ HasSuffix(Slice(s, 0, i + n.len), n)
<1>1. /\ s.len \in Nat /\ s.at \in Nat /\ i \in Nat /\ i + n.len <= s.len
      /\ \A j \in 0 .. n.len - 1 : ByteAt(s, i + j) = ByteAt(n, j)
  BY DEF Hits, Occurs, Inside
<1>2. /\ i \in Int /\ i + n.len \in Int /\ 0 \in Int /\ i >= -s.len /\ 0 >= -s.len
      /\ Capped(i, s.len) = i /\ Until(i, i + n.len, s.len) = i + n.len
      /\ Capped(0, s.len) = 0 /\ Until(0, i + n.len, s.len) = i + n.len
  BY <1>1 DEF Capped, Until
<1> DEFINE part == Slice(s, i, i + n.len)
           start == Slice(s, 0, i + n.len)
<1>3. part.bytes = s.bytes /\ part.at = s.at + i /\ part.len = n.len
  <2>1. part.bytes = s.bytes /\ part.at = s.at + i /\ part.len = (i + n.len) - i
    BY <1>2, SliceIs
  <2> HIDE DEF part
  <2> QED
    BY <1>1, <2>1
<1>4. start.bytes = s.bytes /\ start.at = s.at /\ start.len = i + n.len
  <2>1. start.bytes = s.bytes /\ start.at = s.at + 0 /\ start.len = (i + n.len) - 0
    BY <1>2, SliceIs
  <2> HIDE DEF start
  <2> QED
    BY <1>1, <2>1
<1> HIDE DEF part, start
<1>5. Compare(part, n) = 0
  <2>1. Min({part.len, n.len}) = n.len
    BY <1>3, LeastIs
  <2>2. ASSUME NEW j \in 0 .. n.len - 1 PROVE ByteAt(part, j) = ByteAt(n, j)
    <3>1. part.at + j + 1 = s.at + (i + j) + 1
      BY <1>1, <1>3
    <3> QED
      BY <1>1, <1>3, <3>1 DEF ByteAt
  <2> DEFINE differ == {j \in 0 .. n.len - 1 : ByteAt(part, j) # ByteAt(n, j)}
  <2>3. differ = {}
    BY <2>2
  <2>4. Compare(part, n) = IF differ = {} THEN part.len - n.len
                           ELSE ByteAt(part, Min(differ)) - ByteAt(n, Min(differ))
    BY <2>1 DEF Compare
  <2> HIDE DEF differ
  <2> QED
    BY <1>3, <2>3, <2>4
<1>6. HasSuffix(start, n)
  <2>1. ASSUME NEW j \in 1 .. n.len
        PROVE  ByteAt(start, start.len - j) = ByteAt(n, n.len - j)
    <3>1. n.len - j \in 0 .. n.len - 1 /\ start.at + (start.len - j) + 1 = s.at + (i + (n.len - j)) + 1
      BY <1>1, <1>4
    <3> QED
      BY <1>1, <1>4, <3>1 DEF ByteAt
  <2> QED
    BY <1>1, <1>4, <2>1 DEF HasSuffix
<1> QED
  BY <1>5, <1>6 DEF part, start

LEMMA PrefixHits ==
  ASSUME NEW s, Inside(s), NEW n, n.len \in Nat, NEW k \in 0 .. s.len,
         HasPrefix(Slice(s, k, End), n)
  PROVE  k \in Hits(s, n)
<1> DEFINE rest == Slice(s, k, End)
<1>1. s.len \in Nat /\ s.at \in Nat /\ s.len <= End /\ End \in Nat
  BY DEF Inside, End
<1>2. /\ k \in Int /\ End \in Int /\ k >= -s.len
      /\ Capped(k, s.len) = k /\ Until(k, End, s.len) = s.len
  BY <1>1 DEF Capped, Until
<1>3. rest.bytes = s.bytes /\ rest.at = s.at + k /\ rest.len = s.len - k
  BY <1>2, SliceIs
<1> HIDE DEF rest
<1>4. n.len <= rest.len /\ \A j \in 0 .. n.len - 1 : ByteAt(rest, j) = ByteAt(n, j)
  BY DEF HasPrefix, rest
<1>5. ASSUME NEW j \in 0 .. n.len - 1 PROVE ByteAt(s, k + j) = ByteAt(n, j)
  <2>1. rest.at + j + 1 = s.at + (k + j) + 1
    BY <1>1, <1>3
  <2> QED
    BY <1>3, <1>4, <2>1 DEF ByteAt
<1>6. k \in 0 .. s.len - n.len
  BY <1>1, <1>3, <1>4
<1> QED
  BY <1>5, <1>6 DEF Hits, Occurs

LEMMA SearchesOf ==
  ASSUME StringsInside
  PROVE  SearchesAgree
<1> SUFFICES ASSUME NEW text \in Needles,
                    StrInitCstr(text).len <= str.len
             PROVE  LET needle == StrInitCstr(text)
                        Part(i) == Slice(str, i, i + needle.len)
                        i == CHOOSE found \in Find(str, needle, FALSE) : TRUE
                        j == RFind(str, needle, FALSE)
                    IN  /\ i = NotFound <=> j = NotFound
                        /\ i # NotFound =>
                             /\ i <= j
                             /\ Compare(Part(i), needle) = 0 /\ Compare(Part(j), needle) = 0
                             /\ HasSuffix(Slice(str, 0, RFind(str, needle, TRUE)), needle)
                             /\ Find(str, needle, TRUE) = {i + needle.len}
                        /\ \A k \in 0 .. str.len :
                             HasPrefix(Slice(str, k, End), needle) => i <= k /\ k <= j
  BY DEF SearchesAgree
<1> DEFINE n == StrInitCstr(text)
           hits == Hits(str, n)
           i == CHOOSE found \in Find(str, n, FALSE) : TRUE
           j == RFind(str, n, FALSE)
<1>1. n.len \in Nat
  BY StringsAssumption, LenProperties DEF StrInitCstr, StrInit
<1>2. Inside(str) /\ str.len \in Nat /\ str.len < End /\ NotFound = End
  BY DEF StringsInside, Inside, NotFound, End
<1>3. n.len <= str.len
  OBVIOUS
<1> HIDE DEF n
<1>4. hits \in SUBSET (0 .. str.len - n.len) /\ hits \in SUBSET Nat /\ str.len - n.len \in Int
  BY <1>1, <1>2 DEF Hits
<1> HIDE DEF hits
<1>5. CASE hits = {}
  <2>1. Find(str, n, FALSE) = {NotFound} /\ j = NotFound
    BY <1>1, <1>2, <1>3, <1>5, FindIs, RFindIs DEF hits
  <2>2. i = NotFound
    BY <2>1
  <2>3. \A k \in 0 .. str.len : ~HasPrefix(Slice(str, k, End), n)
    BY <1>1, <1>2, <1>5, PrefixHits DEF hits
  <2> QED
    BY <2>1, <2>2, <2>3 DEF n
<1>6. CASE hits # {}
  <2> DEFINE low == Min(hits)
             high == Max(hits)
  <2>1. /\ low \in hits /\ high \in hits
        /\ \A k \in hits : low <= k /\ k <= high
    BY <1>4, <1>6, Least, Greatest
  <2> HIDE DEF low, high
  <2>2. /\ Find(str, n, FALSE) = {low} /\ Find(str, n, TRUE) = {low + n.len}
        /\ j = high /\ RFind(str, n, TRUE) = high + n.len
    BY <1>1, <1>2, <1>3, <1>6, FindIs, RFindIs DEF hits, low, high, SkipTo
  <2>3. i = low
    BY <2>2
  <2>4. low # NotFound /\ high # NotFound /\ low <= high
    BY <1>1, <1>2, <1>4, <2>1
  <2>5. /\ Compare(Slice(str, low, low + n.len), n) = 0
        /\ Compare(Slice(str, high, high + n.len), n) = 0
        /\ HasSuffix(Slice(str, 0, high + n.len), n)
    BY <1>1, <1>2, <2>1, PartEqual DEF hits
  <2>6. \A k \in 0 .. str.len :
          HasPrefix(Slice(str, k, End), n) => low <= k /\ k <= high
    BY <1>1, <1>2, <2>1, PrefixHits DEF hits
  <2> HIDE DEF i, j
  <2> QED
    BY <2>2, <2>3, <2>4, <2>5, <2>6 DEF n, i, j
<1> QED
  BY <1>5, <1>6

(* The searches from the front, from the back, by prefix, by suffix and by *)
(* comparison tell one story of every string and every needle.             *)
THEOREM SearchesTellOneStory == StrClientsSpec => []SearchesAgree
BY InitInside, StepInside, SearchesOf, PTL DEF StrClientsSpec
-------------------------------------------------------------------------------
(* The message.  The strings that the client searches are ends of the      *)
(* text, each from an offset on.                                           *)

At(text, part, i) == SubSeq(text, i + 1, i + Len(part)) = part

Places(text, part, k) == {i \in k .. Len(text) - Len(part) : At(text, part, i)}

After(text, part) ==
  IF Places(text, part, 0) = {} THEN Len(text) ELSE Min(Places(text, part, 0)) + Len(part)

EndOfLine(text) == Min(Places(text, Eol, After(text, Key)) \cup {Len(text)})

Suffix(s, text, k) ==
  /\ k \in 0 .. Len(text)
  /\ s.bytes = Append(text, 0) /\ s.at = k /\ s.len = Len(text) - k

MessageInv ==
  client = "message" =>
    \E text \in Messages :
      /\ Suffix(str, text, 0)
      /\ step = "line" => Suffix(value, text, After(text, Key))
      /\ step \in {"value", "done"} =>
           Contents(value) = SubSeq(text, After(text, Key) + 1, EndOfLine(text))
      /\ step = "done" =>
           Contents(body) = SubSeq(text, After(text, Eol \o Eol) + 1, Len(text))

LEMMA TextBytes ==
  ASSUME NEW text \in Seq(1 .. 255)
  PROVE  /\ Len(text) \in Nat /\ text \in Memory /\ Append(text, 0) \in Memory
         /\ Len(Append(text, 0)) = Len(text) + 1
         /\ \A i \in 1 .. Len(text) : Append(text, 0)[i] = text[i] /\ text[i] \in 1 .. 255
         /\ Append(text, 0)[Len(text) + 1] = 0
<1>1. text \in Memory /\ Len(text) \in Nat
  <2>1. 1 .. 255 \subseteq 0 .. 255
    OBVIOUS
  <2> QED
    BY <2>1, SeqMonotonic, LenProperties DEF Memory
<1>2. \A i \in 1 .. Len(text) : text[i] \in 1 .. 255
  BY ElementOfSeq
<1> QED
  BY <1>1, <1>2, AppendProperties DEF Memory

\* What is cut from the text and its zero without the zero is cut from the text.
LEMMA TextCut ==
  ASSUME NEW text \in Seq(1 .. 255), NEW k \in Nat, NEW m \in Nat, m <= Len(text)
  PROVE  SubSeq(Append(text, 0), k + 1, m) = SubSeq(text, k + 1, m)
<1>1. /\ Len(text) \in Nat
      /\ \A i \in 1 .. Len(text) : Append(text, 0)[i] = text[i] /\ text[i] \in 1 .. 255
  BY TextBytes
<1> DEFINE bytes == Append(text, 0)
           a == SubSeq(bytes, k + 1, m)
           b == SubSeq(text, k + 1, m)
<1>2. \A i \in k + 1 .. m : text[i] \in 1 .. 255 /\ bytes[i] = text[i]
  BY <1>1
<1>3. k + 1 \in Int /\ m \in Int
  OBVIOUS
<1> HIDE DEF bytes
<1> DEFINE B == 1 .. 255
<1>9. \A i \in k + 1 .. m : text[i] \in B /\ bytes[i] \in B
  BY <1>2
<1> HIDE DEF B
<1>4. /\ a \in Seq(B) /\ Len(a) = IF k + 1 <= m THEN m - (k + 1) + 1 ELSE 0
      /\ \A i \in 1 .. m - (k + 1) + 1 : a[i] = bytes[(k + 1) + i - 1]
  BY <1>3, <1>9, SubSeqProperties
<1>5. /\ b \in Seq(B) /\ Len(b) = IF k + 1 <= m THEN m - (k + 1) + 1 ELSE 0
      /\ \A i \in 1 .. m - (k + 1) + 1 : b[i] = text[(k + 1) + i - 1]
  BY <1>3, <1>9, SubSeqProperties
<1> HIDE DEF a, b
<1>6. ASSUME NEW i \in 1 .. Len(a) PROVE a[i] = b[i]
  <2>1. i \in 1 .. m - (k + 1) + 1 /\ (k + 1) + i - 1 \in k + 1 .. m
    BY <1>4
  <2> QED
    BY <1>2, <1>4, <1>5, <2>1
<1>7. a = b
  BY <1>4, <1>5, <1>6, SeqEqual
<1> QED
  BY <1>7 DEF a, b, bytes

LEMMA OccursAt ==
  ASSUME NEW text \in Seq(1 .. 255), NEW part \in Seq(1 .. 255), NEW k, NEW s, Suffix(s, text, k),
         NEW i \in 0 .. s.len - Len(part)
  PROVE  Occurs(StrInitCstr(part), s, i) <=> At(text, part, k + i)
<1> DEFINE n == StrInitCstr(part)
           cut == SubSeq(text, (k + i) + 1, (k + i) + Len(part))
<1>1. /\ Len(text) \in Nat /\ Len(part) \in Nat /\ k \in Nat /\ s.at = k /\ s.len = Len(text) - k
      /\ \A j \in 1 .. Len(text) : s.bytes[j] = text[j] /\ text[j] \in 1 .. 255
  BY TextBytes DEF Suffix
<1>2. n.len = Len(part) /\ \A j \in 0 .. Len(part) - 1 : ByteAt(n, j) = part[j + 1]
  <2>1. /\ \A j \in 1 .. Len(part) : Append(part, 0)[j] = part[j]
        /\ n = [bytes |-> Append(part, 0), at |-> 0, len |-> Len(part)]
    BY TextBytes DEF StrInitCstr, StrInit
  <2>2. ASSUME NEW j \in 0 .. Len(part) - 1 PROVE ByteAt(n, j) = part[j + 1]
    <3>1. j + 1 \in 1 .. Len(part) /\ 0 + j + 1 = j + 1
      BY <1>1
    <3> QED
      BY <2>1, <3>1 DEF ByteAt
  <2>3. n.len = Len(part)
    BY DEF StrInitCstr, StrInit
  <2> QED
    BY <2>2, <2>3
<1> HIDE DEF n
<1>3. ASSUME NEW j \in 0 .. Len(part) - 1 PROVE ByteAt(s, i + j) = text[(k + i) + 1 + (j + 1) - 1]
  <2>1. s.at + (i + j) + 1 = (k + i) + 1 + (j + 1) - 1 /\ s.at + (i + j) + 1 \in 1 .. Len(text)
    BY <1>1
  <2> QED
    BY <1>1, <2>1 DEF ByteAt
<1>4. /\ cut \in Seq(1 .. 255) /\ Len(cut) = Len(part)
      /\ \A j \in 1 .. Len(part) : cut[j] = text[(k + i) + 1 + j - 1]
  <2> DEFINE b == (k + i) + 1
             e == (k + i) + Len(part)
  <2>1. /\ b \in Int /\ e \in Int /\ \A j \in b .. e : text[j] \in 1 .. 255
        /\ e - b + 1 = Len(part) /\ (b <= e <=> 1 <= Len(part))
    <3>1. b \in Int /\ e \in Int /\ 1 <= b /\ e <= Len(text)
      BY <1>1
    <3>2. \A j \in b .. e : j \in 1 .. Len(text)
      BY <1>1, <3>1
    <3> QED
      BY <1>1, <3>1, <3>2
  <2> HIDE DEF b, e
  <2>2. /\ SubSeq(text, b, e) \in Seq(1 .. 255)
        /\ Len(SubSeq(text, b, e)) = IF b <= e THEN e - b + 1 ELSE 0
        /\ \A j \in 1 .. e - b + 1 : SubSeq(text, b, e)[j] = text[b + j - 1]
    BY <2>1, SubSeqProperties
  <2>3. Len(SubSeq(text, b, e)) = Len(part)
    BY <1>1, <2>1, <2>2
  <2> QED
    BY <2>1, <2>2, <2>3 DEF b, e
<1> HIDE DEF cut
<1>5. Occurs(n, s, i) => cut = part
  <2> SUFFICES ASSUME Occurs(n, s, i) PROVE cut = part
    OBVIOUS
  <2>1. ASSUME NEW j \in 1 .. Len(cut) PROVE cut[j] = part[j]
    <3>1. j - 1 \in 0 .. Len(part) - 1 /\ (j - 1) + 1 = j /\ j \in 1 .. Len(part)
      BY <1>1, <1>4
    <3>2. ByteAt(s, i + (j - 1)) = ByteAt(n, j - 1)
      BY <1>2, <3>1 DEF Occurs
    <3> QED
      BY <1>2, <1>3, <1>4, <3>1, <3>2
  <2> QED
    BY <1>4, <2>1, SeqEqual
<1>6. cut = part => Occurs(n, s, i)
  <2> SUFFICES ASSUME cut = part, NEW j \in 0 .. Len(part) - 1
               PROVE  ByteAt(s, i + j) = ByteAt(n, j)
    BY <1>2 DEF Occurs
  <2>1. j + 1 \in 1 .. Len(part)
    BY <1>1
  <2> QED
    BY <1>2, <1>3, <1>4, <2>1
<1> QED
  BY <1>5, <1>6 DEF At, n, cut

\* Where a search in the end of a text points, its index being capped: the
\* terminating zero keeps a part longer than the string from being found.
LEMMA FoundAt ==
  ASSUME NEW text \in Seq(1 .. 255), Len(text) < End, NEW part \in Seq(1 .. 255), NEW k,
         NEW s, Suffix(s, text, k), NEW skip, NEW i \in Find(s, StrInitCstr(part), skip)
  PROVE  /\ i \in Nat
         /\ k + Capped(i, s.len) =
              IF Places(text, part, k) = {} THEN Len(text)
              ELSE SkipTo(Min(Places(text, part, k)), StrInitCstr(part), skip)
<1> DEFINE n == StrInitCstr(part)
           places == Places(text, part, k)
           hits == Hits(s, n)
<1>1. /\ Len(text) \in Nat /\ Len(part) \in Nat /\ k \in Nat /\ s.at = k /\ s.len = Len(text) - k
      /\ s.len \in Nat /\ s.len < End /\ Len(s.bytes) = Len(text) + 1
      /\ s.bytes[Len(text) + 1] = 0
      /\ \A j \in 1 .. Len(part) : part[j] \in 1 .. 255
  BY TextBytes DEF Suffix, End
<1>2. /\ n.len = Len(part) /\ n.len \in Nat /\ NotFound = End /\ End \in Nat
      /\ \A j \in 1 .. Len(part) : ByteAt(n, j - 1) = part[j]
  <2>1. n.len = Len(part)
    BY DEF StrInitCstr, StrInit
  <2>2. ASSUME NEW j \in 1 .. Len(part) PROVE ByteAt(n, j - 1) = part[j]
    <3>1. Append(part, 0)[j] = part[j] /\ 0 + (j - 1) + 1 = j
      BY <1>1, TextBytes
    <3>2. ByteAt(n, j - 1) = Append(part, 0)[0 + (j - 1) + 1]
      BY DEF ByteAt, StrInitCstr, StrInit
    <3> QED
      BY <3>1, <3>2
  <2> QED
    BY <1>1, <2>1, <2>2 DEF NotFound, End
<1>3. \A j \in 0 .. s.len - n.len : Occurs(n, s, j) <=> At(text, part, k + j)
  BY <1>2, OccursAt
<1> HIDE DEF n, hits, places
<1>4. CASE n.len <= s.len
  <2>1. i \in IF hits = {} THEN {NotFound} ELSE {SkipTo(Min(hits), n, skip)}
    BY <1>1, <1>2, <1>4, FindIs DEF hits, n
  <2>2. /\ \A j \in hits : k + j \in places
        /\ \A p \in places : p - k \in hits
    BY <1>1, <1>2, <1>3 DEF hits, places, Hits, Places
  <2>3. hits \in SUBSET Nat /\ places \in SUBSET Nat /\ \A j \in hits : j + n.len <= s.len
    BY <1>1, <1>2 DEF hits, places, Hits, Places
  <2>4. CASE hits = {}
    <3>1. places = {} /\ i = End
      BY <1>2, <2>1, <2>2, <2>4
    <3> QED
      BY <1>1, <1>2, <3>1 DEF Capped, places
  <2>5. CASE hits # {}
    <3>1. Min(hits) \in hits /\ \A j \in hits : Min(hits) <= j
      BY <2>3, <2>5, Least
    <3>2. k + Min(hits) \in places /\ \A p \in places : k + Min(hits) <= p
      <4>1. \A p \in places : p \in Nat /\ Min(hits) <= p - k
        BY <2>2, <2>3, <3>1
      <4>2. k \in Nat /\ Min(hits) \in Nat /\ k + Min(hits) \in places
        BY <1>1, <2>2, <2>3, <3>1
      <4> QED
        BY <4>1, <4>2
    <3>3. Min(places) = k + Min(hits)
      BY <2>3, <3>2, LeastIs
    <3> DEFINE m == Min(hits)
               more == IF skip THEN n.len ELSE 0
    <3>4. m \in Nat /\ m + n.len <= s.len /\ more \in Nat /\ more <= n.len
      <4>1. m \in Nat /\ m + n.len <= s.len
        BY <2>3, <3>1
      <4>2. more \in Nat /\ more <= n.len
        BY <1>2
      <4> QED
        BY <4>1, <4>2
    <3> HIDE DEF m
    <3>5. i = m + more
      BY <2>1, <2>5, <3>4 DEF SkipTo, m
    <3> HIDE DEF more
    <3>6. i \in Nat /\ i <= s.len
      BY <1>1, <1>2, <3>4, <3>5
    <3>7. Capped(i, s.len) = i
      BY <1>1, <3>6 DEF Capped
    <3>8. k + i = (k + m) + more
      BY <1>1, <3>4, <3>5
    <3>9. places # {} /\ Min(places) = k + m
      BY <3>2, <3>3 DEF m
    <3>10. SkipTo(k + m, n, skip) = (k + m) + more
      BY <1>1, <3>4 DEF SkipTo, more
    <3> QED
      BY ONLY <3>6, <3>7, <3>8, <3>9, <3>10, Zenon DEF places, n
  <2> QED
    BY <2>4, <2>5
<1>5. CASE n.len > s.len
  <2>1. places = {}
    BY <1>1, <1>2, <1>5 DEF places, Places
  <2>2. ASSUME NEW j \in 0 .. Len(s.bytes) - s.at - n.len, Occurs(n, s, j) PROVE FALSE
    <3>1. j = 0 /\ n.len = s.len + 1 /\ s.len \in 0 .. n.len - 1 /\ s.len + 1 \in 1 .. Len(part)
      <4>1. /\ n.len \in Nat /\ s.len \in Nat /\ Len(text) \in Nat /\ k \in Nat /\ n.len > s.len
            /\ n.len = Len(part)
            /\ s.len = Len(text) - k /\ Len(s.bytes) - s.at - n.len = Len(text) + 1 - k - n.len
        BY <1>1, <1>2, <1>5
      <4>2. Len(s.bytes) - s.at - n.len = s.len + 1 - n.len
        BY ONLY <4>1
      <4> QED
        BY <4>1, <4>2
    <3>2. ByteAt(s, j + s.len) = ByteAt(n, s.len)
      BY <2>2, <3>1 DEF Occurs
    <3>3. ByteAt(n, s.len) = part[s.len + 1]
      <4>1. (s.len + 1) - 1 = s.len
        BY <1>1
      <4> QED
        BY <1>2, <3>1, <4>1
    <3>4. ByteAt(s, j + s.len) = 0
      <4>1. s.at + (j + s.len) + 1 = Len(text) + 1
        BY <1>1, <3>1
      <4> QED
        BY <1>1, <4>1 DEF ByteAt
    <3>5. part[s.len + 1] = 0
      BY ONLY <3>2, <3>3, <3>4, Zenon
    <3>6. part[s.len + 1] \in 1 .. 255
      BY <1>1, <3>1
    <3> QED
      BY <3>5, <3>6
  <2>3. i \in {NotFound, End + 1}
    <3> DEFINE beyond == n.len > s.len
               last == IF beyond THEN Len(s.bytes) - s.at - n.len ELSE s.len - n.len
               found == {j \in 0 .. last : Occurs(n, s, j)}
    <3>1. found = {}
      BY <1>5, <2>2
    <3>2. n.len # 0 /\ beyond
      BY <1>1, <1>5
    <3>3. Find(s, n, skip) = IF n.len = 0 THEN {0}
                             ELSE IF found # {} THEN {SkipTo(Min(found), n, skip)}
                             ELSE IF beyond THEN {NotFound, End + 1}
                             ELSE {NotFound}
      BY DEF Find
    <3> HIDE DEF found, beyond
    <3> QED
      BY <3>1, <3>2, <3>3 DEF n
  <2>4. i \in Nat /\ ~(i < 0) /\ ~(i <= s.len)
    BY <1>1, <1>2, <2>3
  <2>5. Capped(i, s.len) = s.len
    BY <2>4 DEF Capped
  <2> QED
    BY <1>1, <2>1, <2>4, <2>5 DEF places
<1> QED
  BY <1>1, <1>2, <1>4, <1>5

LEMMA AfterWithin ==
  ASSUME NEW text \in Seq(1 .. 255), NEW part \in Seq(1 .. 255)
  PROVE  After(text, part) \in 0 .. Len(text)
<1>1. Len(text) \in Nat /\ Len(part) \in Nat
  BY LenProperties
<1> DEFINE places == Places(text, part, 0)
<1>2. places \in SUBSET Nat /\ \A i \in places : i + Len(part) \in 0 .. Len(text)
  BY <1>1 DEF Places
<1> HIDE DEF places
<1>3. places # {} => Min(places) \in places
  BY <1>2, Least
<1> QED
  BY <1>1, <1>2, <1>3 DEF After, places

\* The slice from where a search with skip points.
LEMMA RestAfter ==
  ASSUME NEW text \in Seq(1 .. 255), Len(text) < End, NEW part \in Seq(1 .. 255),
         NEW s, Inside(s), Suffix(s, text, 0), NEW i \in Find(s, StrInitCstr(part), TRUE)
  PROVE  Suffix(Slice(s, i, End), text, After(text, part))
<1>1. Len(text) \in Nat /\ s.len = Len(text) /\ s.at = 0 /\ s.bytes = Append(text, 0) /\ s.len < End /\ End \in Nat
  BY TextBytes DEF Suffix, End
<1>2. i \in Nat /\ 0 + Capped(i, s.len) = After(text, part)
  <2>1. \A skip : i \in Find(s, StrInitCstr(part), skip) =>
          /\ i \in Nat
          /\ 0 + Capped(i, s.len) =
               IF Places(text, part, 0) = {} THEN Len(text)
               ELSE SkipTo(Min(Places(text, part, 0)), StrInitCstr(part), skip)
    BY FoundAt
  <2>2. StrInitCstr(part).len = Len(part)
    BY DEF StrInitCstr, StrInit
  <2> QED
    BY <2>1, <2>2 DEF After, SkipTo
<1>3. After(text, part) \in 0 .. Len(text)
  BY AfterWithin
<1>4. Capped(i, s.len) = After(text, part) /\ Until(i, End, s.len) = s.len
  <2>1. Capped(i, s.len) = After(text, part)
    BY <1>1, <1>2, <1>3 DEF Capped
  <2>2. Capped(End, s.len) = s.len
    BY <1>1 DEF Capped
  <2> QED
    BY <1>1, <1>3, <2>1, <2>2 DEF Until
<1>5. i \in Int /\ End \in Int /\ i >= -s.len
  BY <1>1, <1>2
<1> DEFINE r == Slice(s, i, End)
<1>6. r.bytes = s.bytes /\ r.at = s.at + After(text, part) /\ r.len = s.len - After(text, part)
  BY <1>4, <1>5, SliceIs
<1> HIDE DEF r
<1> QED
  BY <1>1, <1>3, <1>6 DEF Suffix, r

LEMMA SuffixContents ==
  ASSUME NEW text \in Seq(1 .. 255), NEW k, NEW s, Suffix(s, text, k)
  PROVE  Contents(s) = SubSeq(text, k + 1, Len(text))
<1>1. Len(text) \in Nat /\ k \in Nat /\ k <= Len(text) /\ s.bytes = Append(text, 0) /\ s.at = k
      /\ s.at + s.len = Len(text)
  BY TextBytes DEF Suffix
<1>2. SubSeq(Append(text, 0), k + 1, Len(text)) = SubSeq(text, k + 1, Len(text))
  BY <1>1, TextCut
<1> QED
  BY <1>1, <1>2 DEF Contents

\* The slice up to where a search without skip points.
LEMMA LineBefore ==
  ASSUME NEW text \in Seq(1 .. 255), Len(text) < End, NEW s, Inside(s),
         Suffix(s, text, After(text, Key)), NEW i \in Find(s, StrInitCstr(Eol), FALSE)
  PROVE  Contents(Slice(s, 0, i)) = SubSeq(text, After(text, Key) + 1, EndOfLine(text))
<1> DEFINE k == After(text, Key)
           places == Places(text, Eol, k)
           stop == EndOfLine(text)
<1>1. /\ Len(text) \in Nat /\ k \in 0 .. Len(text) /\ s.len = Len(text) - k /\ s.at = k
      /\ s.bytes = Append(text, 0) /\ s.len \in Nat
  BY TextBytes DEF Suffix
<1>2. Eol \in Seq(1 .. 255) /\ Len(Eol) \in Nat
  BY StringsAssumption, LenProperties
<1>3. i \in Nat /\ k + Capped(i, s.len) = IF places = {} THEN Len(text) ELSE Min(places)
  <2>1. \A skip : i \in Find(s, StrInitCstr(Eol), skip) =>
          /\ i \in Nat
          /\ k + Capped(i, s.len) = IF places = {} THEN Len(text)
                                    ELSE SkipTo(Min(places), StrInitCstr(Eol), skip)
    BY <1>2, FoundAt
  <2> QED
    BY <2>1 DEF SkipTo
<1>4. places \in SUBSET Nat /\ \A p \in places : p <= Len(text)
  BY <1>1, <1>2 DEF Places
<1>5. stop = Min(places \cup {Len(text)})
  BY DEF EndOfLine
<1> HIDE DEF k, places, stop
<1>6. k + Capped(i, s.len) = stop
  <2>1. CASE places = {}
    <3>1. stop = Len(text)
      BY <1>1, <1>5, <2>1, LeastIs
    <3> QED
      BY <1>3, <2>1, <3>1
  <2>2. CASE places # {}
    <3>1. Min(places) \in places /\ \A p \in places : Min(places) <= p
      BY <1>4, <2>2, Least
    <3>2. \A p \in places \cup {Len(text)} : Min(places) <= p
      <4>1. Min(places) <= Len(text)
        BY <1>4, <3>1
      <4> QED
        BY <3>1, <4>1
    <3>3. places \cup {Len(text)} \in SUBSET Nat /\ Min(places) \in places \cup {Len(text)}
      BY <1>1, <1>4, <3>1
    <3>4. stop = Min(places)
      BY <1>5, <3>2, <3>3, LeastIs
    <3> QED
      BY <1>3, <2>2, <3>4
  <2> QED
    BY <2>1, <2>2
<1>7. Capped(i, s.len) \in 0 .. s.len
  BY <1>1, <1>3 DEF Capped
<1>8. stop \in Nat /\ stop <= Len(text) /\ k \in Nat
  BY <1>1, <1>6, <1>7
<1> DEFINE r == Slice(s, 0, i)
<1>9. r.bytes = s.bytes /\ r.at = s.at + 0 /\ r.len = Capped(i, s.len) - 0
  <2>1. /\ 0 \in Int /\ i \in Int /\ 0 >= -s.len
        /\ Capped(0, s.len) = 0 /\ Until(0, i, s.len) = Capped(i, s.len)
    BY <1>1, <1>3, <1>7 DEF Capped, Until
  <2> QED
    BY <2>1, SliceIs
<1> HIDE DEF r
<1>10. r.bytes = Append(text, 0) /\ r.at = k /\ r.at + r.len = stop
  BY <1>1, <1>6, <1>7, <1>9
<1>11. SubSeq(Append(text, 0), k + 1, stop) = SubSeq(text, k + 1, stop)
  BY <1>8, TextCut
<1> QED
  BY <1>10, <1>11 DEF Contents, r, k, stop

LEMMA InitMessage == StrClientsInit => MessageInv
<1> SUFFICES ASSUME StrClientsInit, client = "message" PROVE MessageInv
  BY DEF MessageInv
<1>1. PICK text \in Messages : str = StrInitCstr(text)
  BY DEF StrClientsInit
<1>2. Len(text) \in Nat
  BY StringsAssumption, LenProperties
<1>3. Suffix(str, text, 0)
  BY <1>1, <1>2 DEF Suffix, StrInitCstr, StrInit
<1>4. step = "start"
  BY DEF StrClientsInit
<1> QED
  BY <1>3, <1>4 DEF MessageInv

LEMMA StepMessage == StringsInside /\ MessageInv /\ [StrClientsNext]_strVars => MessageInv'
<1> SUFFICES ASSUME StringsInside, MessageInv, [StrClientsNext]_strVars PROVE MessageInv'
  OBVIOUS
<1>1. CASE UNCHANGED <<client, step, strings>>
  BY <1>1 DEF MessageInv, strings
<1>2. CASE CutStep
  BY <1>2 DEF CutStep, MessageInv
<1>3. CASE MessageStep
  <2>1. PICK text \in Messages :
          /\ Suffix(str, text, 0)
          /\ step = "line" => Suffix(value, text, After(text, Key))
          /\ step \in {"value", "done"} =>
               Contents(value) = SubSeq(text, After(text, Key) + 1, EndOfLine(text))
    BY <1>3 DEF MessageStep, MessageInv
  <2>2. /\ text \in Seq(1 .. 255) /\ Len(text) < End
        /\ Key \in Seq(1 .. 255) /\ Eol \o Eol \in Seq(1 .. 255)
    BY StringsAssumption, NeedleLength
  <2>3. Inside(str) /\ Inside(value)
    BY DEF StringsInside
  <2>4. UNCHANGED str
    BY <1>3 DEF MessageStep
  <2>5. CASE FindKey
    <3>1. step' = "line" /\ Suffix(value', text, After(text, Key))
      BY <2>1, <2>2, <2>3, <2>5, RestAfter DEF FindKey
    <3> QED
      BY <2>1, <2>4, <3>1 DEF MessageInv
  <2>6. CASE FindEol
    <3>1. /\ step' = "value"
          /\ Contents(value') = SubSeq(text, After(text, Key) + 1, EndOfLine(text))
      <4>1. /\ step = "line" /\ step' = "value" /\ Suffix(value, text, After(text, Key))
        BY <2>1, <2>6 DEF FindEol
      <4>2. PICK i \in Find(value, StrInitCstr(Eol), FALSE) : value' = Slice(value, 0, i)
        BY <2>6 DEF FindEol
      <4>3. Contents(Slice(value, 0, i)) = SubSeq(text, After(text, Key) + 1, EndOfLine(text))
        BY <2>2, <2>3, <4>1, LineBefore
      <4> QED
        BY <4>1, <4>2, <4>3
    <3>2. Contents(value)' = Contents(value')
      BY DEF Contents
    <3> QED
      BY <2>1, <2>4, <3>1, <3>2 DEF MessageInv
  <2>7. CASE FindBody
    <3>1. step' = "done" /\ Suffix(body', text, After(text, Eol \o Eol)) /\ step = "value" /\ UNCHANGED value
      BY <2>1, <2>2, <2>3, <2>7, RestAfter DEF FindBody
    <3>2. Contents(body') = SubSeq(text, After(text, Eol \o Eol) + 1, Len(text))
      BY <2>2, <3>1, SuffixContents
    <3> QED
      BY <2>1, <2>4, <3>1, <3>2 DEF MessageInv
  <2> QED
    BY <1>3, <2>5, <2>6, <2>7 DEF MessageStep
<1> QED
  BY <1>1, <1>2, <1>3 DEF StrClientsNext, ParseUrl, strVars

LEMMA ReadOf == StringsInside /\ MessageInv => MessageRead
<1> SUFFICES ASSUME StringsInside, MessageInv, client = "message", step = "done" PROVE MessageRead
  BY DEF MessageRead
<1>1. PICK text \in Messages :
        /\ Suffix(str, text, 0)
        /\ Contents(value) = SubSeq(text, After(text, Key) + 1, EndOfLine(text))
        /\ Contents(body) = SubSeq(text, After(text, Eol \o Eol) + 1, Len(text))
  BY DEF MessageInv
<1>2. text \in Seq(1 .. 255)
  BY StringsAssumption
<1>3. Contents(str) = text
  <2>1. Contents(str) = SubSeq(text, 0 + 1, Len(text))
    BY <1>1, <1>2, SuffixContents
  <2> QED
    BY <1>2, <2>1, SubSeqFull
<1> QED
  BY <1>1, <1>3 DEF MessageRead, After, EndOfLine, Places, At

(* Of every message, key and line end, the value is what stands between    *)
(* the first key and the end of that line, and the body what follows the   *)
(* first empty line, though the assertions that they are found only print. *)
THEOREM MessageIsRead == StrClientsSpec => []MessageRead
<1>1. StrClientsInit => StringsInside /\ MessageInv
  BY InitInside, InitMessage
<1>2. StringsInside /\ MessageInv /\ [StrClientsNext]_strVars => (StringsInside /\ MessageInv)'
  BY StepInside, StepMessage
<1> QED
  BY <1>1, <1>2, ReadOf, PTL DEF StrClientsSpec
===============================================================================
