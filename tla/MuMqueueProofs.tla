---------------------------- MODULE MuMqueueProofs ----------------------------
(***************************************************************************)
(* Proofs about MuMqueue for every capacity, set of elements and depth of  *)
(* notification: type correctness and that it implements the bounded FIFO. *)
(***************************************************************************)
EXTENDS MuMqueue, TLAPS

LEMMA InitTypeOK == Init => TypeOK
  BY CapacityAssumption, NotifyAssumption DEF Init, TypeOK, Slots

LEMMA IndexMove ==
  ASSUME NEW i \in Slots
  PROVE  /\ (i + 1) % Capacity \in Slots
         /\ (i + 1) % Capacity = IF i = Capacity - 1 THEN 0 ELSE i + 1
  BY CapacityAssumption DEF Slots

LEMMA NotifyTyped ==
  ASSUME TypeOK, Len(calls) < MaxNested, NEW b \in BOOLEAN,
         NEW w \in {"on_put", "on_get"}, Notify(b, w)
  PROVE  calls' \in Seq({"on_put", "on_get"}) /\ Len(calls') <= MaxNested
  BY NotifyAssumption DEF TypeOK, Notify

LEMMA HeadSlotRange == TypeOK /\ count # 0 => HeadSlot \in Slots
  BY CapacityAssumption DEF TypeOK, Slots, HeadSlot

LEMMA StepTypeOK == TypeOK /\ [Next]_vars => TypeOK'
<1> SUFFICES ASSUME TypeOK, [Next]_vars PROVE TypeOK'
  OBVIOUS
<1> USE DEF TypeOK, vars
<1>1. ASSUME NEW x \in Items, Put(x) PROVE TypeOK'
  <2>1. CASE count # Capacity
    <3>1. calls' \in Seq({"on_put", "on_get"}) /\ Len(calls') <= MaxNested
      BY <1>1, <2>1, NotifyTyped, NotifyAssumption DEF Put
    <3> QED
      BY <1>1, <2>1, <3>1, IndexMove, CapacityAssumption DEF Put
  <2>2. CASE count = Capacity
    BY <1>1, <2>2 DEF Put
  <2> QED
    BY <2>1, <2>2
<1>2. CASE Get
  <2>1. CASE count # 0
    <3>1. calls' \in Seq({"on_put", "on_get"}) /\ Len(calls') <= MaxNested
      BY <1>2, <2>1, NotifyTyped, NotifyAssumption DEF Get
    <3> QED
      BY <1>2, <2>1, <3>1, HeadSlotRange, CapacityAssumption DEF Get
  <2>2. CASE count = 0
    BY <1>2, <2>2 DEF Get
  <2> QED
    BY <2>1, <2>2
<1>3. CASE Peek
  BY <1>3, HeadSlotRange DEF Peek
<1>4. CASE Reset
  BY <1>4, CapacityAssumption DEF Reset, Slots
<1>5. CASE Return
  BY <1>5, NotifyAssumption DEF Return
<1>6. CASE UNCHANGED vars
  BY <1>6
<1> QED
  BY <1>1, <1>2, <1>3, <1>4, <1>5, <1>6 DEF Next

(* index stays in the ring, count within the capacity. *)
THEOREM TypeCorrect == Spec => []TypeOK
  BY InitTypeOK, StepTypeOK, PTL DEF Spec
(* A notified task finds the change it is told of already made. *)
THEOREM NotifiedLate == Spec => NotifiedAfterChange
<1>1. TypeOK /\ [Next]_vars =>
        [Len(calls') > Len(calls) =>
           IF calls'[Len(calls')] = "on_get" THEN count' < Capacity ELSE count' > 0]_vars
  <2> SUFFICES ASSUME TypeOK, [Next]_vars, Len(calls') > Len(calls)
               PROVE  IF calls'[Len(calls')] = "on_get" THEN count' < Capacity ELSE count' > 0
    OBVIOUS
  <2> USE DEF TypeOK, vars
  <2>1. ASSUME NEW x \in Items, Put(x)
        PROVE  count # Capacity /\ count' = count + 1 /\ calls' = Append(calls, "on_put")
    BY <2>1 DEF Put, Notify
  <2>2. ASSUME Get
        PROVE  count # 0 /\ count' = count - 1 /\ calls' = Append(calls, "on_get")
    BY <2>2 DEF Get, Notify
  <2>3. ~Peek /\ ~Reset /\ ~Return /\ ~UNCHANGED vars
    BY DEF Peek, Reset, Return
  <2>4. CASE \E x \in Items : Put(x)
    BY <2>1, <2>4
  <2>5. CASE Get
    BY <2>2, <2>5, CapacityAssumption
  <2> QED
    BY <2>3, <2>4, <2>5 DEF Next
<1> QED
  BY <1>1, TypeCorrect, PTL DEF Spec, NotifiedAfterChange

-------------------------------------------------------------------------------
(* The refinement.  Queue reads the count slots that end before index. *)

LEMMA SlotRange ==
  ASSUME TypeOK, NEW k \in 0 .. Capacity
  PROVE  /\ HeadSlot \in Slots
         /\ k < Capacity => SlotAt(k) \in Slots
         /\ k < count /\ count < Capacity => SlotAt(k) # index
         /\ count < Capacity => SlotAt(count) = index
         /\ SlotAt(0) = HeadSlot
  BY CapacityAssumption DEF TypeOK, Slots, SlotAt, HeadSlot

QueueShape ==
  /\ Queue \in Seq(Items \union {NULL})
  /\ Len(Queue) = count
  /\ \A k \in 1 .. count : Queue[k] = storage[SlotAt(k - 1)]

LEMMA QueueIsSeq == TypeOK => QueueShape
<1> SUFFICES ASSUME TypeOK PROVE QueueShape
  OBVIOUS
<1>1. \A k \in 1 .. count : SlotAt(k - 1) \in Slots
  BY SlotRange, CapacityAssumption DEF TypeOK
<1>2. \A k \in 1 .. count : storage[SlotAt(k - 1)] \in Items \union {NULL}
  BY <1>1 DEF TypeOK
<1> QED
  BY <1>2, CapacityAssumption DEF TypeOK, Queue, QueueShape

LEMMA AcceptStep ==
  ASSUME TypeOK, TypeOK', QueueShape, QueueShape',
         NEW x \in Items, count # Capacity, Put(x)
  PROVE  Fifo!Accept(x)
<1>1. /\ count' = count + 1 /\ index' = (index + 1) % Capacity
      /\ storage' = [storage EXCEPT ![index] = x]
      /\ accepted' = TRUE /\ element' = element
      /\ count \in 0 .. Capacity - 1 /\ index \in Slots
      /\ storage \in [Slots -> Items \union {NULL}]
  BY CapacityAssumption DEF Put, TypeOK
<1>2. \A k \in 0 .. count : SlotAt(k)' = SlotAt(k)
  <2>1. HeadSlot' = HeadSlot
    <3>1. index' = IF index = Capacity - 1 THEN 0 ELSE index + 1
      BY <1>1, IndexMove
    <3> QED
      BY <1>1, <3>1, CapacityAssumption DEF HeadSlot, Slots
  <2> QED
    BY <2>1 DEF SlotAt
<1>3. \A k \in 1 .. count : Queue'[k] = Queue[k]
  <2> SUFFICES ASSUME NEW k \in 1 .. count PROVE Queue'[k] = Queue[k]
    OBVIOUS
  <2>1. SlotAt(k - 1) \in Slots \ {index}
    BY <1>1, SlotRange, CapacityAssumption
  <2>2. Queue'[k] = storage'[SlotAt(k - 1)] /\ Queue[k] = storage[SlotAt(k - 1)]
    BY <1>1, <1>2, CapacityAssumption DEF QueueShape
  <2> QED
    BY <1>1, <2>1, <2>2
<1>4. Queue'[count + 1] = x
  BY <1>1, <1>2, SlotRange, CapacityAssumption DEF QueueShape
<1>5. Queue' = Append(Queue, x)
  BY <1>1, <1>3, <1>4 DEF QueueShape
<1> QED
  BY <1>1, <1>5, CapacityAssumption DEF QueueShape, Fifo!Accept

LEMMA DeliverStep ==
  ASSUME TypeOK, QueueShape, QueueShape', count # 0, Get
  PROVE  Fifo!Deliver
<1>1. /\ count' = count - 1 /\ UNCHANGED <<storage, index, accepted>>
      /\ element' = storage[HeadSlot] /\ count \in 1 .. Capacity /\ index \in Slots
  BY CapacityAssumption DEF Get, TypeOK
<1>2. \A k \in 1 .. count - 1 : SlotAt(k - 1)' = SlotAt(k)
  BY <1>1, CapacityAssumption DEF SlotAt, HeadSlot, Slots
<1>3. \A k \in 1 .. count - 1 : Queue'[k] = Queue[k + 1]
  BY <1>1, <1>2 DEF QueueShape
<1>4. /\ Tail(Queue) \in Seq(Items \union {NULL}) /\ Len(Tail(Queue)) = count - 1
      /\ \A k \in 1 .. count - 1 : Tail(Queue)[k] = Queue[k + 1]
  BY <1>1 DEF QueueShape
<1>5. Queue' = Tail(Queue)
  BY <1>1, <1>3, <1>4 DEF QueueShape
<1>6. Queue # <<>> /\ Head(Queue) = storage[HeadSlot]
  BY <1>1, SlotRange, CapacityAssumption DEF QueueShape
<1> QED
  BY <1>1, <1>5, <1>6 DEF Fifo!Deliver

(* Through any nesting of the on_put and on_get tasks, the index and the   *)
(* count describe one bounded FIFO of Capacity elements.                   *)
THEOREM MqueueImplementsFifo == Spec => ImplementsFifo
<1>1. Init => Fifo!FifoInit
  BY DEF Init, Queue, Fifo!FifoInit
<1>2. TypeOK /\ TypeOK' /\ [Next]_vars => [Fifo!FifoNext]_(Fifo!fifoVars)
  <2> SUFFICES ASSUME TypeOK, TypeOK', [Next]_vars PROVE [Fifo!FifoNext]_(Fifo!fifoVars)
    OBVIOUS
  <2>0. QueueShape /\ QueueShape'
    BY QueueIsSeq, PTL
  <2>1. UNCHANGED <<storage, index, count>> => Queue' = Queue
    BY DEF Queue, SlotAt, HeadSlot
  <2>2. ASSUME NEW x \in Items, Put(x) PROVE Fifo!FifoNext
    <3>1. CASE count # Capacity
      BY <2>0, <2>2, <3>1, AcceptStep DEF Fifo!FifoNext
    <3>2. CASE count = Capacity
      BY <2>0, <2>1, <2>2, <3>2 DEF Put, QueueShape, Fifo!FifoNext, Fifo!Refuse
    <3> QED
      BY <3>1, <3>2
  <2>3. CASE Get
    <3>1. CASE count # 0
      BY <2>0, <2>3, <3>1, DeliverStep DEF Fifo!FifoNext
    <3>2. CASE count = 0
      BY <2>0, <2>1, <2>3, <3>2 DEF Get, QueueShape, Fifo!FifoNext, Fifo!FindNothing
    <3> QED
      BY <3>1, <3>2
  <2>4. CASE Peek
    <3>1. CASE count # 0
      <4>1. Queue # <<>> /\ Head(Queue) = storage[HeadSlot]
        BY <2>0, <3>1, SlotRange, CapacityAssumption DEF QueueShape, TypeOK
      <4> QED
        BY <2>1, <2>4, <3>1, <4>1 DEF Peek, Fifo!FifoNext, Fifo!Look
    <3>2. CASE count = 0
      BY <2>0, <2>1, <2>4, <3>2 DEF Peek, QueueShape, Fifo!FifoNext, Fifo!FindNothing
    <3> QED
      BY <3>1, <3>2
  <2>5. CASE Reset
    <3>1. Queue' = <<>>
      BY <2>5 DEF Reset, Queue
    <3> QED
      BY <2>5, <3>1 DEF Reset, Fifo!FifoNext, Fifo!Clear
  <2>6. CASE Return \/ UNCHANGED vars
    BY <2>1, <2>6 DEF Return, vars, Fifo!fifoVars
  <2> QED
    BY <2>2, <2>3, <2>4, <2>5, <2>6 DEF Next
<1> QED
  BY <1>1, <1>2, TypeCorrect, PTL DEF Spec, ImplementsFifo, Fifo!FifoSpec
===============================================================================
