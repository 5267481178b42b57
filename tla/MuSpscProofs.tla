----------------------------- MODULE MuSpscProofs -----------------------------
(***************************************************************************)
(* Proofs about MuSpsc for every capacity and every set of items: type     *)
(* correctness, the absence of a slot race, and that the lock-free steps   *)
(* implement the bounded FIFO.                                             *)
(***************************************************************************)
EXTENDS MuSpsc, TLAPS

\* What each side knows between its check and its last write, whatever the
\* other side has done meanwhile: the other index can only have moved away.
IInv ==
  /\ TypeOK
  /\ prod.pc # "ready" => Next1(tail) # head /\ prod.item \in Items
  /\ prod.pc = "advance" => store[tail] = prod.item
  /\ cons.pc # "ready" => head # tail
  /\ cons.pc = "advance" => cons.item = store[head]

LEMMA Next1Value ==
  ASSUME NEW i \in Slots
  PROVE  Next1(i) \in Slots /\ Next1(i) = IF i = Capacity - 1 THEN 0 ELSE i + 1
  BY CapacityAssumption DEF Slots, Next1

LEMMA InitIInv == Init => IInv
  BY CapacityAssumption DEF Init, IInv, TypeOK, Slots

LEMMA StepIInv == IInv /\ [Next]_vars => IInv'
<1> SUFFICES ASSUME IInv, [Next]_vars PROVE IInv'
  OBVIOUS
<1> USE DEF IInv, TypeOK, vars, producerVars, consumerVars
<1>0. /\ Next1(head) \in Slots /\ Next1(head) = IF head = Capacity - 1 THEN 0 ELSE head + 1
      /\ Next1(tail) \in Slots /\ Next1(tail) = IF tail = Capacity - 1 THEN 0 ELSE tail + 1
  BY Next1Value
<1>1. ASSUME NEW x \in Items, PutCheck(x) PROVE IInv'
  <2>1. CASE Next1(tail) = head
    BY <1>1, <2>1 DEF PutCheck
  <2>2. CASE Next1(tail) # head
    <3>1. /\ prod' = [pc |-> "store", item |-> x]
          /\ UNCHANGED <<tail, store, accepted, head, cons, got>>
      BY <1>1, <2>2 DEF PutCheck
    <3> QED
      BY <2>2, <3>1
  <2> QED
    BY <2>1, <2>2
<1>2. CASE PutStore
  BY <1>2 DEF PutStore
<1>3. CASE PutAdvance
  <2>1. Next1(Next1(tail)) # Next1(tail) /\ head # Next1(tail)
    BY <1>0, <1>3, Next1Value, CapacityAssumption DEF PutAdvance, Slots
  <2> QED
    BY <1>0, <1>3, <2>1 DEF PutAdvance
<1>4. CASE GetCheck
  BY <1>4 DEF GetCheck
<1>5. CASE GetFetch
  BY <1>5 DEF GetFetch
<1>6. CASE GetAdvance
  <2>1. prod.pc # "ready" => Next1(tail) # Next1(head)
    BY <1>0, <1>6, CapacityAssumption DEF GetAdvance, Slots
  <2> QED
    BY <1>0, <1>6, <2>1 DEF GetAdvance
<1>7. CASE Reset
  BY <1>7, CapacityAssumption DEF Reset, Slots
<1>8. CASE UNCHANGED vars
  BY <1>8 DEF Next1
<1> QED
  BY <1>1, <1>2, <1>3, <1>4, <1>5, <1>6, <1>7, <1>8 DEF Next, Put, Get

LEMMA SpecIInv == Spec => []IInv
  BY InitIInv, StepIInv, PTL DEF Spec

(* The indices stay in the ring and both program counters in their ranges. *)
THEOREM TypeCorrect == Spec => []TypeOK
<1>1. IInv => TypeOK
  BY DEF IInv
<1> QED
  BY <1>1, SpecIInv, PTL

(* In the middle of their calls, the interrupt handler and the foreground  *)
(* never hold the same slot: mu_spsc needs no lock.                        *)
THEOREM SlotRaceFree == Spec => []NoSlotRace
<1>1. IInv => NoSlotRace
  BY DEF IInv, NoSlotRace
<1> QED
  BY <1>1, SpecIInv, PTL
-------------------------------------------------------------------------------
(* The refinement.  Queue reads the slots from head to tail in order. *)

LEMMA WaitingRange ==
  ASSUME IInv
  PROVE  /\ Waiting \in 0 .. Capacity - 1
         /\ Waiting = 0 <=> head = tail
         /\ Waiting = Capacity - 1 <=> Next1(tail) = head
  BY Next1Value, CapacityAssumption DEF IInv, TypeOK, Slots, Waiting

LEMMA SlotRange ==
  ASSUME IInv, NEW k \in 0 .. Capacity - 1
  PROVE  /\ SlotAt(k) \in Slots
         /\ k < Waiting => SlotAt(k) # tail
         /\ SlotAt(Waiting) = tail
         /\ SlotAt(0) = head
  BY WaitingRange, CapacityAssumption DEF IInv, TypeOK, Slots, Waiting, SlotAt

QueueShape ==
  /\ Queue \in Seq(Items \union {NULL})
  /\ Len(Queue) = Waiting
  /\ \A k \in 1 .. Waiting : Queue[k] = store[SlotAt(k - 1)]

LEMMA QueueIsSeq == IInv => QueueShape
<1> SUFFICES ASSUME IInv PROVE QueueShape
  OBVIOUS
<1>1. \A k \in 1 .. Waiting : SlotAt(k - 1) \in Slots
  BY WaitingRange, SlotRange, CapacityAssumption
<1>2. \A k \in 1 .. Waiting : store[SlotAt(k - 1)] \in Items \union {NULL}
  BY <1>1 DEF IInv, TypeOK
<1> QED
  BY <1>2, WaitingRange, CapacityAssumption DEF Queue, QueueShape

LEMMA AcceptStep == IInv /\ PutAdvance => Fifo!Accept(prod.item)
<1> SUFFICES ASSUME IInv, PutAdvance PROVE Fifo!Accept(prod.item)
  OBVIOUS
<1>0. IInv' /\ QueueShape /\ QueueShape'
  <2>1. IInv'
    BY StepIInv DEF Next, Put
  <2> QED
    BY <2>1, QueueIsSeq, PTL
<1>1. Next1(tail) # head /\ store[tail] = prod.item /\ tail' = Next1(tail) /\ head' = head
      /\ store' = store /\ prod.pc = "advance" /\ head \in Slots /\ tail \in Slots
  BY DEF IInv, TypeOK, PutAdvance, consumerVars
<1>2. Waiting < Capacity - 1 /\ Waiting' = Waiting + 1
  BY <1>1, WaitingRange, Next1Value, CapacityAssumption DEF Slots, Waiting
<1>3. \A k \in 1 .. Waiting + 1 : SlotAt(k - 1)' = SlotAt(k - 1)
  BY <1>1 DEF SlotAt
<1>4. Queue' = Append(Queue, prod.item)
  <2>1. \A k \in 1 .. Waiting : Queue'[k] = Queue[k]
    BY <1>0, <1>1, <1>2, <1>3, WaitingRange DEF QueueShape
  <2>2. Queue'[Waiting + 1] = prod.item
    BY <1>1, <1>2, <1>3, SlotRange, WaitingRange, CapacityAssumption DEF Queue
  <2>3. Queue' \in Seq(Items \union {NULL}) /\ Len(Queue') = Waiting + 1
    BY <1>0, <1>2 DEF QueueShape
  <2> QED
    BY <1>0, <2>1, <2>2, <2>3, WaitingRange, CapacityAssumption DEF QueueShape
<1> QED
  BY <1>0, <1>2, <1>4 DEF QueueShape, Fifo!Accept, PutAdvance, consumerVars
LEMMA DeliverStep == IInv /\ GetAdvance => Fifo!Deliver
<1> SUFFICES ASSUME IInv, GetAdvance PROVE Fifo!Deliver
  OBVIOUS
<1>0. IInv' /\ QueueShape /\ QueueShape'
  <2>1. IInv'
    BY StepIInv DEF Next, Get
  <2> QED
    BY <2>1, QueueIsSeq, PTL
<1>1. /\ head # tail /\ head' = Next1(head) /\ head \in Slots /\ tail \in Slots
      /\ UNCHANGED <<tail, store, accepted>> /\ got' = store[head]
  BY DEF IInv, TypeOK, GetAdvance, producerVars
<1>2. Waiting > 0 /\ Waiting' = Waiting - 1
  BY <1>1, WaitingRange, Next1Value, CapacityAssumption DEF Slots, Waiting
<1>3. \A k \in 1 .. Waiting - 1 : SlotAt(k - 1)' = SlotAt(k)
  BY <1>1, Next1Value, WaitingRange, CapacityAssumption DEF SlotAt, Slots
<1>4. Queue' = Tail(Queue)
  <2>1. \A k \in 1 .. Waiting - 1 : Queue'[k] = Queue[k + 1]
    <3> SUFFICES ASSUME NEW k \in 1 .. Waiting - 1 PROVE Queue'[k] = Queue[k + 1]
      OBVIOUS
    <3>1. k \in 1 .. Waiting' /\ k + 1 \in 1 .. Waiting /\ (k + 1) - 1 = k
      BY <1>2, WaitingRange
    <3>2. Queue'[k] = store[SlotAt(k - 1)'] /\ Queue[k + 1] = store[SlotAt(k)]
      <4>1. Queue'[k] = store'[SlotAt(k - 1)']
        BY <1>0, <3>1, Zenon DEF QueueShape
      <4>2. Queue[k + 1] = store[SlotAt((k + 1) - 1)]
        BY <1>0, <3>1, Zenon DEF QueueShape
      <4> QED
        BY <1>1, <3>1, <4>1, <4>2
    <3> QED
      BY <1>3, <3>2
  <2>2. Queue' \in Seq(Items \union {NULL}) /\ Len(Queue') = Waiting - 1
    BY <1>0, <1>2 DEF QueueShape
  <2>3. /\ Tail(Queue) \in Seq(Items \union {NULL}) /\ Len(Tail(Queue)) = Waiting - 1
        /\ \A k \in 1 .. Waiting - 1 : Tail(Queue)[k] = Queue[k + 1]
    BY <1>0, <1>2, WaitingRange DEF QueueShape
  <2> QED
    BY <2>1, <2>2, <2>3
<1>5. Queue # <<>> /\ Head(Queue) = store[head]
  BY <1>0, <1>2, WaitingRange, SlotRange, CapacityAssumption DEF QueueShape
<1> QED
  BY <1>1, <1>4, <1>5 DEF Fifo!Deliver

\* Steps that only one side sees, and the write to the free slot, are stutters.
LEMMA PutStoreStep == IInv /\ PutStore => UNCHANGED Fifo!fifoVars
<1> SUFFICES ASSUME IInv, PutStore PROVE UNCHANGED Fifo!fifoVars
  OBVIOUS
<1>1. /\ UNCHANGED <<head, tail, accepted, got>>
      /\ store' = [store EXCEPT ![tail] = prod.item]
      /\ store \in [Slots -> Items \union {NULL}]
  BY DEF IInv, TypeOK, PutStore, consumerVars
<1>2. \A k \in 1 .. Waiting : SlotAt(k - 1) \in Slots \ {tail}
  BY WaitingRange, SlotRange, CapacityAssumption
<1>3. \A k \in 1 .. Waiting : store'[SlotAt(k - 1)] = store[SlotAt(k - 1)]
  BY <1>1, <1>2
<1>4. Waiting' = Waiting /\ \A k : SlotAt(k)' = SlotAt(k)
  BY <1>1 DEF Waiting, SlotAt
<1> QED
  BY <1>1, <1>3, <1>4 DEF Fifo!fifoVars, Queue

LEMMA OtherSteps ==
  ASSUME IInv,
         \/ \E x \in Items : PutCheck(x)
         \/ GetCheck
         \/ GetFetch
         \/ Reset
         \/ UNCHANGED vars
  PROVE  [Fifo!FifoNext]_(Fifo!fifoVars)
<1> USE DEF vars, producerVars, consumerVars
<1>0. Len(Queue) = Waiting /\ (Queue = <<>> <=> head = tail)
  BY QueueIsSeq, WaitingRange, CapacityAssumption DEF QueueShape
<1>1. UNCHANGED <<head, tail, store>> => UNCHANGED Queue
  BY DEF Queue, Waiting, SlotAt
<1>2. CASE \E x \in Items : PutCheck(x)
  BY <1>0, <1>1, <1>2, WaitingRange DEF PutCheck, Fifo!FifoNext, Fifo!fifoVars, Fifo!Refuse
<1>3. CASE GetCheck
  BY <1>0, <1>1, <1>3 DEF GetCheck, Fifo!FifoNext, Fifo!fifoVars, Fifo!FindNothing
<1>4. CASE GetFetch
  BY <1>1, <1>4 DEF GetFetch, Fifo!fifoVars
<1>5. CASE Reset
  <2>1. Waiting' = 0
    BY <1>5 DEF Reset, Waiting
  <2>2. Queue' = <<>>
    BY <2>1 DEF Queue
  <2> QED
    BY <1>5, <2>2 DEF Reset, Fifo!FifoNext, Fifo!Clear
<1>6. CASE UNCHANGED vars
  BY <1>1, <1>6 DEF Fifo!fifoVars
<1> QED
  BY <1>2, <1>3, <1>4, <1>5, <1>6

(* Every interleaving of the interrupt's put with the foreground's get is  *)
(* a behaviour of a bounded FIFO of Capacity - 1 items.                    *)
THEOREM SpscImplementsFifo == Spec => ImplementsFifo
<1>1. Init => Fifo!FifoInit
  <2>1. Init => Waiting = 0
    BY DEF Init, Waiting
  <2>2. Waiting = 0 => Queue = <<>>
    BY DEF Queue
  <2> QED
    BY <2>1, <2>2 DEF Init, Fifo!FifoInit
<1>2. IInv /\ [Next]_vars => [Fifo!FifoNext]_(Fifo!fifoVars)
  <2> SUFFICES ASSUME IInv, [Next]_vars PROVE [Fifo!FifoNext]_(Fifo!fifoVars)
    OBVIOUS
  <2>1. CASE PutAdvance
    <3>1. prod.item \in Items
      BY <2>1 DEF IInv, PutAdvance
    <3> QED
      BY <2>1, <3>1, AcceptStep DEF Fifo!FifoNext
  <2>2. CASE GetAdvance
    BY <2>2, DeliverStep DEF Fifo!FifoNext
  <2>3. CASE PutStore
    BY <2>3, PutStoreStep
  <2> QED
    BY <2>1, <2>2, <2>3, OtherSteps DEF Next, Put, Get
<1> QED
  BY <1>1, <1>2, SpecIInv, PTL DEF Spec, ImplementsFifo, Fifo!FifoSpec
===============================================================================
