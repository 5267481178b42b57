-------------------------------- MODULE MuSpsc --------------------------------
(***************************************************************************)
(* mulib's single-producer single-consumer ring (core/mu_spsc.c), the only *)
(* structure shared between interrupt level and the foreground.  The       *)
(* producer and the consumer are two processes without a lock: each call   *)
(* is split at its accesses to memory the other side reads or writes, so   *)
(* an index read by a check may be stale when the slot is used.            *)
(***************************************************************************)
EXTENDS Integers, Sequences

CONSTANTS Capacity,  \* length of the backing store
          Items,     \* what the producer puts
          NULL       \* the C null pointer; also what an unset slot holds

\* mu_spsc_init refuses any other capacity (uint16_t) with MU_SPSC_ERR_SIZE.
ASSUME CapacityAssumption ==
  /\ Capacity \in Nat
  /\ Capacity >= 2
  /\ \E k \in 1 .. 15 : Capacity = 2 ^ k

ASSUME NullAssumption == NULL \notin Items

VARIABLES head, tail,  \* q->head, q->tail
          store,       \* q->store
          prod,        \* where the producer is in mu_spsc_put, and its item
          cons,        \* where the consumer is in mu_spsc_get, and *item
          accepted,    \* mu_spsc_put's last result: TRUE for MU_SPSC_ERR_NONE
          got          \* what the last mu_spsc_get to return left in *item

producerVars == <<tail, store, prod, accepted>>
consumerVars == <<head, cons, got>>
vars == <<producerVars, consumerVars>>

Slots == 0 .. Capacity - 1

\* Fault: the mask is forgotten.
Next1Unmasked(i) == i + 1

\* (i + 1) & q->mask, the capacity being a power of two.
Next1(i) == (i + 1) % Capacity

TypeOK ==
  /\ head \in Slots
  /\ tail \in Slots
  /\ store \in [Slots -> Items \union {NULL}]
  /\ prod \in [pc : {"ready", "store", "advance"}, item : Items \union {NULL}]
  /\ cons \in [pc : {"ready", "fetch", "advance"}, item : Items \union {NULL}]
  /\ accepted \in BOOLEAN
  /\ got \in Items \union {NULL}

Init ==
  /\ head = 0
  /\ tail = 0
  /\ store = [i \in Slots |-> NULL]
  /\ prod = [pc |-> "ready", item |-> NULL]
  /\ cons = [pc |-> "ready", item |-> NULL]
  /\ accepted = TRUE
  /\ got = NULL

-------------------------------------------------------------------------------
(* mu_spsc_put: read head and compare, write the slot, then publish tail.  *)

\* Fault: the full test lets the last slot be used.
PutCheckLastSlot(x) ==
  /\ prod.pc = "ready"
  /\ prod' = [pc |-> "store", item |-> x]
  /\ UNCHANGED <<tail, store, accepted, consumerVars>>

PutCheck(x) ==
  /\ prod.pc = "ready"
  /\ IF Next1(tail) = head
     THEN accepted' = FALSE /\ UNCHANGED prod
     ELSE prod' = [pc |-> "store", item |-> x] /\ UNCHANGED accepted
  /\ UNCHANGED <<tail, store, consumerVars>>

PutStore ==
  /\ prod.pc = "store"
  /\ store' = [store EXCEPT ![tail] = prod.item]
  /\ prod' = [prod EXCEPT !.pc = "advance"]
  /\ UNCHANGED <<tail, accepted, consumerVars>>

PutAdvance ==
  /\ prod.pc = "advance"
  /\ tail' = Next1(tail)
  /\ accepted' = TRUE
  /\ prod' = [pc |-> "ready", item |-> NULL]
  /\ UNCHANGED <<store, consumerVars>>

-------------------------------------------------------------------------------
(* mu_spsc_get: read tail and compare, read the slot, then release it.     *)

GetCheck ==
  /\ cons.pc = "ready"
  /\ IF head = tail
     THEN cons' = [pc |-> "ready", item |-> NULL] /\ got' = NULL
     ELSE cons' = [cons EXCEPT !.pc = "fetch"] /\ UNCHANGED got
  /\ UNCHANGED <<head, producerVars>>

GetFetch ==
  /\ cons.pc = "fetch"
  /\ cons' = [pc |-> "advance", item |-> store[head]]
  /\ UNCHANGED <<head, got, producerVars>>

\* Fault: the consumer never gives its slot back.
GetAdvanceStuck ==
  /\ cons.pc = "advance"
  /\ got' = cons.item
  /\ cons' = [pc |-> "ready", item |-> NULL]
  /\ UNCHANGED <<head, producerVars>>

GetAdvance ==
  /\ cons.pc = "advance"
  /\ head' = Next1(head)
  /\ got' = cons.item
  /\ cons' = [pc |-> "ready", item |-> NULL]
  /\ UNCHANGED producerVars

-------------------------------------------------------------------------------
\* mu_spsc_reset, "not interrupt safe": called with neither side inside a call.
Reset ==
  /\ prod.pc = "ready"
  /\ cons.pc = "ready"
  /\ head' = 0
  /\ tail' = 0
  /\ UNCHANGED <<store, prod, cons, accepted, got>>

\* Fault: tail is published before the slot is written (a compiler may reorder
\* the two: head and tail are volatile, the store is not).
PutReordered ==
  \/ \E x \in Items : PutCheck(x)
  \/ /\ prod.pc = "store"
     /\ tail' = Next1(tail)
     /\ prod' = [prod EXCEPT !.pc = "advance"]
     /\ UNCHANGED <<store, accepted, consumerVars>>
  \/ /\ prod.pc = "advance"
     /\ store' = [store EXCEPT ![(tail + Capacity - 1) % Capacity] = prod.item]
     /\ accepted' = TRUE
     /\ prod' = [pc |-> "ready", item |-> NULL]
     /\ UNCHANGED <<tail, consumerVars>>

Put == (\E x \in Items : PutCheck(x)) \/ PutStore \/ PutAdvance
Get == GetCheck \/ GetFetch \/ GetAdvance
Next == Put \/ Get \/ Reset

Spec == Init /\ [][Next]_vars

\* The superloop calls mu_spsc_get on every pass (mu_sched_step); interrupts
\* owe nobody a put, but an interrupt handler that has begun one finishes it.
FairSpec == Spec /\ WF_vars(Get) /\ WF_vars(PutStore \/ PutAdvance)

-------------------------------------------------------------------------------
(* The items that wait, oldest first. *)

Waiting == IF tail >= head THEN tail - head ELSE tail - head + Capacity
SlotAt(k) == IF head + k < Capacity THEN head + k ELSE head + k - Capacity
Queue == [k \in 1 .. Waiting |-> store[SlotAt(k - 1)]]

Fifo == INSTANCE BoundedFifo WITH queue <- Queue, Size <- Capacity - 1

(* The lock-free steps implement a bounded FIFO of Capacity - 1 items: no  *)
(* interleaving of an interrupt's put with the foreground's get loses,     *)
(* duplicates, reorders or invents an item, or refuses one that fits.      *)
ImplementsFifo == Fifo!FifoSpec

(* While both sides are inside a call they never touch the same slot: what *)
(* the consumer is about to read, the producer is not about to write.      *)
NoSlotRace ==
  prod.pc \in {"store", "advance"} /\ cons.pc \in {"fetch", "advance"} => head # tail

(* A ring that is full gets room again, so an interrupt is not refused for *)
(* ever as long as the foreground keeps stepping.                          *)
FullDrains == (Next1(tail) = head) ~> (Next1(tail) # head)
===============================================================================
