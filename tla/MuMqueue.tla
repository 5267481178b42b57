------------------------------- MODULE MuMqueue -------------------------------
(***************************************************************************)
(* mulib's message queue (core/mu_mqueue.c): a ring kept as the index of   *)
(* the next slot to write and a count.  A put or a get that succeeds calls *)
(* the queue's on_put or on_get task before it returns, and that task may  *)
(* itself put, get, peek or reset: the calls nest.                         *)
(***************************************************************************)
EXTENDS Integers, Sequences

CONSTANTS Capacity,  \* mqueue->capacity
          Items,     \* the pointers callers store
          NULL,      \* the C null pointer; also what an unset slot holds
          OnPut,     \* is mqueue->on_put set?
          OnGet,     \* is mqueue->on_get set?
          MaxNested  \* bound on the depth of nested notifications

ASSUME CapacityAssumption == Capacity \in Nat /\ Capacity >= 1
ASSUME NotifyAssumption == OnPut \in BOOLEAN /\ OnGet \in BOOLEAN /\ MaxNested \in Nat
ASSUME NullAssumption == NULL \notin Items

VARIABLES storage, index, count,  \* the fields of mu_mqueue_t
          calls,     \* notifications in progress, outermost first
          accepted,  \* what the last mu_mqueue_put came to
          element    \* what the last get or peek left in *element

vars == <<storage, index, count, calls, accepted, element>>

Slots == 0 .. Capacity - 1

TypeOK ==
  /\ storage \in [Slots -> Items \union {NULL}]
  /\ index \in Slots
  /\ count \in 0 .. Capacity
  /\ calls \in Seq({"on_put", "on_get"})
  /\ Len(calls) <= MaxNested
  /\ accepted \in BOOLEAN
  /\ element \in Items \union {NULL}

Init ==
  /\ storage = [i \in Slots |-> NULL]
  /\ index = 0
  /\ count = 0
  /\ calls = <<>>
  /\ accepted = TRUE
  /\ element = NULL

\* mu_task_call: a NULL task is ignored, any other runs before the caller resumes.
Notify(isSet, which) ==
  calls' = IF isSet THEN Append(calls, which) ELSE calls

\* Fault: a full queue is not refused.
PutOverwrite(x) ==
  /\ Len(calls) < MaxNested
  /\ storage' = [storage EXCEPT ![index] = x]
  /\ index' = (index + 1) % Capacity
  /\ count' = count + 1
  /\ accepted' = TRUE
  /\ Notify(OnPut, "on_put")
  /\ UNCHANGED element

Put(x) ==
  /\ Len(calls) < MaxNested
  /\ IF count # Capacity
     THEN /\ storage' = [storage EXCEPT ![index] = x]
          /\ index' = (index + 1) % Capacity
          /\ count' = count + 1
          /\ accepted' = TRUE
          /\ Notify(OnPut, "on_put")
     ELSE /\ accepted' = FALSE
          /\ UNCHANGED <<storage, index, count, calls>>
  /\ UNCHANGED element

\* Fault: the subtraction that finds the head is one off.
HeadSlotOffByOne ==
  LET idx == Capacity + index - count + 1
  IN  IF idx > Capacity THEN idx - Capacity ELSE idx

\* (index - count) MOD capacity, in unsigned arithmetic.
HeadSlot ==
  LET idx == Capacity + index - count
  IN  IF idx >= Capacity THEN idx - Capacity ELSE idx

\* Fault: the count is left to a later call when on_get is notified.
GetNotifyFirst ==
  /\ Len(calls) < MaxNested
  /\ IF count # 0
     THEN /\ element' = storage[HeadSlot]
          /\ count' = IF OnGet THEN count ELSE count - 1
          /\ Notify(OnGet, "on_get")
     ELSE element' = NULL /\ UNCHANGED <<count, calls>>
  /\ UNCHANGED <<storage, index, accepted>>

Get ==
  /\ Len(calls) < MaxNested
  /\ IF count # 0
     THEN /\ element' = storage[HeadSlot]
          /\ count' = count - 1
          /\ Notify(OnGet, "on_get")
     ELSE element' = NULL /\ UNCHANGED <<count, calls>>
  /\ UNCHANGED <<storage, index, accepted>>

Peek ==
  /\ element' = IF count # 0 THEN storage[HeadSlot] ELSE NULL
  /\ UNCHANGED <<storage, index, count, calls, accepted>>

Reset ==
  /\ count' = 0
  /\ index' = 0
  /\ UNCHANGED <<storage, calls, accepted, element>>

\* The notified task returns, and with it the put or get that notified it.
Return ==
  /\ calls # <<>>
  /\ calls' = SubSeq(calls, 1, Len(calls) - 1)
  /\ UNCHANGED <<storage, index, count, accepted, element>>

Next == (\E x \in Items : Put(x)) \/ Get \/ Peek \/ Reset \/ Return

Spec == Init /\ [][Next]_vars
-------------------------------------------------------------------------------
(* The elements that wait, oldest first: count slots that end before index. *)

SlotAt(k) == IF HeadSlot + k < Capacity THEN HeadSlot + k ELSE HeadSlot + k - Capacity
Queue == [k \in 1 .. count |-> storage[SlotAt(k - 1)]]

Fifo == INSTANCE BoundedFifo WITH queue <- Queue, Size <- Capacity, got <- element

(* Through any nesting of notifications that use the queue again, it is a  *)
(* bounded FIFO of Capacity elements: index and count never disagree.      *)
ImplementsFifo == Fifo!FifoSpec

(* A notified task finds the change it is told of already made: on_get a   *)
(* queue with room for the put it may be waiting to do, on_put a queue     *)
(* with something to get.                                                  *)
NotifiedAfterChange ==
  [][Len(calls') > Len(calls) =>
       IF calls'[Len(calls')] = "on_get" THEN count' < Capacity ELSE count' > 0]_vars
===============================================================================
