-------------------------------- MODULE MuQueue --------------------------------
(***************************************************************************)
(* mulib's linked queue (laboratory/mu_queue.c) on its singly linked list  *)
(* (laboratory/mu_list.c), and a list besides that takes and gives the     *)
(* same items.  The links live in the items, so what a queue or a list     *)
(* holds is what the chain of pointers from its head reaches; the tail     *)
(* points to where the next item of the queue is appended.                 *)
(***************************************************************************)
EXTENDS Naturals, Sequences, FiniteSets

CONSTANTS Items,       \* the list elements of the program
          Null,        \* the null pointer
          First,       \* the queue's head, a list header that is no item
          Loose,       \* the header of the list
          TailDeletes  \* whether mu_queue_delete is called for the last item

ASSUME ItemsAssumption ==
  /\ IsFiniteSet(Items)
  /\ Items \intersect {Null, First, Loose} = {}
  /\ First # Loose /\ Null \notin {First, Loose}

VARIABLES next,  \* the next pointers of the items and of the two headers
          tail   \* tail.next

queueVars == <<next, tail>>

Refs == Items \union {First, Loose}

QueueInit ==   \* mu_queue_init, mu_list_init
  /\ next = [r \in Refs |-> Null]
  /\ tail = Null

\* What the links n become when an item is pushed or popped after ref.
Pushed(n, ref, item) == [n EXCEPT ![item] = n[ref], ![ref] = item]   \* mu_list_push
Popped(n, ref) ==                                                     \* mu_list_pop
  IF n[ref] = Null THEN n ELSE [n EXCEPT ![ref] = n[n[ref]], ![n[ref]] = Null]

\* What mu_list_traverse visits along the links n: path[k] is k links away from the head.
Path(n, head) ==
  LET path[k \in 0 .. Cardinality(Items) + 1] ==
        IF k = 0 THEN head
        ELSE IF path[k - 1] = Null THEN Null ELSE n[path[k - 1]]
  IN  path
Length(n, head) ==   \* mu_list_length
  Cardinality({k \in 1 .. Cardinality(Items) + 1 : Path(n, head)[k] # Null})
Listed(n, head) == [k \in 1 .. Length(n, head) |-> Path(n, head)[k]]
OnList(n, head, item) ==   \* mu_list_find
  \E k \in DOMAIN Listed(n, head) : Listed(n, head)[k] = item

\* mu_list_delete: the links without the item, popped after the one before it.
Deleted(n, head, item) ==
  LET before == {k \in 0 .. Cardinality(Items) :
                   Path(n, head)[k] # Null /\ n[Path(n, head)[k]] = item}
  IN  IF before = {} THEN n ELSE Popped(n, Path(n, head)[CHOOSE k \in before : TRUE])

-------------------------------------------------------------------------------
\* An item is put somewhere only while it is nowhere else.
Unlisted(item) == ~OnList(next, First, item) /\ ~OnList(next, Loose, item)

QueueAppend(item) ==   \* mu_queue_append
  /\ Unlisted(item)
  /\ next' = Pushed([next EXCEPT ![item] = Null], IF tail = Null THEN First ELSE tail, item)
  /\ tail' = item

QueuePrepend(item) ==   \* mu_queue_prepend
  /\ Unlisted(item)
  /\ next' = Pushed(next, First, item)
  /\ tail' = IF tail = Null THEN item ELSE tail

\* Fault: the tail still points to the item that was the last.
QueueRemoveKeepsTail ==
  /\ next' = Popped(next, First)
  /\ UNCHANGED tail

QueueRemove ==   \* mu_queue_remove
  /\ next' = Popped(next, First)
  /\ tail' = IF next'[First] = Null THEN Null ELSE tail

QueueDelete(item) ==   \* mu_queue_delete: mu_list_delete alone, the tail is not looked at
  /\ TailDeletes \/ item # tail
  /\ next' = Deleted(next, First, item)
  /\ UNCHANGED tail

QueueReset ==   \* mu_queue_reset: the loop of removals, none if the queue is empty
  /\ next' = [r \in Refs |-> IF r = First \/ OnList(next, First, r) THEN Null ELSE next[r]]
  /\ tail' = IF next[First] = Null THEN tail ELSE Null

-------------------------------------------------------------------------------
ListPush(item) == Unlisted(item) /\ next' = Pushed(next, Loose, item) /\ UNCHANGED tail
ListPop == next' = Popped(next, Loose) /\ UNCHANGED tail
ListDelete(item) == next' = Deleted(next, Loose, item) /\ UNCHANGED tail

(* mu_list_reverse: the loop of pops and pushes to a header of its own     *)
(* turns every link of the chain round.                                    *)
ListReverse ==
  /\ LET list == Listed(next, Loose)
         Position(r) == CHOOSE k \in DOMAIN list : list[k] = r
     IN  next' = [r \in Refs |->
                    IF r = Loose THEN (IF list = <<>> THEN Null ELSE list[Len(list)])
                    ELSE IF ~OnList(next, Loose, r) THEN next[r]
                    ELSE IF Position(r) = 1 THEN Null ELSE list[Position(r) - 1]]
  /\ UNCHANGED tail

QueueNext ==
  \/ \E item \in Items : QueueAppend(item) \/ QueuePrepend(item) \/ QueueDelete(item)
  \/ QueueRemove \/ QueueReset
  \/ \E item \in Items : ListPush(item) \/ ListDelete(item)
  \/ ListPop \/ ListReverse

QueueSpec == QueueInit /\ [][QueueNext]_queueVars

-------------------------------------------------------------------------------
Line == INSTANCE WaitingLine WITH line <- Listed(next, First), pile <- Listed(next, Loose)

(* No sequence of calls makes the pointers lose, repeat or reorder an item *)
(* or bring one from the queue into the list, as long as the last item of  *)
(* the queue is not deleted: the tail keeps pointing to it.                *)
ImplementsLine == Line!LineSpec

===============================================================================
