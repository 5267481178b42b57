------------------------------ MODULE MuAccessMgr ------------------------------
(***************************************************************************)
(* mulib's access manager (laboratory/mu_access_mgr.c): one owner at a     *)
(* time, the others wait in a queue.  It calls a task inside request,      *)
(* release and reset, and the task may call the manager again before it    *)
(* returns; "calls" is the stack of those calls.                           *)
(*                                                                         *)
(* The pending queue is mu_pqueue, which the repository does not have: a   *)
(* bounded FIFO of pointers with a test for membership and a deletion.     *)
(***************************************************************************)
EXTENDS Naturals, Sequences, SequencesExt

CONSTANTS Clients,     \* the tasks that share the resource
          NoTask,      \* the null pointer
          MaxPending,  \* capacity of the pending queue
          MaxNest,     \* bound: how deep calls of tasks nest
          Resets       \* whether mu_access_mgr_reset is called

ASSUME ClientsAssumption == NoTask \notin Clients

VARIABLES owner, pending, calls

vars == <<owner, pending, calls>>

Init ==   \* mu_access_mgr_init with an empty queue
  /\ owner = NoTask
  /\ pending = <<>>
  /\ calls = <<>>

\* A task that was called acts for itself; the program outside calls for all.
Acts(t) ==
  /\ Len(calls) < MaxNest
  /\ calls # <<>> => Last(calls).task = t

Called(t, by) == calls' = Append(calls, [task |-> t, by |-> by])

Waits(t) == t \in ToSet(pending)

Delete(t) ==
  IF Waits(t)
  THEN \E k \in DOMAIN pending : pending[k] = t /\ pending' = RemoveAt(pending, k)
  ELSE UNCHANGED pending

Enqueue(t) ==
  /\ owner \notin {NoTask, t}
  /\ pending' = IF Len(pending) < MaxPending /\ ~Waits(t) THEN Append(pending, t) ELSE pending
  /\ UNCHANGED <<owner, calls>>

Request(t) ==   \* mu_access_mgr_request_ownership
  /\ Acts(t)
  /\ \/ owner = NoTask /\ owner' = t /\ Called(t, "request") /\ UNCHANGED pending
     \/ owner = t /\ UNCHANGED vars
     \/ Enqueue(t)

\* Fault: the task that came last is served first.
HandOverToLast ==
  IF pending = <<>>
  THEN owner' = NoTask /\ UNCHANGED <<pending, calls>>
  ELSE /\ owner' = Last(pending)
       /\ pending' = Front(pending)
       /\ Called(Last(pending), "release")

\* Fault: the owner leaves without a successor.
HandOverToNone == owner' = NoTask /\ UNCHANGED <<pending, calls>>

HandOver ==
  IF pending = <<>>
  THEN owner' = NoTask /\ UNCHANGED <<pending, calls>>
  ELSE /\ owner' = Head(pending)
       /\ pending' = Tail(pending)
       /\ Called(Head(pending), "release")

Release(t) ==   \* mu_access_mgr_release_ownership
  /\ Acts(t)
  /\ \/ t = owner /\ HandOver
     \/ t # owner /\ Delete(t) /\ UNCHANGED <<owner, calls>>

\* The loop of mu_access_mgr_reset, over what it finds pending each time round.
Trigger(outer) ==
  IF pending = <<>>
  THEN calls' = outer /\ UNCHANGED pending
  ELSE /\ calls' = Append(outer, [task |-> Head(pending), by |-> "reset"])
       /\ pending' = Tail(pending)

Reset ==   \* mu_access_mgr_reset
  /\ Resets
  /\ Len(calls) < MaxNest
  /\ owner' = NoTask
  /\ Trigger(calls)

Return ==   \* a task that was called returns
  /\ calls # <<>>
  /\ IF Last(calls).by = "reset"
     THEN Trigger(Front(calls))
     ELSE calls' = Front(calls) /\ UNCHANGED pending
  /\ UNCHANGED owner

Next == Reset \/ Return \/ \E t \in Clients : Request(t) \/ Release(t)

Spec == Init /\ [][Next]_vars
\* Run to completion: every task that was called returns, those it made the
\* manager call first.
CallsReturn == \A n \in 1 .. MaxNest : SF_vars(Return /\ Len(calls) = n)
FairSpec == Spec /\ CallsReturn

-------------------------------------------------------------------------------
Resetting == \E k \in DOMAIN calls : calls[k].by = "reset"

(* Whatever tasks do inside their calls, nobody waits for a resource that  *)
(* is free, except while a reset is waking those who wait; and nobody      *)
(* waits twice or for what it owns, so that no grant comes twice.          *)
NoIdleWait ==
  /\ owner = NoTask /\ ~Resetting => pending = <<>>
  /\ ~Waits(owner)
  /\ IsInjective(pending)

(* If no owner keeps the resource for ever, everyone who waits is served:  *)
(* newcomers, nested or not, do not overtake.                              *)
WaitersServed ==
  (\A t \in Clients : []<>(owner # t)) => \A t \in Clients : Waits(t) ~> ~Waits(t)

===============================================================================
