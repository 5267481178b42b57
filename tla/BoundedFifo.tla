------------------------------ MODULE BoundedFifo ------------------------------
(***************************************************************************)
(* What a bounded queue of mulib promises its callers: at most Size items, *)
(* delivered once each in the order they were accepted; a put is refused   *)
(* only when Size items are waiting, a get finds nothing only when none    *)
(* is.  MuSpsc and MuMqueue implement it (mu_spsc has no peek).            *)
(***************************************************************************)
EXTENDS Naturals, Sequences

CONSTANTS Items,   \* what callers may put
          Size,    \* how many items may wait
          NULL     \* what a get that finds nothing delivers

VARIABLES queue,     \* accepted and not yet delivered, oldest first
          accepted,  \* did the last put succeed?
          got        \* what the last get, or look, returned

fifoVars == <<queue, accepted, got>>

FifoInit == queue = <<>> /\ accepted = TRUE /\ got = NULL

Accept(x) ==
  /\ Len(queue) < Size
  /\ queue' = Append(queue, x)
  /\ accepted' = TRUE
  /\ UNCHANGED got

Refuse ==
  /\ Len(queue) = Size
  /\ accepted' = FALSE
  /\ UNCHANGED <<queue, got>>

Deliver ==
  /\ queue # <<>>
  /\ got' = Head(queue)
  /\ queue' = Tail(queue)
  /\ UNCHANGED accepted

Look ==
  /\ queue # <<>>
  /\ got' = Head(queue)
  /\ UNCHANGED <<queue, accepted>>

FindNothing ==
  /\ queue = <<>>
  /\ got' = NULL
  /\ UNCHANGED <<queue, accepted>>

Clear == queue' = <<>> /\ UNCHANGED <<accepted, got>>

FifoNext ==
  \/ \E x \in Items : Accept(x)
  \/ Refuse
  \/ Deliver
  \/ Look
  \/ FindNothing
  \/ Clear

FifoSpec == FifoInit /\ [][FifoNext]_fifoVars
===============================================================================
