-------------------------------- MODULE MuTime --------------------------------
(***************************************************************************)
(* mulib's time arithmetic (platform/mu_time.c).  An absolute time is an   *)
(* unsigned machine word that wraps; a relative time is the signed word of *)
(* the same width.  HalfRange is half the range of the word (2^63 in the   *)
(* code: mu_time_abs_t is a uint64_t).                                     *)
(***************************************************************************)
EXTENDS Integers

CONSTANT HalfRange

ASSUME HalfRangeAssumption == HalfRange \in Nat /\ HalfRange >= 1

AbsTime == 0 .. 2 * HalfRange - 1          \* mu_time_abs_t
RelTime == -HalfRange .. HalfRange - 1     \* mu_time_rel_t

\* The word that holds n, and the signed reading of a word.
Wrapped(n) == n % (2 * HalfRange)
Signed(word) == IF word < HalfRange THEN word ELSE word - 2 * HalfRange

Offset(t, dt) == Wrapped(t + dt)
Difference(t1, t2) == Signed(Wrapped(t1 - t2))
Precedes(t1, t2) == Difference(t1, t2) < 0
Follows(t1, t2) == Difference(t1, t2) > 0

(***************************************************************************)
(* Two deadlines, d and e after the same instant t, compare the way d and  *)
(* e do, wherever the counter stands: mu_time_precedes and                 *)
(* mu_time_follows are an order on times that lie in one half range.       *)
(***************************************************************************)
WindowOrder(t, d, e) ==
  d - e \in RelTime =>
    /\ Difference(Offset(t, d), Offset(t, e)) = d - e
    /\ Precedes(Offset(t, d), Offset(t, e)) <=> d < e
    /\ Follows(Offset(t, d), Offset(t, e)) <=> d > e
===============================================================================
