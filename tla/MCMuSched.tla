------------------------------- MODULE MCMuSched -------------------------------
(* The scheduler on small instances. *)
EXTENDS MuSched

\* Now or a tick later.
MCDelays == {0, 1}
===============================================================================
