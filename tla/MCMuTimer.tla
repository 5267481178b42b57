------------------------------- MODULE MCMuTimer -------------------------------
(* Timers of both kinds on small instances. *)
EXTENDS MuPeriodic

MCDelays == {0, 1}
MCTics == {0, 1}
===============================================================================
