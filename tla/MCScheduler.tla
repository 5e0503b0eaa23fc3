----------------------------- MODULE MCScheduler ----------------------------
(* Two tasks, the second with the longer period. *)
EXTENDS Scheduler

TwoRates == <<2, 4>>
=============================================================================
