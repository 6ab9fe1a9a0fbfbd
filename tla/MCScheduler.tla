---------------------------- MODULE MCScheduler ----------------------------
(***************************************************************************)
(* TLC instances of Scheduler, with model values for the cores.            *)
(***************************************************************************)
EXTENDS Scheduler
=============================================================================
