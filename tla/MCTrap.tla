------------------------------- MODULE MCTrap -------------------------------
(***************************************************************************)
(* TLC instance of Trap: three functions may be open at once.              *)
(***************************************************************************)
EXTENDS Trap

MCFramePointers == <<"fp_main", "fp_1", "fp_2">>
=============================================================================
