------------------------------ MODULE MCTimer ------------------------------
(***************************************************************************)
(* TLC instance of Timer.                                                  *)
(***************************************************************************)
EXTENDS Timer
=============================================================================
