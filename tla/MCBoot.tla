------------------------------- MODULE MCBoot -------------------------------
(***************************************************************************)
(* TLC instances of Boot.                                                  *)
(***************************************************************************)
EXTENDS Boot
=============================================================================
