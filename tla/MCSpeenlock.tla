---------------------------- MODULE MCSpeenlock ----------------------------
(***************************************************************************)
(* TLC instance of Speenlock.  Model values are used for cores and locks:  *)
(* nothing but equality is asked of them.                                  *)
(***************************************************************************)
EXTENDS Speenlock
=============================================================================
