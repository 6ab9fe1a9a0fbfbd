----------------------------- MODULE MCPaAlloc -----------------------------
(***************************************************************************)
(* TLC instances of PaAlloc.                                               *)
(***************************************************************************)
EXTENDS PaAlloc
=============================================================================
