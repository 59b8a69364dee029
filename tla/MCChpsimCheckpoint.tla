------------------------- MODULE MCChpsimCheckpoint -------------------------
(***************************************************************************)
(* A stream of values, saved and loaded.                                   *)
(***************************************************************************)
EXTENDS ChpsimCheckpoint, MCChpsim
=============================================================================
