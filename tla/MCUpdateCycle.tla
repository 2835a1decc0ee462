---------------------------- MODULE MCUpdateCycle ----------------------------
(***************************************************************************)
(* An instance of UpdateCycle.  Four cycles are enough for a value that is *)
(* carried over twice and read again, under an issue that comes and goes.  *)
(***************************************************************************)
EXTENDS UpdateCycle
=============================================================================
