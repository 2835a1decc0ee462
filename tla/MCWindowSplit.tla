---------------------------- MODULE MCWindowSplit ----------------------------
(***************************************************************************)
(* A full query of six minutes and an incremental one of two, over four    *)
(* alerts at a limit of two: both halves of a split window can hit the     *)
(* limit again, the depth limit ends one of the queries and the minute     *)
(* limit the other.  The clock runs for less than a minute, so that the    *)
(* seams leave something in between that must not be missed.               *)
(***************************************************************************)
EXTENDS WindowSplit, TLC

CONSTANTS a1, a2, a3, a4

FourAlerts == {a1, a2, a3, a4}
Symmetry == Permutations(FourAlerts)
==============================================================================
