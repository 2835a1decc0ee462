---------------------------- MODULE MCRateProblem ----------------------------
(***************************************************************************)
(* A small instance of RateProblem: a CrowdSec that exports its start time *)
(* and the route counter, and one that exports neither.  Three pieces of   *)
(* work are enough for a counter that falls behind over a restart, four    *)
(* cycles for intervals before, over and after one.                        *)
(***************************************************************************)
EXTENDS RateProblem

NewAndOld == {[start |-> TRUE, route |-> TRUE], [start |-> FALSE, route |-> FALSE]}
=============================================================================
