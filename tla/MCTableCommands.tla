--------------------------- MODULE MCTableCommands ---------------------------
(***************************************************************************)
(* An instance of TableCommands: an address and a range around it, each    *)
(* with a local decision, a central one of the address, and pages of one   *)
(* row, so that a table of two rows takes two pages.                       *)
(***************************************************************************)
EXTENDS TableCommands

TwoTargets == {"address", "range"}
RangeCovers(v, t) == v = t \/ (v = "range" /\ t = "address")
ThreeDecisions == 1 .. 3
ValueOf(d) == IF d = 2 THEN "range" ELSE "address"
OriginOf(d) == IF d = 3 THEN "central" ELSE "local"
=============================================================================
