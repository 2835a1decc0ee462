--------------------------- MODULE MCDecisionTable ---------------------------
(***************************************************************************)
(* A small instance of DecisionTable: an address and the range around it,  *)
(* two alerts, a table of one row, and a clock on which bans end and their *)
(* alerts are forgotten.  The bans differ in their length: one outlasts    *)
(* another one of its own or of the other target, and its own alert.       *)
(***************************************************************************)
EXTENDS DecisionTable

Networks == {"address", "range"}
Contains(r, a) == r = "range" \/ r = a

Ban(value, origin, length, told, dated) ==
    [value |-> value, origin |-> origin, length |-> length, told |-> told, dated |-> dated]

\* Local bans of either target, whatever is told of them, and a central one that can
\* take the address's key.
BansOfBoth ==
    {Ban("address", "local", 2, told, dated) : told, dated \in BOOLEAN}
    \cup {Ban("range", "local", 1, told, dated) : told, dated \in BOOLEAN}
    \cup {Ban("address", "central", 1, TRUE, TRUE)}

\* No step and no property reads the rows of an earlier cycle.
WithoutRows == <<lapiVars, cycleVars, cache>>
=============================================================================
