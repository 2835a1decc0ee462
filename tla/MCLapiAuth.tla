----------------------------- MODULE MCLapiAuth -----------------------------
(***************************************************************************)
(* LapiAuth with one alert call and two decision calls (the poll and an IP *)
(* lookup): the fewest that can lose one token together, queue up for the  *)
(* lock and still differ in route.                                         *)
(***************************************************************************)
EXTENDS LapiAuth

CONSTANTS poll, list, lookup

PollCalls == {poll}
ListAndLookup == {list, lookup}
=============================================================================
