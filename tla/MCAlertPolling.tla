--------------------------- MODULE MCAlertPolling ---------------------------
(***************************************************************************)
(* Small instances of AlertPolling.                                        *)
(*                                                                         *)
(* The ban events: two alerts and a cap of one make a burst that the cap   *)
(* splits; alerts age out of a window of one tick.                         *)
(*                                                                         *)
(* The windows: one alert, a minute of two ticks, so that rounding the     *)
(* elapsed time down costs something, and time enough for incremental      *)
(* queries whose window is shorter than the whole one.  Latency and        *)
(* backdating together exceed the overlap: an alert can be overdue.        *)
(*                                                                         *)
(* The liveness: a burst at one moment, over any number of failures, losses, *)
(* reloads and rejected logins.                                            *)
(***************************************************************************)
EXTENDS AlertPolling, TLC

CONSTANTS a1, a2

OneAlert == {a1}
TwoAlerts == {a1, a2}
Symmetry == Permutations(TwoAlerts)
=============================================================================
