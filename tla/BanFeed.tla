------------------------------- MODULE BanFeed -------------------------------
(***************************************************************************)
(* What the ban events promise to the automations that listen to them:     *)
(* silence when a coordinator starts following the alerts, at most a few   *)
(* events at a time, none twice, and nothing that is owed is dropped.      *)
(*                                                                         *)
(* An alert is gone once it has left the window, or an answer has left it  *)
(* out: such a one may be lost, and such a one may be taken for new again. *)
(***************************************************************************)
EXTENDS Naturals, FiniteSets

CONSTANTS
    Alerts,
    Cap             \* events at a time

VARIABLES
    bans,       \* alerts that carry a ban
    gone,       \* alerts that have been out of sight
    following,  \* the alerts are being followed
    owed,       \* bans that wait for their event
    announced,  \* bans that have had it
    silenced    \* bans that were there when the following began

vars == <<bans, gone, following, owed, announced, silenced>>

Init ==
    /\ bans = {} /\ gone = {} /\ following = FALSE
    /\ owed = {} /\ announced = {} /\ silenced = {}

\* More bans, and more that goes out of sight.
Change ==
    /\ bans' \in SUBSET Alerts /\ bans \subseteq bans'
    /\ gone' \in SUBSET Alerts /\ gone \subseteq gone'
    /\ UNCHANGED <<following, owed, announced, silenced>>

\* What is there is not announced.
Begin ==
    /\ ~following /\ following'
    /\ \E quiet \in SUBSET bans : silenced' = silenced \cup quiet
    /\ UNCHANGED <<bans, gone, owed, announced>>

\* Whatever is due has its event now or stays owed, and the cap is used up
\* before anything has to wait.
Announce ==
    /\ following
    /\ \E due \in SUBSET bans : \E out \in SUBSET due :
          /\ owed \ gone \subseteq due
          /\ due \cap announced \subseteq gone
          /\ out = due \/ Cardinality(out) = Cap
          /\ Cardinality(out) <= Cap
          /\ announced' = announced \cup out
          /\ owed' = due \ out
    /\ UNCHANGED <<bans, gone, following, silenced>>

\* A restart: what was owed will be there when the following begins again.
Stop ==
    /\ following' = FALSE /\ owed' = {}
    /\ UNCHANGED <<bans, gone, announced, silenced>>

Next == Change \/ Begin \/ Announce \/ Stop

Spec == Init /\ [][Next]_vars
=============================================================================
