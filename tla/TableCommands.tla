---------------------------- MODULE TableCommands ----------------------------
(***************************************************************************)
(* The WebSocket commands and services that read and change the bans, the  *)
(* two cards that send them, and the poll that replaces the table while    *)
(* they run.                                                               *)
(*                                                                         *)
(* A decision is a number: the order of the table is ascending, the one    *)
(* with the most time left first.  It is enforced once and never comes     *)
(* back.  Rows of the history, the cap of the table and the texts are      *)
(* module DecisionTable; the entry stays loaded.  One command that changes *)
(* something is under way at a time; loads and lookups overlap.            *)
(***************************************************************************)
EXTENDS Naturals, FiniteSets, Sequences, FiniteSetsExt

CONSTANTS
    Targets,        \* addresses and ranges
    Covers(_, _),   \* range, address: does the first contain the second?
    Decisions,      \* bound: numbers, from 1 on
    Value(_),       \* the target of a decision
    Origin(_),      \* "local" or "central"
    PageSize,       \* DEFAULT_PAGE_SIZE and PAGE_SIZE
    MaxCommands     \* bound: loads, lookups and commands

ASSUME DecisionsAssumption ==
    /\ Decisions \subseteq Nat \ {0} /\ Decisions # {} /\ IsFiniteSet(Decisions)
    /\ \A d \in Decisions : Value(d) \in Targets /\ Origin(d) \in {"local", "central"}
ASSUME PageAssumption == PageSize \in Nat \ {0} /\ MaxCommands \in Nat

Local == {d \in Decisions : Origin(d) = "local"}
Loads == {"user", "unban"}
NoLoad == [phase |-> "none"]
NoCommand == [phase |-> "none"]
NoReport == [target |-> "none"]
Unknown == {0}              \* decisions is None

VARIABLES
    enforced,   \* the decisions in force
    past,       \* those that have ended
    table,      \* coordinator.data.decisions
    cycle,      \* the running update cycle, who started it, what it was answered
    timer,      \* of the debouncer: off, on, or on with a refresh to follow
    load,       \* the bans card's fetchAllDecisions: its own, and that of an unban
    shown,      \* _decisions of the bans card
    command,    \* the ban, unban or service under way
    lookups,    \* addresses the lookup card waits for
    report,     \* _report of the lookup card
    asked,      \* history: the address it has asked about last
    excused,    \* history: another answer was awaited, or the last one never came
    cleared,    \* history: decisions removed with the bans card, seen to be gone
    used        \* the number of commands so far

cards == <<load, shown, command, lookups, report, asked, excused, cleared, used>>
vars == <<enforced, past, table, cycle, timer, cards>>

-----------------------------------------------------------------------------
(* The coordinator and its debouncer *)

Idle == [phase |-> "idle", by |-> "none", snap |-> {}]

\* A refresh that starts cancels the timer.
StartCycle(by) ==
    /\ cycle' = [phase |-> "asking", by |-> by, snap |-> {}]
    /\ timer' = "off"

\* async_request_refresh, as far as it does not wait: the first call runs, one
\* within the cooldown is put off, one during a cycle is dropped.
RequestRefresh(by) ==
    IF timer # "off" THEN timer' = "again" /\ UNCHANGED cycle
    ELSE IF cycle.phase # "idle" THEN UNCHANGED <<cycle, timer>>
    ELSE StartCycle(by)

\* Only the caller that has started the cycle waits for its end.
Waits(by) == cycle.by = by

Poll ==
    /\ cycle = Idle
    /\ StartCycle("poll")
    /\ UNCHANGED <<enforced, past, table, cards>>

TimerEnds ==
    /\ timer # "off"
    /\ IF timer = "again" /\ cycle = Idle
       THEN StartCycle("debouncer")
       ELSE timer' = "off" /\ UNCHANGED cycle
    /\ UNCHANGED <<enforced, past, table, cards>>

CycleAnswered ==
    /\ cycle.phase = "asking"
    /\ cycle' = [cycle EXCEPT !.phase = "answered", !.snap = enforced \cap Local]
    /\ UNCHANGED <<enforced, past, table, timer, cards>>

\* A debounced refresh is followed by the cooldown, however it ends.
CycleOver ==
    /\ cycle' = Idle
    /\ timer' = IF cycle.by = "poll" THEN "off" ELSE "on"

\* The history of the tables that a load has read its pages from.
Watched(l) == load[l].phase = "paging"

CycleEnds ==
    /\ cycle.phase = "answered"
    /\ table' = cycle.snap
    /\ CycleOver
    /\ load' = [l \in Loads |->
                  IF Watched(l) THEN [load[l] EXCEPT !.tables = @ \cup {table'}] ELSE load[l]]
    /\ command' = IF Waits("command") THEN [command EXCEPT !.fresh = TRUE] ELSE command
    /\ UNCHANGED <<enforced, past, shown, lookups, report, asked, excused, cleared, used>>

\* The decisions could not be read: the table is carried over.
CycleFails ==
    /\ cycle.phase = "asking"
    /\ CycleOver
    /\ UNCHANGED <<enforced, past, table, cards>>

-----------------------------------------------------------------------------
(* The LAPI on its own *)

Begin == used < MaxCommands /\ used' = used + 1

\* A scenario, another tool, or a pull from the central API.
Enforce(d) ==
    /\ d \notin enforced \cup past
    /\ enforced' = enforced \cup {d}
    /\ UNCHANGED <<past, table, cycle, timer, cards>>

Lift(S) == enforced' = enforced \ S /\ past' = past \cup S

End(d) ==
    /\ d \in enforced
    /\ Lift({d})
    /\ UNCHANGED <<table, cycle, timer, cards>>

-----------------------------------------------------------------------------
(* The bans card: loading the table *)

\* The table in its order.
Rows(t) ==
    CHOOSE s \in [1 .. Cardinality(t) -> t] : \A i, j \in DOMAIN s : i < j => s[i] < s[j]

\* Mutant: the pages overlap by a row.
PageOverlapping(t, offset) ==
    SubSeq(Rows(t), Max({1, offset}), Min({offset + PageSize, Cardinality(t)}))

Page(t, offset) == SubSeq(Rows(t), offset + 1, Min({offset + PageSize, Cardinality(t)}))

\* _load on opening and with the refresh button, which is disabled meanwhile.
LoadStarts(refresh) ==
    /\ Begin
    /\ load["user"] = NoLoad
    /\ load' = [load EXCEPT !["user"] = [phase |-> "asked"]]
    /\ IF refresh THEN RequestRefresh("load") ELSE UNCHANGED <<cycle, timer>>
    /\ UNCHANGED <<enforced, past, table, shown, command, lookups, report, asked,
                   excused, cleared>>

\* ws_decisions_list without an offset.
FirstPage(l) ==
    /\ load[l].phase = "asked"
    /\ ~Waits("load") \/ l # "user"
    /\ load' = [load EXCEPT ![l] =
                  [phase |-> "paging", rows |-> Page(table, 0), tables |-> {table},
                   total |-> Cardinality(table), dry |-> table = {}]]
    /\ UNCHANGED <<enforced, past, table, cycle, timer, shown, command, lookups, report,
                   asked, excused, cleared, used>>

AllRead(l) == Watched(l) /\ (load[l].dry \/ Len(load[l].rows) >= load[l].total)

NextPage(l) ==
    /\ Watched(l) /\ ~AllRead(l)
    /\ LET page == Page(table, Len(load[l].rows))
       IN  load' = [load EXCEPT ![l].rows = @ \o page, ![l].dry = page = <<>>]
    /\ UNCHANGED <<enforced, past, table, cycle, timer, shown, command, lookups, report,
                   asked, excused, cleared, used>>

\* The end of an unban with the bans card; a load of its own may still overlap.
UnbanShown ==
    /\ command' = NoCommand
    /\ cleared' = IF command.fresh /\ load["user"] = NoLoad
                  THEN cleared \cup command.gone ELSE cleared

LoadEnds(l) ==
    /\ AllRead(l)
    /\ load' = [load EXCEPT ![l] = NoLoad]
    /\ shown' = load[l].rows
    /\ IF l = "unban" THEN UnbanShown ELSE UNCHANGED <<command, cleared>>
    /\ UNCHANGED <<enforced, past, table, cycle, timer, lookups, report, asked, excused, used>>

\* A message is answered with an error: the rows stay.
LoadFails(l) ==
    /\ load[l] # NoLoad
    /\ ~Waits("load") \/ l # "user"
    /\ load' = [load EXCEPT ![l] = NoLoad]
    /\ command' = IF l = "unban" THEN NoCommand ELSE command
    /\ UNCHANGED <<enforced, past, table, cycle, timer, shown, lookups, report, asked,
                   excused, cleared, used>>

-----------------------------------------------------------------------------
(* Commands that change something *)

\* A command in its phase: by row, by address or a ban; of which card, or of none.
\* `seen` is the answer of the live lookup, `gone` what was removed, `fresh`
\* whether its refresh has replaced the table.
Command(kind, card, d, target) ==
    [phase |-> IF kind = "address" /\ card # "service" THEN "checking" ELSE "acting",
     kind |-> kind, card |-> card, decision |-> d, target |-> target,
     seen |-> {}, gone |-> {}, fresh |-> FALSE]

Covering(target) == {d \in enforced : Covers(Value(d), target)}

CommandStarts(kind, card, d, target) ==
    /\ Begin
    /\ command = NoCommand
    /\ command' = Command(kind, card, d, target)
    /\ UNCHANGED <<enforced, past, table, cycle, timer, load, shown, lookups, report,
                   cleared>>

Quiet == UNCHANGED <<asked, excused>>

\* Two answers on their way to the lookup card at once.
Ask(target, awaited) ==
    /\ asked' = target
    /\ excused' = awaited

\* _unban of the bans card: a row's own decision, or all of its address.
UnbanShownRow ==
    \E i \in DOMAIN shown : LET d == shown[i] IN
        /\ \/ CommandStarts("row", "bans", d, Value(d))
           \/ CommandStarts("address", "bans", 0, Value(d))
        /\ Quiet

\* _unbanRow, offered for local rows, and _unban of the lookup card, offered as
\* long as a local row covers the address.
UnbanReported ==
    /\ report # NoReport
    /\ \E d \in report.rows \cap Local :
          \/ CommandStarts("row", "lookup", d, Value(d))
          \/ CommandStarts("address", "lookup", 0, report.target)
    /\ Quiet

\* ws_ip_ban, of an address that is not banned by name; and a service call.
Ban(d) ==
    /\ d \in Local \ (enforced \cup past)
    /\ \/ /\ report # NoReport => report.target = Value(d)
          /\ CommandStarts("ban", "lookup", d, Value(d))
          /\ Ask(Value(d), lookups # {})
       \/ CommandStarts("ban", "service", d, Value(d)) /\ Quiet

\* async_unban: the service takes any address and does not look first.
ServiceUnban(target) ==
    CommandStarts("address", "service", 0, target) /\ Quiet

\* async_refresh of services.py.
ServiceRefresh ==
    /\ Begin
    /\ RequestRefresh("service")
    /\ UNCHANGED <<enforced, past, table, load, shown, command, lookups, report, asked,
                   excused, cleared>>

\* Mutant: the check lets everything through.
CheckedUnguarded(seen) == TRUE

\* blocked and not deletable is refused; a closed route counts as no decisions.
Checked(seen) == seen = Unknown \/ seen = {} \/ seen \cap Local # {}

\* The live lookup of ws_decisions_delete.
CheckAnswered ==
    /\ command.phase = "checking"
    /\ \E seen \in {Covering(command.target), Unknown} :
          command' = IF Checked(seen) THEN [command EXCEPT !.phase = "acting", !.seen = seen]
                                      ELSE NoCommand
    /\ UNCHANGED <<enforced, past, table, cycle, timer, load, shown, lookups, report,
                   asked, excused, cleared, used>>

\* What the request removes: by id one decision, by address those of its name.
Removed ==
    CASE command.kind = "row" -> {command.decision} \cap enforced
      [] command.kind = "address" -> {d \in enforced : Value(d) = command.target}
      [] OTHER -> {}

Placed == IF command.kind = "ban" THEN {command.decision} \ past ELSE {}

\* The LAPI carries out the request.
Act == enforced' = (enforced \ Removed) \cup Placed /\ past' = past \cup Removed

\* Mutant: the table is read before the refresh has run.
ActedAhead ==
    /\ command.phase = "acting"
    /\ Act
    /\ command' = [command EXCEPT !.phase = "refreshed", !.gone = Removed, !.fresh = TRUE]
    /\ UNCHANGED <<table, cycle, timer, load, shown, lookups, report, asked, excused,
                   cleared, used>>

\* The guard on the table only stops rows that are not local, which it has none
\* of; a refresh is requested once the LAPI has answered.
Acted ==
    /\ command.phase = "acting"
    /\ Act
    /\ command' = [command EXCEPT !.phase = "refreshed", !.gone = Removed]
    /\ RequestRefresh("command")
    /\ UNCHANGED <<table, load, shown, lookups, report, asked, excused, cleared, used>>

\* The check or the request failed; the LAPI may have carried it out all the same.
CommandFails ==
    /\ command.phase \in {"checking", "acting"}
    /\ command' = NoCommand
    /\ \/ command.phase = "acting" /\ Act
       \/ UNCHANGED <<enforced, past>>
    /\ UNCHANGED <<table, cycle, timer, load, shown, lookups, report, asked, excused,
                   cleared, used>>

Refreshed(card) == command.phase = "refreshed" /\ ~Waits("command") /\ command.card = card

ServiceDone ==
    /\ Refreshed("service")
    /\ command' = NoCommand
    /\ UNCHANGED <<enforced, past, table, cycle, timer, load, shown, lookups, report,
                   asked, excused, cleared, used>>

\* The first page of the table comes back; a longer table is loaded anew.
UnbanAnswered ==
    /\ Refreshed("bans")
    /\ IF Cardinality(table) > Len(Page(table, 0))
       THEN /\ load' = [load EXCEPT !["unban"] = [phase |-> "asked"]]
            /\ command' = [command EXCEPT !.phase = "loading"]
            /\ UNCHANGED <<shown, cleared>>
       ELSE /\ shown' = Page(table, 0)
            /\ UnbanShown
            /\ UNCHANGED load
    /\ UNCHANGED <<enforced, past, table, cycle, timer, lookups, report, asked, excused, used>>

\* The lookup card asks again, about the row's own address; `busy` keeps the
\* buttons disabled, not the search box.
AskedAgain ==
    /\ Refreshed("lookup") /\ command.kind # "ban"
    /\ command' = [command EXCEPT !.phase = "reading"]
    /\ Ask(command.target, lookups # {})
    /\ UNCHANGED <<enforced, past, table, cycle, timer, load, shown, lookups, report,
                   cleared, used>>

-----------------------------------------------------------------------------
(* The lookup card *)

Report(target, told, standing) ==
    LET rows == IF told THEN Covering(target) ELSE {}
    IN  [target |-> target, told |-> told, blocked |-> rows # {}, rows |-> rows,
         standing |-> {d \in standing : Covers(Value(d), target)}]

\* Mutant: a read-back that failed counts as no decisions.
ReadBackGuessing(target, standing) ==
    {Report(target, TRUE, standing), [Report(target, FALSE, standing) EXCEPT !.told = TRUE]}

\* ws_ip_ban does not fail over the read-back, it flags it.
ReadBack(target, standing) == {Report(target, told, standing) : told \in BOOLEAN}

\* A ban reads the state back after the refresh.
BanAnswered ==
    /\ Refreshed("lookup") /\ command.kind = "ban"
    /\ report' \in ReadBack(command.target, {command.decision} \cap enforced)
    /\ command' = NoCommand
    /\ UNCHANGED <<enforced, past, table, cycle, timer, load, shown, lookups,
                   asked, excused, cleared, used>>

Lookup(target) ==
    /\ Begin
    /\ target \notin lookups
    /\ lookups' = lookups \cup {target}
    /\ Ask(target, lookups # {} \/ (command # NoCommand /\ command.card = "lookup"))
    /\ UNCHANGED <<enforced, past, table, cycle, timer, load, shown, command, report,
                   cleared>>

\* ws_ip_lookup: a closed route is told apart from nothing found, a failed one is
\* an error, and takes the previous answer away.
LookupAnswered(target) ==
    /\ target \in lookups
    /\ lookups' = lookups \ {target}
    /\ report' \in {Report(target, told, enforced) : told \in BOOLEAN} \cup {NoReport}
    /\ UNCHANGED <<enforced, past, table, cycle, timer, load, shown, command, asked,
                   excused, cleared, used>>

\* Here it does not take it away.
UnbanLookupAnswered ==
    /\ command.phase = "reading"
    /\ command' = NoCommand
    /\ \/ /\ report' \in {Report(command.target, told, enforced) : told \in BOOLEAN}
          /\ UNCHANGED excused
       \/ excused' = TRUE /\ UNCHANGED report
    /\ UNCHANGED <<enforced, past, table, cycle, timer, load, shown, lookups, asked,
                   cleared, used>>

-----------------------------------------------------------------------------
\* Bound: one decision is still to come.  Both cards are open: the one has loaded
\* the table, the other has an answer.
Init ==
    /\ \E d \in Decisions : enforced = Decisions \ {d}
    /\ past = {}
    /\ table = enforced \cap Local
    /\ cycle = Idle /\ timer = "off"
    /\ load = [l \in Loads |-> NoLoad] /\ shown = Rows(table)
    /\ command = NoCommand
    /\ lookups = {} /\ asked \in Targets
    /\ report = Report(asked, TRUE, enforced)
    /\ excused = FALSE /\ cleared = {} /\ used = 0

Next ==
    \/ Poll \/ TimerEnds \/ CycleAnswered \/ CycleEnds \/ CycleFails
    \/ \E d \in Decisions : Enforce(d) \/ End(d) \/ Ban(d)
    \/ \E refresh \in BOOLEAN : LoadStarts(refresh)
    \/ \E l \in Loads : FirstPage(l) \/ NextPage(l) \/ LoadEnds(l) \/ LoadFails(l)
    \/ UnbanShownRow \/ UnbanReported
    \/ \E t \in Targets : ServiceUnban(t) \/ Lookup(t) \/ LookupAnswered(t)
    \/ ServiceRefresh
    \/ CheckAnswered \/ Acted \/ CommandFails
    \/ ServiceDone \/ UnbanAnswered \/ AskedAgain \/ BanAnswered \/ UnbanLookupAnswered

Spec == Init /\ [][Next]_vars

-----------------------------------------------------------------------------
(* Properties *)

Place(t, d) == Cardinality({e \in t : e < d})

\* A row that kept its place in every table the pages were cut from is among them
\* once: whatever was lost or doubled had a row before it come or go meanwhile.
RowsAtTheirPlace ==
    \A l \in Loads : AllRead(l) =>
        \A d \in Decisions :
            (/\ \A t \in load[l].tables : d \in t
             /\ \A t, u \in load[l].tables : Place(t, d) = Place(u, d))
            => Cardinality({i \in DOMAIN load[l].rows : load[l].rows[i] = d}) = 1

\* A row that was removed with the card, with a refresh that has read the list
\* after it and no other load on its way, does not come back.
RemovedStaysAway == \A i \in DOMAIN shown : shown[i] \notin cleared

\* The cards take a central decision away only by address, and then together with
\* a local one, unless it came after the check or the LAPI would not tell.
CentralKept ==
    command.phase = "refreshed" /\ command.card # "service" =>
        \A d \in command.gone \ Local :
            /\ command.kind = "address"
            /\ command.seen = Unknown \/ d \notin command.seen \/ command.seen \cap Local # {}

\* What the lookup card says is about the address it has asked about last, unless
\* two answers overtook each other; and it does not call an address free while a
\* decision that covers it was in force all along.
ReportHonest ==
    report # NoReport =>
        /\ lookups = {} /\ ~(command # NoCommand /\ command.card = "lookup")
              => report.target = asked \/ excused
        /\ report.told /\ ~report.blocked => report.standing = {}
=============================================================================
