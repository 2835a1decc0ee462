---------------------------- MODULE DecisionTable ----------------------------
(***************************************************************************)
(* The table of decisions and the report about one address, built out of   *)
(* what the LAPI enforces and the alerts the coordinator has kept.         *)
(*                                                                         *)
(* An alert is issued with one decision.  A cycle asks for the alerts and  *)
(* for the decisions in parallel: bans are issued, lifted and end between  *)
(* the two answers, and either query may fail.  The LAPI tells the time a  *)
(* decision has left, which is as of its answer; the cached copy of an     *)
(* alert keeps what it was then.  An alert may come without a timestamp,   *)
(* and a decision without its end.  Which alerts of the window an answer   *)
(* holds is the matter of AlertPolling: here it is any part of them.  One  *)
(* clock is everybody's; simulated alerts, unusable objects and the texts  *)
(* of a row are left out.                                                  *)
(***************************************************************************)
EXTENDS Integers, FiniteSets, Sequences

CONSTANTS
    None,           \* unknown
    Targets,        \* addresses and ranges
    Covers(_, _),   \* range, address: does the first contain the second?
    Bans,           \* what may be banned, and what the LAPI tells of it
    Window,         \* alerts older than this are forgotten
    MaxRows,        \* MAX_DECISION_ROWS
    Lag,            \* bound: how long the LAPI still lists a decision that has ended
    MaxTime,        \* bound: the clock
    MaxAlerts       \* bound: alerts

Origins == {"local", "central"}

ASSUME NoneAssumption == None \notin Int
ASSUME BansAssumption ==
    Bans \subseteq [value : Targets, origin : Origins, length : Nat,
                    told : BOOLEAN, dated : BOOLEAN]
ASSUME SpanAssumption == Window \in Nat /\ Lag \in Nat
ASSUME RowsAssumption == MaxRows \in Nat \ {0} /\ MaxTime \in Nat /\ MaxAlerts \in Nat

VARIABLES
    now,
    issued,     \* alerts, the oldest first, with their decision as the LAPI has it
    lifted,     \* decisions that were deleted before their end
    cache,      \* the alerts the coordinator keeps, in the order of its dictionary
    outcome,    \* of the two queries of this cycle
    alerts,     \* what they brought
    decisions,
    upTo,       \* history: the alerts issued when the decisions were answered
    rows,       \* history: the last build_table, before the cut
    table       \* coordinator.data.decisions

lapiVars == <<now, issued, lifted>>
cycleVars == <<outcome, alerts, decisions, upTo>>
tableVars == <<cache, rows, table>>
vars == <<lapiVars, cycleVars, tableVars>>

Queries == {"alerts", "decisions"}
AllOpen == [q \in Queries |-> "open"]

Numbers == 1 .. Len(issued)

-----------------------------------------------------------------------------
(* Order *)

\* A finite set as a sequence, each of two that R relates before the other.
Ranked(S, R) ==
    CHOOSE s \in [1 .. Cardinality(S) -> S] : \A i, j \in DOMAIN s : i < j => <<s[i], s[j]>> \in R

Ascending(S) == {p \in S \X S : p[1] < p[2]}

\* What a sequence holds at some of its places.
At(s, places) ==
    LET order == Ranked(places, Ascending(places))
    IN  [i \in 1 .. Cardinality(places) |-> s[order[i]]]

-----------------------------------------------------------------------------
(* What the LAPI answers *)

\* Ascending numbers as a sequence.
Listed(S) == Ranked(S, Ascending(S))

\* A decision of /v1/decisions; an origins filter need not be honoured.
Decision(i) ==
    LET a == issued[i]
    IN  [id |-> i, value |-> a.value, origin |-> a.origin,
         left |-> IF a.told THEN a.until - now ELSE None]

\* One that has just ended may still be among them.
LiveSets == {{i \in Numbers : issued[i].until > now - late} : late \in 0 .. Lag}

Alert(i) ==
    LET a == issued[i]
    IN  [no |-> i, value |-> a.value, origin |-> a.origin, created |-> a.created,
         left |-> IF a.told THEN a.until - now ELSE None]

-----------------------------------------------------------------------------
(* Alerts by address *)

NoInfo == [created |-> None, alerts |-> 0]

Newer(created, info) == created # None /\ (info.created = None \/ created > info.created)

\* Mutant: the last one in the list describes the address.
WithAlertLast(index, a) ==
    [index EXCEPT ![a.value] = [created |-> a.created, alerts |-> @.alerts + 1]]

\* An older alert only raises the counter.
WithAlert(index, a) ==
    [index EXCEPT ![a.value] =
        [created |-> IF Newer(a.created, @) THEN a.created ELSE @.created,
         alerts |-> @.alerts + 1]]

\* build_source_index.
SourceIndex(cached) ==
    LET index[n \in 0 .. Len(cached)] ==
            IF n = 0 THEN [v \in Targets |-> NoInfo] ELSE WithAlert(index[n - 1], cached[n])
    IN  index[Len(cached)]

-----------------------------------------------------------------------------
(* Rows *)

Status(left) == IF left # None /\ left <= 0 THEN "expired" ELSE "active"

\* normalize_decision.
Record(index, d) ==
    [key |-> <<"id", d.id>>, value |-> d.value, origin |-> d.origin, left |-> d.left,
     status |-> Status(d.left), deletable |-> d.origin = "local",
     created |-> index[d.value].created, alerts |-> index[d.value].alerts]

Records(raw, index) == [i \in DOMAIN raw |-> Record(index, raw[i])]

\* The end of a ban as history_from_alerts reckons it.
Until(a) == IF a.created # None /\ a.left # None THEN a.created + a.left ELSE None

HistoryRow(a) ==
    [key |-> <<"hist", a.value, a.created>>, value |-> a.value, origin |-> a.origin,
     left |-> IF Until(a) = None THEN None ELSE Until(a) - now,
     status |-> "expired", deletable |-> FALSE, created |-> a.created, alerts |-> 0]

Values(records) == {records[i].value : i \in DOMAIN records}
Keys(records) == {records[i].key : i \in DOMAIN records}

\* Mutant: a ban of an unknown end is running.
OverKnown(a, covered) == a.value \notin covered /\ Until(a) # None /\ Until(a) <= now

\* A ban that seems to be running but is not in the list is left out, too.
Over(a, covered) == a.value \notin covered /\ (Until(a) = None \/ Until(a) <= now)

\* history_from_alerts: of those with the same key only the first becomes a row.
History(cached, covered) ==
    LET over == {i \in DOMAIN cached : Over(cached[i], covered)}
        first == {i \in over : \A j \in over :
                     HistoryRow(cached[j]).key = HistoryRow(cached[i]).key => i <= j}
    IN  At([i \in DOMAIN cached |-> HistoryRow(cached[i])], first)

-----------------------------------------------------------------------------
(* The table *)

Local(records) == At(records, {i \in DOMAIN records : records[i].origin = "local"})

\* Mutant: an unknown end is an early one.
BeforeUnknownLast(r, s) ==
    IF r.status # s.status THEN r.status = "active"
    ELSE r.left # None /\ (s.left = None \/ r.left > s.left)

\* The sort key: active first, then by remaining time.  An unknown end is the
\* last of an active row and the first of an expired one.
Before(r, s) ==
    IF r.status # s.status THEN r.status = "active"
    ELSE IF r.left = None \/ s.left = None
    THEN r.left # s.left /\ (r.left = None <=> r.status = "active")
    ELSE r.left > s.left

\* list.sort is stable.
InOrder(records) ==
    {p \in (DOMAIN records) \X (DOMAIN records) :
        \/ Before(records[p[1]], records[p[2]])
        \/ ~Before(records[p[2]], records[p[1]]) /\ p[1] < p[2]}

Sorted(records) ==
    LET order == Ranked(DOMAIN records, InOrder(records))
    IN  [i \in DOMAIN records |-> records[order[i]]]

\* build_table with local_only.
BuildTable(raw, cached) ==
    LET active == Local(Records(raw, SourceIndex(cached)))
    IN  Sorted(active \o Local(History(cached, Values(active))))

Cut(records) == SubSeq(records, 1, IF Len(records) < MaxRows THEN Len(records) ELSE MaxRows)

-----------------------------------------------------------------------------
(* The report about one address *)

\* What /v1/decisions answers with contains=true.
About(target, live) ==
    LET found == Listed({i \in live : Covers(issued[i].value, target)})
    IN  [i \in DOMAIN found |-> Decision(found[i])]

Longer(r, s) == r.left # None /\ (s.left = None \/ r.left > s.left)

\* Mutant: the shortest one decides.
ReportOrderShort(r, s) == Longer(s, r)

\* A decision whose end is unknown goes last.
ReportOrder(r, s) == Longer(r, s)

\* build_ip_report, as far as the decisions go.
Report(target, live) ==
    LET records == Records(About(target, live), SourceIndex(<<>>))
        active == At(records, {i \in DOMAIN records : records[i].status = "active"})
        longest == CHOOSE i \in DOMAIN active :
                      \A j \in DOMAIN active : ~ReportOrder(active[j], active[i])
    IN  [blocked |-> active # <<>>,
         deletable |-> \E i \in DOMAIN active : active[i].deletable,
         left |-> IF active = <<>> THEN None ELSE active[longest].left,
         ranges |-> Values(active) \ {target}]

-----------------------------------------------------------------------------
Init ==
    /\ now = 0 /\ issued = <<>> /\ lifted = {}
    /\ outcome = AllOpen /\ alerts = <<>> /\ decisions = <<>> /\ upTo = 0
    /\ cache = <<>> /\ rows = <<>> /\ table = <<>>

Tick ==
    /\ now < MaxTime
    /\ now' = now + 1
    /\ UNCHANGED <<issued, lifted, cycleVars, tableVars>>

Issue(ban) ==
    /\ Len(issued) < MaxAlerts
    /\ issued' = Append(issued, [value |-> ban.value, origin |-> ban.origin, told |-> ban.told,
                                 created |-> IF ban.dated THEN now ELSE None,
                                 until |-> now + ban.length])
    /\ UNCHANGED <<now, lifted, cycleVars, tableVars>>

\* A decision that is deleted ends at once.
Lift(i) ==
    /\ issued[i].until > now
    /\ issued' = [issued EXCEPT ![i].until = now]
    /\ lifted' = lifted \cup {i}
    /\ UNCHANGED <<now, cycleVars, tableVars>>

-----------------------------------------------------------------------------
(* A cycle *)

Forgotten(a) == a.created # None /\ a.created < now - Window

\* The alerts of the window that the LAPI lists.
InWindow == {i \in Numbers : issued[i].created = None \/ issued[i].created >= now - Window}

AlertsAnswered(found) ==
    /\ outcome["alerts"] = "open"
    /\ outcome' = [outcome EXCEPT !["alerts"] = "ok"]
    \* The newest comes first.
    /\ alerts' = LET order == Ranked(found, {p \in found \X found : p[1] > p[2]})
                 IN  [i \in 1 .. Cardinality(found) |-> Alert(order[i])]
    /\ UNCHANGED <<lapiVars, decisions, upTo, tableVars>>

DecisionsAnswered(live) ==
    /\ outcome["decisions"] = "open"
    /\ outcome' = [outcome EXCEPT !["decisions"] = "ok"]
    /\ decisions' = [i \in 1 .. Cardinality(live) |-> Decision(Listed(live)[i])]
    /\ upTo' = Len(issued)
    /\ UNCHANGED <<lapiVars, alerts, tableVars>>

QueryFails(q) ==
    /\ outcome[q] = "open"
    /\ outcome' = [outcome EXCEPT ![q] = "failed"]
    /\ UNCHANGED <<lapiVars, alerts, decisions, upTo, tableVars>>

\* AlertCache.add: known alerts are overwritten where they are.
Absorb(new) ==
    LET known(a) == {i \in DOMAIN new : new[i].no = a.no}
        kept == [j \in DOMAIN cache |->
                    IF known(cache[j]) = {} THEN cache[j]
                    ELSE new[CHOOSE i \in known(cache[j]) : TRUE]]
        added == {i \in DOMAIN new : \A j \in DOMAIN cache : cache[j].no # new[i].no}
    IN  kept \o At(new, added)

Kept(cached) == At(cached, {i \in DOMAIN cached : ~Forgotten(cached[i])})

\* _absorb_alerts
CacheNext(full) ==
    IF outcome["alerts"] = "ok" THEN Kept(IF full THEN alerts ELSE Absorb(alerts)) ELSE cache

\* Without decisions the table stays as it is, while the cache moves on.
CycleEnds(full) ==
    /\ \A q \in Queries : outcome[q] # "open"
    /\ cache' = CacheNext(full)
    /\ rows' = IF outcome["decisions"] = "ok" THEN BuildTable(decisions, cache') ELSE rows
    /\ table' = IF outcome["decisions"] = "ok" THEN Cut(rows') ELSE table
    /\ outcome' = AllOpen /\ alerts' = <<>> /\ decisions' = <<>> /\ upTo' = 0
    /\ UNCHANGED lapiVars

\* What happens at the LAPI.
World ==
    \/ Tick
    \/ \E ban \in Bans : Issue(ban)
    \/ \E i \in Numbers : Lift(i)

Next ==
    \/ World
    \/ \E found \in SUBSET InWindow : AlertsAnswered(found)
    \/ \E live \in LiveSets : DecisionsAnswered(live)
    \/ \E q \in Queries : QueryFails(q)
    \/ \E full \in BOOLEAN : CycleEnds(full)

Spec == Init /\ [][Next]_vars

-----------------------------------------------------------------------------
(* Properties.  Those of the table are about the steps that build it: until  *)
(* the next one it is kept, while the cache may move on.                     *)

Rebuilt == outcome["decisions"] = "ok" /\ outcome'["decisions"] = "open"

\* The cut takes the rows furthest in the past: none that is cut away is being
\* enforced while an expired one is shown, none has longer to go.
CutTakesThePast ==
    [][Rebuilt => \A i, j \in DOMAIN rows' :
          LET r == rows'[i]
              s == rows'[j]
          IN  r.key \in Keys(table') /\ s.key \notin Keys(table') =>
                  /\ s.status = "active" => r.status = "active"
                  /\ s.status = r.status /\ None \notin {r.left, s.left} => r.left >= s.left
                  /\ s.status = r.status /\ s.left = None
                        => r.left = None \/ r.status = "expired"]_vars

\* No local ban falls between the list and the history of a table that is built:
\* one whose alert is kept has a row for its address, whatever copy of the alert
\* it is and whenever the two answers came.  It was not lifted before its end,
\* no central one took its key, and it was there when the decisions were
\* answered: one issued between the two answers is in neither.
EveryBanShown ==
    [][Rebuilt => \A j \in DOMAIN cache' :
          \/ cache'[j].value \in Values(rows')
          \/ cache'[j].origin = "central"
          \/ cache'[j].no \in lifted
          \/ cache'[j].no > upTo
          \/ \E k \in DOMAIN cache' :
                cache'[k].origin = "central"
                /\ HistoryRow(cache'[k]).key = HistoryRow(cache'[j]).key]_vars

\* In a table that is built, a row of the list is described by the newest alert of
\* its address, in whatever order the alerts were put together, and counts each
\* once.
NewestAlertDescribes ==
    [][Rebuilt => \A i \in DOMAIN rows' : rows'[i].key[1] = "id" =>
          LET mine == {j \in DOMAIN cache' : cache'[j].value = rows'[i].value}
              dated == {cache'[j].created : j \in mine} \ {None}
          IN  /\ IF dated = {} THEN rows'[i].created = None
                 ELSE rows'[i].created \in dated /\ \A c \in dated : c <= rows'[i].created
              /\ rows'[i].alerts = Cardinality({cache'[j].no : j \in mine})]_vars

\* The report tells when the address comes free: it is blocked as long as any
\* decision covers it, and no decision of a known end lasts longer.
ReportAnswers ==
    \A t \in Targets, live \in LiveSets :
        LET covering == {i \in live : Covers(issued[i].value, t)}
            ends == {issued[i].until - now : i \in {c \in covering : issued[c].told}}
            report == Report(t, live)
        IN  /\ report.blocked
                  <=> \E i \in covering : issued[i].until > now \/ ~issued[i].told
            /\ \A e \in ends : e > 0 => report.left # None /\ e <= report.left
=============================================================================
