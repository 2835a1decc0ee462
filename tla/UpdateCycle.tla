----------------------------- MODULE UpdateCycle -----------------------------
(***************************************************************************)
(* One update cycle of the coordinator: three queries that run in parallel *)
(* and fail independently, the routing of their errors, the values carried *)
(* over from cycles before, and the repair issue that asks for a bouncer   *)
(* key.                                                                    *)
(*                                                                         *)
(* Of a value only its age is kept: the number of the cycle it was read    *)
(* in.  The alerts themselves are module AlertPolling, the requests behind *)
(* a query LapiAuth, rates and the other reasons of a problem RateProblem. *)
(***************************************************************************)
EXTENDS Naturals

CONSTANT MaxCycles      \* bound: cycles

ASSUME CyclesAssumption == MaxCycles \in Nat

Queries == {"metrics", "alerts", "decisions"}
Results == {"ok", "none", "failed", "login", "crash"}
NoCycle == [no |-> 0]
NoData == [no |-> 0, ok |-> {}]
Answers == [no : Nat, metrics : Results, alerts : Results, decisions : Results,
            need : BOOLEAN]
Data == [no : Nat, ok : SUBSET Queries, errors : SUBSET Queries,
         lastUpdate : Nat, lastRestart : Nat, lastAlert : Nat, decisions : Nat,
         closed : BOOLEAN, overruled : BOOLEAN]

VARIABLES
    hasKey,     \* the entry holds a bouncer key
    needKey,    \* client.decisions_need_bouncer_key
    cycles,     \* the number of cycles started
    answers,    \* results of the running cycle's asyncio.gather
    lost,       \* history: the queries the last cycle has no answer of, unless it
                \* met something unexpected
    reported,   \* _bouncer_key_reported
    data,       \* coordinator.data
    polling,    \* the next cycle is scheduled
    issue       \* the registry holds decisions_unavailable of this entry

vars == <<hasKey, needKey, cycles, answers, lost, reported, data, polling, issue>>

-----------------------------------------------------------------------------
(* The queries *)

\* What async_get_decisions comes to, and the verdict it leaves behind.  The
\* machine is served; or it is denied the route, which a refused login counts as,
\* and the bouncer key is asked if there is one.  "none" stands for None: no key,
\* or a 404 to the bouncer.
Decisions ==
    {[got |-> g, need |-> needKey] : g \in {"failed", "crash"}}
      \cup {[got |-> g, need |-> FALSE] : g \in {"ok", "failed"}}
      \cup IF hasKey THEN {[got |-> g, need |-> needKey] : g \in {"ok", "none"}}
                     ELSE {[got |-> "none", need |-> TRUE]}

-----------------------------------------------------------------------------
(* The evaluation of a cycle *)

\* _unwrap passes a rejected login and anything unexpected on.
Unexpected == \E q \in Queries : answers[q] = "crash"
Raises == Unexpected \/ answers.alerts = "login"

Answered(q) == answers[q] = "ok"
Errors == {q \in Queries : answers[q] = "failed"}

Old(field) == IF data = NoData THEN 0 ELSE data[field]

Age(q, field) == IF Answered(q) THEN answers.no ELSE Old(field)

\* Mutant: one answer is enough.
LastUpdateOfReachable ==
    IF \E q \in Queries : Answered(q) THEN answers.no ELSE Old("lastUpdate")

LastUpdate == IF Errors = {} THEN answers.no ELSE Old("lastUpdate")

\* Mutant: only an unreachable instance is a problem.
ReasonsOfOutage == IF \E q \in Queries : Answered(q) THEN {} ELSE Errors

\* The part of problem_reasons that comes from the queries.
Reasons == Errors

\* CrowdSecData.  The last two fields are history: whether the decision route
\* has been closed since the table was read, and whether a lookup overruled the
\* cycle's verdict.
NewData ==
    [no |-> answers.no,
     ok |-> {q \in Queries : Answered(q)},
     errors |-> Reasons,
     lastUpdate |-> LastUpdate,
     lastRestart |-> Age("metrics", "lastRestart"),
     lastAlert |-> Age("alerts", "lastAlert"),
     decisions |-> Age("decisions", "decisions"),
     closed |-> /\ ~Answered("decisions")
                /\ answers.decisions = "none" \/ (data # NoData /\ data.closed),
     overruled |-> answers.need # needKey]

\* CrowdSecSensor.available of a measured value.
Available(q) == data # NoData /\ q \in data.ok

-----------------------------------------------------------------------------
Init ==
    /\ hasKey \in BOOLEAN /\ needKey = FALSE
    /\ cycles = 0 /\ answers = NoCycle /\ lost = {}
    /\ reported = FALSE /\ data = NoData /\ polling = TRUE
    /\ issue = FALSE

\* asyncio.gather has all three results.
Gather ==
    /\ polling /\ answers = NoCycle
    /\ cycles < MaxCycles
    /\ cycles' = cycles + 1
    /\ \E m \in {"ok", "failed", "crash"},
          a \in {"ok", "failed", "login", "crash"},
          d \in Decisions :
          /\ needKey' = d.need
          /\ answers' = [no |-> cycles', metrics |-> m, alerts |-> a,
                         decisions |-> d.got, need |-> d.need]
    /\ UNCHANGED <<hasKey, lost, reported, data, polling, issue>>

\* Mutant: the issue is registered for the first need only.
ReportMissingKeyOnce ==
    /\ reported' = (reported \/ needKey)
    /\ issue' = IF needKey = reported THEN issue ELSE needKey

\* _report_missing_bouncer_key.
ReportMissingKey ==
    /\ reported' = needKey
    /\ issue' = IF needKey = reported THEN issue ELSE needKey

\* The rest of _async_update_data does not await.
CycleEnds ==
    /\ answers # NoCycle /\ ~Raises
    /\ data' = NewData
    /\ lost' = {q \in Queries : ~Answered(q)}
    /\ ReportMissingKey
    /\ answers' = NoCycle
    /\ UNCHANGED <<hasKey, needKey, cycles, polling>>

\* A new coordinator with a new client.
Forget ==
    /\ needKey' = FALSE
    /\ answers' = NoCycle /\ lost' = {}
    /\ reported' = FALSE /\ data' = NoData /\ polling' = TRUE
    /\ UNCHANGED cycles

\* Mutant: the first cycle is like any other.
CycleRaisesWithoutRetry ==
    /\ answers # NoCycle /\ Raises
    /\ answers' = NoCycle
    /\ lost' = {q \in Queries : ~Answered(q)}
    /\ polling' = (answers.metrics = "crash" \/ answers.alerts # "login")
    /\ UNCHANGED <<hasKey, needKey, cycles, reported, data, issue>>

\* The first result that raises, in the order of _unwrap: a rejected login stops
\* the polling until the credentials are new, anything unexpected ends this cycle
\* only.  Before there is data, the setup starts over.
CycleRaises ==
    /\ answers # NoCycle /\ Raises
    /\ IF data = NoData
       THEN Forget
       ELSE /\ answers' = NoCycle
            /\ lost' = IF Unexpected THEN {} ELSE {q \in Queries : ~Answered(q)}
            /\ polling' = (answers.metrics = "crash" \/ answers.alerts # "login")
            /\ UNCHANGED <<needKey, cycles, reported, data>>
    /\ UNCHANGED <<hasKey, issue>>

\* A lookup of the card asks the same client, between the cycles or during one.
Lookup ==
    /\ data # NoData
    /\ \E d \in Decisions : needKey' = d.need
    /\ UNCHANGED <<hasKey, cycles, answers, lost, reported, data, polling, issue>>

\* Options, reauth or reconfiguration: a reload, perhaps with another key.
ReloadEntry ==
    /\ Forget
    /\ hasKey' \in BOOLEAN
    /\ UNCHANGED issue

\* BouncerKeyRepairFlow: the key has been accepted and stored, the entry is
\* reloaded, and Home Assistant drops the issue of a flow that is done.
RepairKey ==
    /\ issue
    /\ Forget
    /\ hasKey' = TRUE
    /\ issue' = FALSE

RestartHomeAssistant ==
    /\ Forget
    /\ issue' = FALSE
    /\ UNCHANGED hasKey

Next ==
    \/ Gather
    \/ CycleEnds
    \/ CycleRaises
    \/ Lookup
    \/ ReloadEntry
    \/ RepairKey
    \/ RestartHomeAssistant

Spec == Init /\ [][Next]_vars

-----------------------------------------------------------------------------
(* Properties *)

\* The type invariant: nothing is newer than the cycle, and polling stops only
\* once there is data.
TypeOK ==
    /\ hasKey \in BOOLEAN /\ needKey \in BOOLEAN
    /\ cycles \in 0 .. MaxCycles
    /\ answers = NoCycle \/ (answers \in Answers /\ answers.no = cycles)
    /\ lost \subseteq Queries
    /\ reported \in BOOLEAN
    /\ data = NoData \/ (data \in Data /\ data.no \in 1 .. cycles)
    /\ polling \/ data # NoData
    /\ polling \in BOOLEAN /\ issue \in BOOLEAN

\* `last_update` is what automations compare against to spot stale values: all
\* that is shown was read in that cycle or later, over any chain of cycles that
\* carried values over.  The one exception is the table once the decision route
\* has been closed, which counts as no error.
LastUpdateCovers ==
    data # NoData =>
        /\ data.lastUpdate <= data.lastRestart
        /\ data.lastUpdate <= data.lastAlert
        /\ data.lastUpdate <= data.decisions \/ data.closed

\* A query that was lost shows: in the problem flag, or, for the decision route
\* that is closed to machines, in the repair issue.  A 404 to the bouncer counts
\* as nothing there, and a lookup may overrule the cycle's own verdict.
NothingFailsSilently ==
    data # NoData =>
        \A q \in Queries \ data.ok :
            \/ q \in data.errors
            \/ q = "decisions" /\ (issue \/ hasKey \/ data.overruled)

\* A key that is needed is asked for: what the coordinator takes for reported is
\* in the registry, over reloads, repairs and restarts.
KeyIssueShown == reported => issue

-----------------------------------------------------------------------------
(* What the documentation says and the code does not do *)

\* README.md:436 "If a query fails, the measured values that come from it go
\* `unavailable`": none is available after a cycle that lost its query.
NoStaleValues == \A q \in {"metrics", "alerts"} \cap lost : ~Available(q)
=============================================================================
