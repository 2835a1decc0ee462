----------------------------- MODULE RateProblem -----------------------------
(***************************************************************************)
(* The rates between two scrapes of CrowdSec's counters and the problem    *)
(* flag that is raised on them: RateTracker, _apply_metrics and            *)
(* _evaluate_problem, while CrowdSec works, restarts and changes version,  *)
(* and cycles fail or are thrown away.                                     *)
(*                                                                         *)
(* A cycle is one step: its scrape is a snapshot, and what happens after   *)
(* it belongs to the next interval.  Every cycle takes time, so the test   *)
(* for an elapsed time of zero is left out, and so is the division by it:  *)
(* a rate is the increase of a counter.  The other half of the cycle is    *)
(* module UpdateCycle.                                                     *)
(***************************************************************************)
EXTENDS Integers

CONSTANTS
    Missing,        \* the value of a counter or start time that is None
    Versions,       \* CrowdSec versions: do they export their start time, and
                    \* the counter of all route requests?
    Threshold,      \* percent of unparsed lines that is a problem
    IdleLimit,      \* intervals without a bouncer query that are a problem
    MaxWork,        \* bound: lines and bouncer queries of all runs of CrowdSec
    MaxRuns,        \* bound: runs of CrowdSec
    MaxCycles       \* bound: cycles

ASSUME VersionAssumption == Versions \subseteq [start : BOOLEAN, route : BOOLEAN]
ASSUME MissingAssumption == Missing \notin Int
ASSUME LimitAssumption == IdleLimit \in Nat \ {0} /\ Threshold \in 0 .. 100
ASSUME BoundAssumption == MaxWork \in Nat /\ MaxRuns \in Nat /\ MaxCycles \in Nat

\* Lines that are parsed or not, bouncer queries with a decision or without, and
\* the decision queries of the integration itself.
Work == {"ok", "ko", "hit", "miss", "own"}
CounterNames == {"lines", "parse_ok", "parse_ko", "bouncer"}
Readings == [CounterNames -> Nat \cup {Missing}]
Samples == [counters : Readings, start : Nat \cup {Missing}, at : [Work -> Nat], run : Nat]
Nothing == [c \in CounterNames |-> Missing]
Zero == [w \in Work |-> 0]

VARIABLES
    ever,       \* history: what CrowdSec has counted over all of its runs
    birth,      \* `ever` at its last start: the counters export the difference
    run,        \* the number of its current run
    version,    \* its version
    cycles,     \* the number of cycles
    tracker,    \* _rates: the last measurement
    traffic,    \* _seen_traffic
    idle,       \* _bouncer_idle_cycles
    window,     \* the rates of the last cycle
    reasons,    \* problem_reasons of the last cycle
    compared,   \* history: the run of the sample before, and what was read since
    calm,       \* history: measured intervals on end in which no bouncer asked
    quiet       \* history: measured intervals of this coordinator since one in
                \* which a bouncer asked, as far as the start times tell

engineVars == <<ever, birth, run, version>>
coordVars == <<tracker, traffic, idle, window, reasons, compared, calm, quiet>>
vars == <<engineVars, cycles, coordVars>>

-----------------------------------------------------------------------------
(* Metrics *)

Count(w) == ever[w] - birth[w]

\* The counters _apply_metrics takes from a scrape.  A family CrowdSec has never
\* incremented is missing, except the routes: no scrape without a request before.
\* The integration's own decision query is on the routes of the bouncers' ones.
\* The older counters know bouncers only, and count as missing for as long as
\* none of their queries came back empty.
Counters ==
    LET value == [lines |-> Count("ok") + Count("ko"),
                  parse_ok |-> Count("ok"),
                  parse_ko |-> Count("ko"),
                  bouncer |-> Count("hit") + Count("miss")
                                + IF version.route THEN Count("own") ELSE 0]
        present == {c \in CounterNames :
                      IF c = "bouncer" THEN version.route \/ Count("miss") > 0
                                       ELSE value[c] > 0}
    IN  [c \in CounterNames |-> IF c \in present THEN value[c] ELSE Missing]

Sample == [counters |-> Counters, start |-> IF version.start THEN run ELSE Missing,
           at |-> ever, run |-> run]

\* RateTracker.reset.
NoSample == [counters |-> Nothing, start |-> Missing, at |-> Zero, run |-> 0]

-----------------------------------------------------------------------------
(* Rates *)

Restarted(old, new) ==
    old.start # Missing /\ new.start # Missing /\ old.start # new.start

Common(old, new) ==
    {c \in CounterNames : old.counters[c] # Missing /\ new.counters[c] # Missing}

JumpedBack(old, new) == \E c \in Common(old, new) : new.counters[c] < old.counters[c]

Deltas(old, new) ==
    [c \in CounterNames |->
        IF c \in Common(old, new) THEN new.counters[c] - old.counters[c] ELSE Missing]

\* Mutant: the start times are not compared.
WindowOverRestarts(old, new) ==
    IF JumpedBack(old, new) THEN Nothing ELSE Deltas(old, new)

\* Mutant: a counter that jumped back is not noticed.
WindowBackwards(old, new) ==
    IF Restarted(old, new) THEN Nothing ELSE Deltas(old, new)

\* RateTracker.update: the deltas, or none at all if they cannot be trusted.
RateWindow(old, new) ==
    IF Restarted(old, new) \/ JumpedBack(old, new) THEN Nothing ELSE Deltas(old, new)

-----------------------------------------------------------------------------
(* The problem flag *)

Known(f, c) == IF f[c] = Missing THEN 0 ELSE f[c]
Lines(f) == Known(f, "parse_ok") + Known(f, "parse_ko")

\* Mutant: of the interval only, which may have no lines.
ShareOfInterval(deltas, counters) == deltas

\* parse_error_rate: of the interval, or of the whole runtime if it has no lines.
Share(deltas, counters) == IF Lines(deltas) > 0 THEN deltas ELSE counters

\* error_ratio against the threshold.
ManyUnparsed(f) == Lines(f) > 0 /\ 100 * Known(f, "parse_ko") > Threshold * Lines(f)

Still(deltas, c) == deltas[c] = 0
Moved(deltas, c) == deltas[c] # Missing /\ deltas[c] > 0

\* Mutant: an interval that could not be measured counts as idle, too.
IdleCyclesUnmeasured(deltas) == IF Moved(deltas, "bouncer") THEN 0 ELSE idle + 1

IdleCycles(deltas) ==
    IF Moved(deltas, "bouncer") THEN 0
    ELSE IF Still(deltas, "bouncer") THEN idle + 1 ELSE idle

\* _evaluate_problem; "error" stands for the texts of the queries that failed.
Reasons(deltas, counters, errors) ==
    {r \in {"error"} : errors}
      \cup {r \in {"unparsed"} : ManyUnparsed(Share(deltas, counters))}
      \cup {r \in {"stalled"} : Still(deltas, "lines") /\ traffic}
      \cup {r \in {"idle"} : Still(deltas, "bouncer") /\ IdleCycles(deltas) >= IdleLimit}

-----------------------------------------------------------------------------
Init ==
    /\ ever = Zero /\ birth = Zero /\ run = 1 /\ version \in Versions
    /\ cycles = 0
    /\ tracker = NoSample /\ traffic = FALSE /\ idle = 0
    /\ window = Nothing /\ reasons = {}
    /\ compared = [run |-> 0, read |-> 0, hidden |-> FALSE]
    /\ calm = 0 /\ quiet = 0

Works(w) ==
    /\ ever.ok + ever.ko + ever.hit + ever.miss < MaxWork
    /\ ever' = [ever EXCEPT ![w] = @ + 1]
    /\ UNCHANGED <<birth, run, version, cycles, coordVars>>

EngineRestarts ==
    /\ run < MaxRuns
    /\ run' = run + 1
    /\ birth' = ever
    /\ version' \in Versions
    /\ UNCHANGED <<ever, cycles, coordVars>>

\* The decision query of a cycle reaches the LAPI, or does not.
AsksForDecisions ==
    /\ cycles < MaxCycles
    /\ cycles' = cycles + 1
    /\ ever' \in {ever, [ever EXCEPT !.own = @ + 1]}
    /\ UNCHANGED <<birth, run, version>>

\* Since the sample before.
Since(w) == ever[w] - tracker.at[w]

\* A cycle whose scrape succeeds; other queries of it may fail.
Scrape(errors) ==
    /\ AsksForDecisions
    /\ LET deltas == RateWindow(tracker, Sample)
           measured == deltas.bouncer # Missing
           hidden == Missing \in {tracker.start, Sample.start}
           silent == Since("hit") + Since("miss") = 0
       IN  /\ window' = deltas
           /\ reasons' = Reasons(deltas, Counters, errors)
           /\ traffic' = (traffic \/ Moved(deltas, "lines"))
           /\ idle' = IdleCycles(deltas)
           /\ compared' = [run |-> tracker.run,
                           read |-> IF deltas.lines = Missing THEN 0
                                    ELSE Since("ok") + Since("ko"),
                           hidden |-> hidden]
           /\ calm' = IF measured /\ silent THEN calm + 1 ELSE 0
           /\ quiet' = IF ~measured THEN quiet
                       ELSE IF silent \/ hidden THEN quiet + 1 ELSE 0
    /\ tracker' = Sample

\* A cycle whose scrape fails: "without fresh counters every rate comparison is
\* worthless".
ScrapeFails ==
    /\ AsksForDecisions
    /\ tracker' = NoSample
    /\ window' = Nothing /\ reasons' = {"error"}
    /\ compared' = [run |-> 0, read |-> 0, hidden |-> FALSE] /\ calm' = 0
    /\ UNCHANGED <<traffic, idle, quiet>>

\* A rejected login or something unexpected: the results are thrown away.
CycleRaises ==
    /\ AsksForDecisions
    /\ UNCHANGED coordVars

\* A reload or a restart of Home Assistant.
NewCoordinator ==
    /\ tracker' = NoSample /\ traffic' = FALSE /\ idle' = 0
    /\ window' = Nothing /\ reasons' = {}
    /\ compared' = [run |-> 0, read |-> 0, hidden |-> FALSE]
    /\ calm' = 0 /\ quiet' = 0
    /\ UNCHANGED <<engineVars, cycles>>

Next ==
    \/ \E w \in Work \ {"own"} : Works(w)
    \/ EngineRestarts
    \/ \E errors \in BOOLEAN : Scrape(errors)
    \/ ScrapeFails
    \/ CycleRaises
    \/ NewCoordinator

Spec == Init /\ [][Next]_vars

-----------------------------------------------------------------------------
(* Properties *)

\* The type invariant: no rate is negative.
TypeOK ==
    /\ ever \in [Work -> Nat] /\ birth \in [Work -> Nat]
    /\ run \in Nat /\ version \in Versions /\ cycles \in Nat
    /\ tracker \in Samples
    /\ traffic \in BOOLEAN /\ idle \in Nat
    /\ window \in Readings
    /\ reasons \subseteq {"error", "unparsed", "stalled", "idle"}
    /\ compared \in [run : Nat, read : Int, hidden : BOOLEAN] 
    /\ calm \in Nat /\ quiet \in Nat

\* A rate never claims more lines than CrowdSec read since the sample it is
\* compared with, whatever failed or restarted in between; within one run it is
\* exact; and two runs are compared only if one of them hid its start time.
RateTrue ==
    window.lines # Missing =>
        /\ window.lines <= compared.read
        /\ compared.run = tracker.run => window.lines = compared.read
        /\ compared.run = tracker.run \/ compared.hidden

\* "Decisions are not being enforced" is not said of bouncers that asked: since
\* the last interval with a query of theirs this coordinator has measured as many
\* intervals as the limit asks for.  Cycles that fail or are thrown away, the
\* first one after them and those before a reload do not count.  Where CrowdSec
\* hides its start time, a restart may have hidden the queries of an interval.
IdleAlarmTrue ==
    "idle" \in reasons => quiet >= IdleLimit /\ (calm > 0 \/ compared.hidden)

\* Unparsed lines stay a problem in a quiet interval: as long as every line of
\* the running CrowdSec failed to parse, a cycle with a scrape says so.  The options
\* allow a threshold of 100 percent, which no share is above.
UnparsedNoticed ==
    /\ Threshold < 100
    /\ tracker.counters.parse_ko # Missing /\ tracker.counters.parse_ok = Missing
    => "unparsed" \in reasons

-----------------------------------------------------------------------------
(* What the documentation says and the code does not do *)

\* README.md:415 "no bouncer queries for N intervals" is a problem: bouncers that
\* have been silent in that many measured intervals raise the flag.
SilentBouncersNoticed == calm >= IdleLimit => "idle" \in reasons
=============================================================================
