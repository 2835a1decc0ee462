----------------------------- MODULE WindowSplit -----------------------------
(***************************************************************************)
(* async_get_alerts: one alert query put together from several requests.   *)
(* The LAPI truncates an answer at `Limit`, so a window that hits the limit *)
(* is halved and its halves are queued, down to one minute or MaxSplits    *)
(* halvings.  A window is written in minutes before "now", and every       *)
(* request is evaluated at its own "now": the clock runs between them.     *)
(* Times are in ticks, the query starts at tick 0.                         *)
(***************************************************************************)
EXTENDS Integers, Sequences, FiniteSets

CONSTANTS
    Alerts,     \* the alerts of the LAPI
    Spans,      \* minutes a query may ask for: 24 h in full, a few otherwise
    Minute,     \* ticks per minute
    Limit,      \* alerts the LAPI returns at most
    MaxSplits,  \* MAX_WINDOW_SPLITS
    MaxClock    \* bound: ticks the whole query takes at most

ASSUME SpansAssumption == Spans \subseteq Nat \ {0} /\ Minute \in Nat \ {0}
ASSUME LimitAssumption == Limit \in Nat \ {0} /\ MaxSplits \in Nat
ASSUME ClockAssumption == MaxClock \in Nat

MIN_WINDOW_MINUTES == 1

\* A Window and the number of splits left for it.
Windows == [start : Nat, end : Nat, splits : 0 .. MaxSplits]

VARIABLES
    minutes,    \* the period asked for, since = f"{minutes}m"
    clock,      \* ticks since the first request
    created,    \* timestamps of the alerts; some arrive during the query
    pending,    \* the queue of windows still to ask for
    collected,  \* the alerts taken over
    truncated,  \* AlertResult.truncated
    requests,   \* requests sent to /v1/alerts
    seams       \* history: the edges of the windows asked for, in minutes

vars == <<minutes, clock, created, pending, collected, truncated, requests, seams>>

Done == pending = <<>>

Init ==
    /\ minutes \in Spans
    /\ clock = 0
    /\ created \in [Alerts -> 0 - minutes * Minute .. MaxClock]
    /\ pending = <<[start |-> minutes, end |-> 0, splits |-> MaxSplits]>>
    /\ collected = {}
    /\ truncated = FALSE
    /\ requests = 0
    /\ seams = {minutes}

\* window_params as the LAPI evaluates them: the period is half-open, and the
\* newest window has no `until`.
InWindow(a, w) ==
    /\ created[a] <= clock
    /\ created[a] >= clock - w.start * Minute
    /\ w.end > 0 => created[a] < clock - w.end * Minute

Middle(w) == w.end + (w.start - w.end) \div 2

\* Mutant: the newer half starts a minute later than the older one ends.
HalvesApart(w) ==
    <<[start |-> w.start, end |-> Middle(w), splits |-> w.splits - 1],
      [start |-> Middle(w) - 1, end |-> w.end, splits |-> w.splits - 1]>>

\* Mutant: the older half reaches a minute into the newer one.
HalvesOverlap(w) ==
    <<[start |-> w.start, end |-> Middle(w) - 1, splits |-> w.splits - 1],
      [start |-> Middle(w), end |-> w.end, splits |-> w.splits - 1]>>

\* Mutant: the halves may be split as often as the window they come from.
HalvesForever(w) ==
    <<[start |-> w.start, end |-> Middle(w), splits |-> w.splits],
      [start |-> Middle(w), end |-> w.end, splits |-> w.splits]>>

\* split_window: the older half first.
Halves(w) ==
    <<[start |-> w.start, end |-> Middle(w), splits |-> w.splits - 1],
      [start |-> Middle(w), end |-> w.end, splits |-> w.splits - 1]>>

\* Mutant: only the length of the window limits the splits.
MaySplitByLength(w) == w.start - w.end >= 2 * MIN_WINDOW_MINUTES

MaySplit(w) == w.splits > 0 /\ w.start - w.end >= 2 * MIN_WINDOW_MINUTES

\* The answer to one request, and what the loop makes of it.
Collect(w) ==
    /\ Cardinality({a \in Alerts : InWindow(a, w)}) < Limit
    /\ collected' = collected \cup {a \in Alerts : InWindow(a, w)}
    /\ pending' = Tail(pending)
    /\ UNCHANGED <<truncated, seams>>

Split(w) ==
    /\ Cardinality({a \in Alerts : InWindow(a, w)}) >= Limit
    /\ MaySplit(w)
    /\ pending' = Tail(pending) \o Halves(w)
    /\ seams' = seams \cup {Middle(w)}
    /\ UNCHANGED <<collected, truncated>>

\* At the limit and not to be split any further: a part is better than nothing.
GiveUp(w) ==
    /\ Cardinality({a \in Alerts : InWindow(a, w)}) >= Limit
    /\ ~MaySplit(w)
    /\ \E S \in SUBSET {a \in Alerts : InWindow(a, w)} :
          /\ Cardinality(S) = Limit
          /\ collected' = collected \cup S
    /\ pending' = Tail(pending)
    /\ truncated' = TRUE
    /\ UNCHANGED seams

Request ==
    /\ ~Done
    /\ requests' = requests + 1
    /\ \/ Collect(Head(pending))
       \/ Split(Head(pending))
       \/ GiveUp(Head(pending))
    /\ UNCHANGED <<minutes, clock, created>>

Tick ==
    /\ ~Done
    /\ clock < MaxClock
    /\ clock' = clock + 1
    /\ UNCHANGED <<minutes, created, pending, collected, truncated, requests, seams>>

Next == Request \/ Tick

Spec == Init /\ [][Next]_vars

-----------------------------------------------------------------------------
(* Properties *)

\* The type invariant.
TypeOK ==
    /\ minutes \in Spans
    /\ clock \in 0 .. MaxClock
    /\ created \in [Alerts -> Int]
    /\ pending \in Seq(Windows)
    /\ collected \subseteq Alerts
    /\ truncated \in BOOLEAN
    /\ requests \in Nat
    /\ seams \subseteq Nat

\* The seam of b minutes: alerts that were on its newer side when the query
\* began and have drifted to its older side since.
InSeam(a, b) ==
    /\ created[a] >= 0 - b * Minute
    /\ created[a] < clock - b * Minute

\* "To get all alerts of a period anyway": an answer that is not truncated has
\* every alert of the period, but for those that drifted over the edge of one
\* of its windows while the requests ran.  If they take no time at all, or no
\* window is split, nothing inside the period is missing.
MissedOnlyAtSeams ==
    Done /\ ~truncated =>
        \A a \in Alerts \ collected :
            created[a] <= 0 => \E b \in seams : InSeam(a, b)

\* A query ends after a bounded number of requests: a full binary tree of
\* MaxSplits levels below the first one.
RequestBound == requests <= 2^(MaxSplits + 1) - 1

\* No minute is asked for twice: the queued windows do not overlap.
PendingDisjoint ==
    \A i, j \in 1 .. Len(pending) :
        i < j => \/ pending[i].end >= pending[j].start
                 \/ pending[j].end >= pending[i].start

=============================================================================
