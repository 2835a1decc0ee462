---------------------------- MODULE AlertPolling ----------------------------
(***************************************************************************)
(* How one coordinator follows the alerts of one LAPI: full queries of the *)
(* rolling window now and then, short incremental queries in between, the  *)
(* AlertCache they fill, the ban events fired from it, and the repair      *)
(* issue that tells the user the numbers are incomplete.                   *)
(*                                                                         *)
(* An alert is a model value.  What the code tells apart in it is whether  *)
(* it carries a ban decision and when it was created.  Simulated alerts    *)
(* and alerts without an identifier never become known and never fire, so  *)
(* they are left out.  One query is one answer here: a snapshot of the     *)
(* requested window, a part of it that is flagged as truncated, or a part  *)
(* that is not, because the alerts it lacks lay at the moving seams of a   *)
(* split window.  How an answer is put together from several requests, and *)
(* what exactly gets lost in between, is module WindowSplit.               *)
(***************************************************************************)
EXTENDS Integers, FiniteSets

CONSTANTS
    Alerts,         \* the alerts the LAPI may come to list
    Window,         \* ticks the cache looks back (24 h)
    FullInterval,   \* ticks between two full queries
    Minute,         \* ticks per minute: windows are asked for in minutes
    Overlap,        \* ALERTS_INCREMENT_OVERLAP_MINUTES
    Cap,            \* MAX_BAN_EVENTS_PER_CYCLE
    MaxLatency,     \* bound: ticks from the start of a cycle to the answer
    Backdate,       \* bound: ticks a timestamp may lie before the listing
    MaxTime         \* bound: the last tick

ASSUME CapAssumption == Cap \in Nat
ASSUME SpanAssumption == Window \in Nat /\ FullInterval \in Nat
ASSUME MinuteAssumption == Minute \in Nat \ {0} /\ Overlap \in Nat
ASSUME BoundAssumption ==
    MaxTime \in Nat /\ MaxLatency \in Nat /\ Backdate \in Nat

Never == -1             \* a time that is still None
Content == {"absent", "plain", "ban"}
Running == {"querying", "answered"}
Phases == {"idle", "stopped"} \cup Running
Times == 0 .. MaxTime

VARIABLES
    now,        \* the clock
    lapi,       \* what the LAPI lists of each alert
    created,    \* the alerts' timestamps
    listedAt,   \* when the LAPI began to list them
    phase,      \* where the update cycle is; stopped: no next one is scheduled
    started,    \* monotonic() at its start
    full,       \* full_alerts of the running cycle
    answer,     \* AlertResult.alerts of the running cycle
    cut,        \* AlertResult.truncated of the running cycle
    lost,       \* history: what the answer should hold and does not say so
    cache,      \* _alert_cache
    fullAt,     \* _alerts_full_at
    polledAt,   \* _alerts_polled_at
    force,      \* _force_full_alerts
    truncated,  \* _alerts_truncated
    baseline,   \* _known_alert_ids is not None
    known,      \* _known_alert_ids
    reported,   \* _truncation_reported
    issue,      \* the issue registry holds alerts_truncated of this entry
    announced,  \* history: alerts with a crowdsec_new_ban event
    silenced,   \* history: bans of a silent first cycle
    late,       \* history: known alerts that only later turned into bans
    omitted,    \* history: alerts an answer left out of the window it covers
    missed      \* history: alerts the cache lacks without a flag

lapiVars == <<now, lapi, created, listedAt>>
cycleVars == <<phase, started, full, answer, cut, lost>>
coordVars == <<cache, fullAt, polledAt, force, truncated, baseline, known, reported>>
eventVars == <<announced, silenced, late>>
gapVars == <<omitted, missed>>
vars == <<lapiVars, cycleVars, coordVars, issue, eventVars, gapVars>>

Nothing == [a \in Alerts |-> "absent"]
Seen(content) == {a \in Alerts : content[a] # "absent"}
Bans(content) == {a \in Alerts : content[a] = "ban"}

-----------------------------------------------------------------------------
(* The pieces of a cycle *)

\* Mutant: the interval has to be exceeded, not reached.
DueInFullLate == force \/ fullAt = Never \/ now - fullAt > FullInterval

DueInFull == force \/ fullAt = Never \/ now - fullAt >= FullInterval

WholeMinutes(elapsed) == elapsed - (elapsed % Minute)
\* Mutant: no overlap between two incremental windows.
SpanWithoutOverlap ==
    IF full \/ polledAt = Never THEN Window ELSE WholeMinutes(started - polledAt)

\* int(elapsed // 60) + 2 minutes, in ticks.
Span ==
    IF full \/ polledAt = Never
    THEN Window
    ELSE WholeMinutes(started - polledAt) + Overlap * Minute

\* What the LAPI lists with a timestamp of at most `Span` ago.
Requested == {a \in Seen(lapi) : created[a] >= now - Span}

\* What came on the list since the last absorbed cycle too late for the overlap
\* to answer for: less the minute that rounding the elapsed time down costs, it
\* covers the age the alert had when it was listed and the time the LAPI took to
\* look.
Overdue ==
    {a \in Seen(lapi) :
        /\ ~full /\ polledAt # Never /\ listedAt[a] >= polledAt
        /\ (listedAt[a] - created[a]) + (now - started) + Minute > Overlap * Minute}

Part(S) == [a \in Alerts |-> IF a \in S THEN lapi[a] ELSE "absent"]

\* Mutant: only alerts that are already there are taken over.
MergeKnownOnly(old, new) ==
    [a \in Alerts |->
        IF old[a] # "absent" /\ new[a] # "absent" THEN new[a] ELSE old[a]]

\* AlertCache.add: a known alert is overwritten.
Merge(old, new) ==
    [a \in Alerts |-> IF new[a] # "absent" THEN new[a] ELSE old[a]]

Prune(content) ==
    [a \in Alerts |-> IF created[a] < now - Window THEN "absent" ELSE content[a]]

Absorbed == Prune(IF full THEN answer ELSE Merge(cache, answer))

\* Mutant: new is what was not in the cache, so a held back ban never is again.
NewBansNotCached(content) ==
    IF baseline THEN Bans(content) \ Seen(cache) ELSE {}

NewBans(content) == IF baseline THEN Bans(content) \ known ELSE {}

\* partition_bans: the bans reported now; of equally recent ones any.
ReportNow(fresh) ==
    IF Cardinality(fresh) <= Cap
    THEN {fresh}
    ELSE {S \in SUBSET fresh :
            /\ Cardinality(S) = Cap
            /\ \A a \in S, b \in fresh \ S : created[a] >= created[b]}

-----------------------------------------------------------------------------
FreshCoordinator ==
    /\ phase = "idle" /\ started = 0 /\ full = FALSE
    /\ answer = Nothing /\ cut = FALSE /\ lost = {}
    /\ cache = Nothing /\ fullAt = Never /\ polledAt = Never
    /\ force = FALSE /\ truncated = FALSE
    /\ baseline = FALSE /\ known = {} /\ reported = FALSE
    /\ missed = {}

Init ==
    /\ now = 0 /\ lapi = Nothing
    /\ created = [a \in Alerts |-> 0] /\ listedAt = [a \in Alerts |-> 0]
    /\ FreshCoordinator
    /\ issue = FALSE
    /\ announced = {} /\ silenced = {} /\ late = {}
    /\ omitted = {}

(* The environment *)

\* Time passes, but the LAPI takes its snapshot within MaxLatency.
Tick ==
    /\ now < MaxTime
    /\ phase = "querying" => now < started + MaxLatency
    /\ now' = now + 1
    /\ UNCHANGED <<lapi, created, listedAt, cycleVars, coordVars, issue, eventVars, gapVars>>

NewAlert(a, kind) ==
    /\ lapi[a] = "absent"
    /\ lapi' = [lapi EXCEPT ![a] = kind]
    /\ \E t \in now - Backdate .. now : created' = [created EXCEPT ![a] = t]
    /\ listedAt' = [listedAt EXCEPT ![a] = now]
    /\ UNCHANGED <<now, cycleVars, coordVars, issue, eventVars, gapVars>>

\* "CrowdSec updates events_count and decisions of an ongoing alert."
BanAdded(a) ==
    /\ lapi[a] = "plain"
    /\ lapi' = [lapi EXCEPT ![a] = "ban"]
    /\ UNCHANGED <<now, created, listedAt, cycleVars, coordVars, issue, eventVars, gapVars>>

(* The coordinator *)

\* decisions/list with refresh: the card's refresh button.
RequestFullAlertPoll ==
    /\ force' = TRUE
    /\ UNCHANGED <<lapiVars, cycleVars, cache, fullAt, polledAt, truncated,
                   baseline, known, reported, issue, eventVars, gapVars>>

\* A refresh by hand starts a cycle even when none is scheduled.
CycleStart ==
    /\ phase \notin Running
    /\ phase' = "querying"
    /\ started' = now
    /\ full' = DueInFull
    /\ UNCHANGED <<lapiVars, answer, cut, lost, coordVars, issue, eventVars, gapVars>>

\* The LAPI's answer to what was requested holds the alerts S of it.
Answer(S) ==
    /\ phase = "querying"
    /\ phase' = "answered"
    /\ answer' = Part(S)
    /\ omitted' = omitted \cup (Requested \ S)
    /\ UNCHANGED <<lapiVars, started, full, coordVars, issue, eventVars, missed>>

\* What an answer that is not flagged keeps quiet about.
Unflagged(S) ==
    /\ cut' = FALSE
    /\ lost' = (Requested \cup Overdue) \ S

AnswerComplete == Answer(Requested) /\ Unflagged(Requested)

\* The window was split, and the seams moved between two requests.
AnswerAtSeams == \E S \in SUBSET Requested : Answer(S) /\ Unflagged(S)

AnswerTruncated ==
    /\ \E S \in SUBSET Requested \ {{}} : Answer(S)
    /\ cut' = TRUE
    /\ UNCHANGED lost

\* The locals of the cycle go out of scope.
EndOfCycle ==
    /\ started' = 0 /\ full' = FALSE
    /\ answer' = Nothing /\ cut' = FALSE /\ lost' = {}

\* The alert query failed; or it answered, but one of the other two queries
\* raised what _unwrap does not know (a body that is no JSON) and the cycle ends
\* before any result is absorbed.  The next cycle is scheduled all the same.
CycleFails ==
    /\ phase \in Running
    /\ phase' = "idle" /\ EndOfCycle
    /\ UNCHANGED <<lapiVars, coordVars, issue, eventVars, gapVars>>

\* ConfigEntryAuthFailed: whatever the queries have answered, nothing is
\* absorbed, and Home Assistant schedules no further cycle.
LoginRejected ==
    /\ phase \in Running
    /\ phase' = "stopped" /\ EndOfCycle
    /\ UNCHANGED <<lapiVars, coordVars, issue, eventVars, gapVars>>

\* Mutant: the next incremental window starts a minute after this cycle.
AbsorbAlertsAhead ==
    /\ cache' = Absorbed
    /\ fullAt' = IF full THEN started ELSE fullAt
    /\ force' = (force /\ ~full)
    /\ truncated' = IF full THEN cut ELSE truncated \/ cut
    /\ missed' = (IF full THEN lost ELSE missed \cup lost) \ Seen(Absorbed)
    /\ polledAt' = started + Minute

\* _absorb_alerts.  An incremental answer cannot clear the truncation flag, and
\* what the cache lacks without a flag, only a full answer brings back.
AbsorbAlerts ==
    /\ cache' = Absorbed
    /\ fullAt' = IF full THEN started ELSE fullAt
    /\ force' = (force /\ ~full)
    /\ truncated' = IF full THEN cut ELSE truncated \/ cut
    /\ missed' = (IF full THEN lost ELSE missed \cup lost) \ Seen(Absorbed)
    /\ polledAt' = started

\* Mutant: held back bans count as known.
FireBanEventsForgetful ==
    /\ \E out \in ReportNow(NewBans(Absorbed)) : announced' = announced \cup out
    /\ known' = Seen(Absorbed)
    /\ baseline' = TRUE
    /\ silenced' = IF baseline THEN silenced ELSE silenced \cup Bans(Absorbed)
    /\ late' = late \cup {a \in known \cap Bans(Absorbed) : cache[a] = "plain"}

\* Mutant: known is what the last answer held, not what the cache holds.
FireBanEventsOfAnswer ==
    /\ \E out \in ReportNow(NewBans(Absorbed)) :
          /\ announced' = announced \cup out
          /\ known' = Seen(answer) \ (NewBans(Absorbed) \ out)
    /\ baseline' = TRUE
    /\ silenced' = IF baseline THEN silenced ELSE silenced \cup Bans(Absorbed)
    /\ late' = late \cup {a \in known \cap Bans(Absorbed) : cache[a] = "plain"}

\* _fire_ban_events and what _apply_alerts makes of the bans it held back.
FireBanEvents ==
    /\ \E out \in ReportNow(NewBans(Absorbed)) :
          /\ announced' = announced \cup out
          /\ known' = Seen(Absorbed) \ (NewBans(Absorbed) \ out)
    /\ baseline' = TRUE
    /\ silenced' = IF baseline THEN silenced ELSE silenced \cup Bans(Absorbed)
    /\ late' = late \cup {a \in known \cap Bans(Absorbed) : cache[a] = "plain"}

\* Mutant: once reported is reported for good.
ReportTruncationOnce ==
    /\ reported' = (reported \/ truncated')
    /\ issue' = IF truncated' = reported THEN issue ELSE truncated'

\* _report_truncation: the registry is touched only when the flag has changed.
ReportTruncation ==
    /\ reported' = truncated'
    /\ issue' = IF truncated' = reported THEN issue ELSE truncated'

\* Absorbing and applying do not await in between.
CycleEnds ==
    /\ phase = "answered"
    /\ phase' = "idle" /\ EndOfCycle
    /\ AbsorbAlerts
    /\ FireBanEvents
    /\ ReportTruncation
    /\ UNCHANGED <<lapiVars, omitted>>

\* A new coordinator takes over: __init__ runs again.
NewCoordinator ==
    /\ phase' = "idle" /\ EndOfCycle
    /\ cache' = Nothing /\ fullAt' = Never /\ polledAt' = Never
    /\ force' = FALSE /\ truncated' = FALSE
    /\ baseline' = FALSE /\ known' = {} /\ reported' = FALSE
    /\ missed' = {}
    /\ UNCHANGED <<lapiVars, eventVars, omitted>>

\* async_reload_entry, after a change of the options for example: the issue
\* registry keeps what it holds.
ReloadEntry == NewCoordinator /\ issue' = issue

\* Home Assistant restarts: the issue is not a persistent one.
RestartHomeAssistant == NewCoordinator /\ issue' = FALSE

Next ==
    \/ Tick
    \/ \E a \in Alerts, kind \in {"plain", "ban"} : NewAlert(a, kind)
    \/ \E a \in Alerts : BanAdded(a)
    \/ RequestFullAlertPoll
    \/ CycleStart
    \/ AnswerComplete
    \/ AnswerAtSeams
    \/ AnswerTruncated
    \/ CycleFails
    \/ LoginRejected
    \/ CycleEnds
    \/ ReloadEntry
    \/ RestartHomeAssistant

Spec == Init /\ [][Next]_vars

\* A scheduled cycle starts.  A LAPI that is asked again and again answers in the
\* end, in whichever way, and not every cycle with an answer is thrown away.
Fairness ==
    /\ WF_vars(phase = "idle" /\ CycleStart)
    /\ SF_vars(AnswerComplete \/ AnswerAtSeams \/ AnswerTruncated)
    /\ SF_vars(CycleEnds)

FairSpec == Spec /\ Fairness

-----------------------------------------------------------------------------
(* Properties *)

\* The type invariant.
TypeOK ==
    /\ now \in Times
    /\ lapi \in [Alerts -> Content]
    /\ created \in [Alerts -> Int] /\ listedAt \in [Alerts -> Times]
    /\ phase \in Phases /\ started \in Times /\ full \in BOOLEAN
    /\ answer \in [Alerts -> Content] /\ cut \in BOOLEAN /\ lost \in SUBSET Alerts
    /\ cache \in [Alerts -> Content]
    /\ fullAt \in Times \cup {Never} /\ polledAt \in Times \cup {Never}
    /\ force \in BOOLEAN /\ truncated \in BOOLEAN
    /\ baseline \in BOOLEAN /\ known \in SUBSET Alerts
    /\ reported \in BOOLEAN /\ issue \in BOOLEAN
    /\ announced \in SUBSET Alerts /\ silenced \in SUBSET Alerts
    /\ late \in SUBSET Alerts
    /\ omitted \in SUBSET Alerts /\ missed \in SUBSET Alerts

\* While the 24h numbers are not called truncated, the cache holds every alert
\* that was listed when the last absorbed cycle began, until it ages out of the
\* window.  Two kinds of alert are missing without a word, and only until a full
\* query brings them: one that lay at a seam of a split window, and one that was
\* listed so late or looked for so late that the overlap of two incremental
\* windows no longer reaches it.  Nothing else gets lost, however full and
\* incremental queries, failed cycles, truncation and its healing follow each
\* other.
WindowComplete ==
    ~truncated =>
        \A a \in Seen(lapi) \ missed :
            listedAt[a] < polledAt =>
                a \in Seen(cache) \/ created[a] < now - Window

\* partition_bans promises that nothing is lost: a ban the coordinator counts
\* as known was announced, belongs to the silent first cycle, or became a ban
\* only after its alert was known.
KnownBansAccounted ==
    \A a \in known \cap Bans(cache) : a \in announced \cup silenced \cup late

\* One event per ban, over reloads, restarts, overlapping windows and bans
\* carried over by the cap: of the bans a cycle is about to report, only those
\* that an answer once left out, flagged or not, can have been announced before.
NoSecondEvent ==
    phase = "answered" => NewBans(Absorbed) \cap announced \subseteq omitted

\* The cache is never further from its last full query than the interval set
\* in the options, however many cycles fail or overlap with a refresh.
FullQueryInTime ==
    baseline => polledAt - fullAt < FullInterval \/ polledAt = fullAt

\* Numbers that may be incomplete are never without their repair issue, even
\* after the reload that starts a coordinator with a blank memory.
TruncationReported == truncated => issue

\* A ban that is in the cache and not yet known is announced in the end,
\* unless it leaves the cache: the cap delays an event, it does not drop it.  The
\* polling must not stop for good, as it does after a rejected login.
BacklogDrains ==
    []<>(phase # "stopped") =>
        \A a \in Alerts :
            (baseline /\ a \in Bans(cache) \ known)
                ~> (a \in announced \/ a \notin Seen(cache))

\* As long as the polling does not stop for good, every alert the LAPI lists gets
\* into the cache in the end, unless it ages out before or an answer leaves it
\* out.
AlertPickedUp ==
    []<>(phase # "stopped") =>
        \A a \in Alerts :
            (a \in Seen(lapi))
                ~> (a \in Seen(cache) \cup omitted \/ created[a] < now - Window)

-----------------------------------------------------------------------------
(* The promise of the ban events *)

\* A ban is owed its event while the cache holds it and the coordinator does not
\* count it as known.
Owed == IF baseline THEN Bans(cache) \ known ELSE {}

OutOfSight == {a \in Seen(lapi) : created[a] < now - Window} \cup omitted

Feed == INSTANCE BanFeed WITH
            bans <- Bans(lapi), gone <- OutOfSight,
            following <- baseline, owed <- Owed

\* Polling keeps the promise of BanFeed: silence at the start, the cap, no ban
\* twice and none dropped, over failed cycles, refreshes, reloads and restarts.
FeedKept == Feed!Spec
=============================================================================
