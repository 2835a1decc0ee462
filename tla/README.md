# CrowdSec integration: models and proofs

TLA+ models of the Home Assistant integration for CrowdSec
(`src/custom_components/crowdsec`) and its Lovelace cards (`src/card`). The
modules model the parts that keep state over time and share it between tasks;
TLC checks them on small instances, TLAPS proves the main results for every
value of the constants. File names without a directory below are those of
`src/custom_components/crowdsec`.

Status: alert polling, split alert query, shared LAPI token, update cycle, rates
and problem flag, entries and their flows, decision table, and the commands of the
cards are modelled and checked. Every safety property that a passing run checks, and
the refinement, is also proved for every value of the constants; only liveness is left to
the runs. What is left out is listed under *Not modelled*.

## Inventory

| Component | State | Operations | Hard behaviour | What makes it correct |
|---|---|---|---|---|
| Alert polling (`coordinator.py`, `alerts.py`) | `_alert_cache`, `_alerts_full_at`, `_alerts_polled_at`, `_force_full_alerts`, `_alerts_truncated`, `_known_alert_ids`, `_truncation_reported`; the issue registry | `_async_update_data`, `request_full_alert_poll`, reload | failed and truncated cycles, answers that miss alerts unflagged, a rejected login that stops the polling, windows that must meet, the cap of 25 events, what a reload forgets | an alert that is missing is covered by the truncation flag, was lost at a seam between two requests, or came too late for the overlap; one event per ban that no answer leaves out; none lost to the cap; full queries in time; truncation always reported |
| Split alert query (`api.py`, `timewindow.py`) | the queue of windows, the alerts collected | one request per window, split, give up | each request has its own "now"; an answer at the limit | what is missing without the flag has drifted over a seam; bounded number of requests |
| LAPI client (`api.py`) | `_token`, `_token_expires`, `_login_lock`, `decisions_need_bouncer_key` | login, request with one retry, fallback to the bouncer key | concurrent calls with one stale token, failing logins under the lock, bodies of `null` | a stale token heals; the lock is never kept; the flag has a cause |
| Update cycle (`coordinator.py`, availability in `sensor.py`, `binary_sensor.py`) | `CrowdSecData` of this cycle and of the last one, `_bouncer_key_reported`, the issue registry | gather of three queries, `_unwrap`, `_apply_*`, `_report_missing_bouncer_key` | one of three fails, in any combination, for any time; a lookup between the query and the verdict; reload and repair | `last_update` covers all that is shown; no query is lost silently; a missing key is asked for |
| Rates and problem flag (`rates.py`, `coordinator.py`) | last counters, idle counter, traffic latch | `update`, `reset`, `_evaluate_problem` | restarts, backward and missing counters, gaps | no rate over two runs of CrowdSec that tell their start times; no alarm before enough measured intervals; parse errors stay a problem |
| Entry lifecycle (`__init__.py`, `services.py`, `repairs.py`) | loaded entries, services, card mark, static path | migrate, setup, unload, reload, remove, repair | entries set up and unloaded concurrently, changed while they are set up | services exist while an entry is loaded; the card is served; what runs is what is stored |
| Config flows (`config_flow.py`) | unique identifiers and data of entries | user, reauth, reconfigure, options | check, then await, then store | one entry per identifier; identifier and data belong together |
| Decision table (`decisions.py`) | none; fed by the cached alerts and the decisions of a cycle | `build_table`, `history_from_alerts`, `build_ip_report` | copies of different age, alerts and decisions answered at different times, one of the queries failing, missing times, ends, the order of alerts | no ban issued before the decisions were answered is missing or shown as over; the newest alert describes; the report tells when an address comes free |
| WebSocket commands and services (`websocket_api.py`, `services.py`) | none of their own; read `coordinator.data` | list, delete, lookup, ban, unban, refresh | the table changes between pages; debounced refresh; half-failed commands | central decisions stay; answers reflect the action |
| Cards (`card/src`) | rows, report, busy and loading marks | load, unban, ban, lookup | answers out of order, loads that overlap | rows belong to one table; what is shown is about what was asked |
| Metrics parser, other parts of the entities, diagnostics, validation, card helpers | none | pure functions and views | – | not modelled |

How they interact: Home Assistant schedules the coordinator's cycle; the cycle
asks the metrics endpoint and, through the client, the LAPI for alerts and
decisions in parallel (`asyncio.gather`). WebSocket commands and services use
the same client concurrently and read the coordinator's last snapshot; they may
ask for a refresh, which Home Assistant serialises with the scheduled cycles
(so two cycles of a coordinator never overlap, and the models have one at a
time). The client is shared by all of them; coordinator and client are replaced
together by a reload. The issue registry and the event bus outlive both.

## Modules

### `AlertPolling`

One coordinator following the alerts of one LAPI. A cycle is `CycleStart` (the
part of `_async_update_data` before the `await`), one of the answers (the LAPI's
snapshot), and `CycleEnds` (absorb, apply, fire, report: no `await` in between, so one
action), `CycleFails`, or `LoginRejected`, which stops the polling until a manual
refresh or a reload. An answer is one of three: `AnswerComplete` holds all that was
asked for, `AnswerTruncated` says that it does not, and `AnswerAtSeams` misses alerts and
does not say so. The last is what `WindowSplit` shows of `async_get_alerts`; here the
alerts that are missed are any, which is more than a seam can take. Manual refreshes,
new alerts, bans added to alerts, reloads and restarts happen at any time.

| TLA+ | Code |
|---|---|
| `cache` | `_alert_cache`: per alert absent, without or with a ban |
| `fullAt`, `polledAt`, `force`, `truncated` | `_alerts_full_at`, `_alerts_polled_at`, `_force_full_alerts`, `_alerts_truncated` |
| `baseline`, `known` | `_known_alert_ids` is not None, and its value |
| `reported`, `issue` | `_truncation_reported`; the issue registry |
| `phase`, `started`, `full`, `answer`, `cut` | the locals of the running cycle; `phase = "stopped"` when Home Assistant no longer schedules cycles |
| `lapi`, `created`, `listedAt`, `now` | the environment |
| `announced`, `silenced`, `late`, `omitted`, `lost`, `missed` | history, read by properties only |

Abstractions: an alert is a model value with a timestamp; simulated alerts,
alerts without an identifier (`anon:` keys) and alerts without a usable timestamp
are left out. Of several decisions only whether one is a ban counts, as
`summarize_alerts` makes one event per alert. One clock stands for the
coordinator's monotonic clock, its wall clock and the LAPI's clock. What the
clocks and the network may really differ by is `MaxLatency` (from the start of
the cycle to the LAPI's snapshot; an answer of several requests is taken as of the
last of them) and `Backdate` (how old an alert may be when it is first listed). They are
bounds of the instance and nothing is assumed about them: the code gives no guarantee that
its two minutes of overlap suffice. `Overdue` names the alerts for which they do not: listed
after the last poll, with a timestamp so old that the window of an incremental query,
counted in whole minutes, may no longer reach it. `lost` is what an unflagged answer
should have held and did not, overdue or missed at a seam; `missed` collects it until the
next full query, and `WindowComplete` excepts these and no others.

### `BanFeed`

What the ban events promise to automations, without queries, windows or caches:
silence when the following begins, at most `Cap` events at a time and the cap used
up before a ban has to wait, no event twice, nothing owed dropped. An alert that
has left the window, or that an answer has left out, is `gone`: such a one may be
lost or come back. `AlertPolling` instantiates it with a refinement mapping
(`Feed`): `bans` are the bans of the LAPI, `following` is `baseline`, `owed` are the
cached bans that are not known, `gone` is `OutOfSight`. `FeedKept == Feed!Spec` is
checked and proved.

### `WindowSplit`

One call of `async_get_alerts`. The queue of windows, what was collected, and a
clock that runs between requests. A request is evaluated at the LAPI's present
time, as `since=..m` and `until=..m` are relative. `seams` collects the edges
of all windows: what can be missed is defined in terms of them.

### `LapiAuth`

The client as a set of concurrent calls, each with a program counter that stops
at every `await`: waiting for the lock, logging in, requesting, asking as a
bouncer. The lock is a holder and a queue, as `asyncio.Lock` is first come,
first served. The LAPI may revoke tokens, change its mind about the credentials,
leave any request unanswered, and answer a decision query with `null`
(`RequestServedNull`), which the code takes for a 404. `misled` is history: the mishaps
(a rejected login, a token revoked twice, a null answer) since a decision query was last
served more than `null`. A token is good or stale. Routes differ in whether the LAPI
serves, denies or lacks them for a machine; that does not change while a client lives,
and the alert route exists in every version.

### `UpdateCycle`

One coordinator over its cycles. `Gather` is the `await` of the three queries, with
every combination of outcomes (`ok`, `None`, a failure that is expected, a
rejected login, something unexpected); `CycleEnds` is the rest of
`_async_update_data`, which does not await; `CycleRaises` is a cycle `_unwrap`
throws out of. Of a value only its age is kept, the number of the cycle it was
read in. `Lookup` is a lookup of the card that shares the client and its
`decisions_need_bouncer_key` with the poll. Reloads, the repair flow and restarts
replace the coordinator; the issue registry outlives the first two.

| TLA+ | Code |
|---|---|
| `data` | `coordinator.data`; `lastUpdate`, `lastRestart`, `lastAlert`, `decisions` as ages |
| `answers` | the results of `asyncio.gather` |
| `needKey`, `reported`, `issue` | `client.decisions_need_bouncer_key`, `_bouncer_key_reported`, the issue registry |
| `polling` | Home Assistant schedules the next cycle; a rejected login stops it |
| `lost`, `closed`, `overruled` | history, read by properties only |

### `RateProblem`

A CrowdSec that counts lines and decision queries, restarts, and may be of a version
that exports neither its start time nor the route counter, and the coordinator
that scrapes it. `Scrape` is `_apply_metrics` and `_evaluate_problem` of one cycle;
`ScrapeFails` resets the tracker; `CycleRaises` throws the cycle away. `ever` counts
over all runs and `birth` is its value at the last start, so what the counters
export is a difference and what was really read since a sample is known. A rate
stands for its delta: the time between two scrapes is positive and divides out of
every comparison the code makes. `quiet` is history: the measured intervals in a row
in which no bouncer asked. A version exports one set of counters; which of two names of a
counter it uses does not change within it. Start times that differ are more than the tolerance
of a second apart.

### `Entries`

The config entries in one event loop. An entry's `state` is Home Assistant's state or
the `await` its setup or unload has reached: first refresh and platforms
(`starting`), the file check and the registration of the card (`card`, `path`),
`unloading`. A flow is what it has read before its validation awaits the network;
`FlowStores` and `UserStores` are what follows the await. The services, the mark and the path
are shared. `HostOf` maps an address as entered to the part that goes into the
identifier.

| TLA+ | Code |
|---|---|
| `state`, `version`, `uid`, `data` | `entry.state`, `entry.version`, `entry.unique_id`, `entry.data` |
| `fresh`, `reload` | the coordinator was built from what is stored; `async_reload` is scheduled |
| `flows` | the flows in progress with the data they hold |
| `services`, `mark`, `path` | the registered services, `hass.data[CARD_REGISTERED]`, the static path |
| `disarmed`, `unchecked`, `reverted`, `missed`, `overtaken` | history: the races the code leaves open, each named where a property makes an exception for it |

### `DecisionTable`

`build_table` and `build_ip_report` as operators over sequences of records, fed by a
small LAPI: alerts with one decision each, that are issued, lifted and end, with or
without a timestamp or a told end. An ended decision may stay on the LAPI's list for up
to `Lag`, with a negative time left. A cycle is the two queries of `asyncio.gather`, each
answered at its own moment (`AlertsAnswered`, `DecisionsAnswered`) or lost
(`QueryFails`), in either order and with anything happening in between, and `CycleEnds`:
absorb and forget, build and cut. With the decisions lost the table of the last cycle
stays while the cache moves on; with the alerts lost the cache stays, on a full query and
on an incremental one. The cached copy of an alert is older than the list of decisions,
and the list may be older than the newest alert. Which alerts of the window an answer
holds is the matter of `AlertPolling`, so here it is any part. `upTo` and `rows` are
history: what had been issued when the decisions were answered, and the table
before the cut. The properties are about a cycle that builds a table (`Rebuilt`) and compare
the rows with what the LAPI held and what is cached, not with another definition of the
same functions. Sorting and filtering are one operator, `Ranked`: a finite set as the
sequence that a total order makes of it, which TLC evaluates on small sets and about
which the prover can reason. `InOrder` is the order of a stable sort.

### `TableCommands`

The two cards, the three services, the poll and the debouncer of Home Assistant
around one table. A command stops at each `await`: the live lookup
(`checking`), the request (`acting`), the refresh (`refreshed`), the pages or the
read-back (`loading`, `reading`). `RequestRefresh` is the external part: a
call within the cooldown is put off, one during a cycle is dropped, and only the
caller who started a cycle waits for it. A request that fails may have been carried
out.

## Runs

| Run | Expect | Shows |
|---|---|---|
| `ban_events` | pass | Two alerts, cap 1: `TypeOK`; no ban is lost to the cap (`KnownBansAccounted`), none announced twice that no answer left out (`NoSecondEvent`), truncated numbers have their issue even after a reload (`TruncationReported`), the polling implements `BanFeed` (`FeedKept`) |
| `poll_windows` | pass | One alert, minutes of two ticks: what is missing from numbers not called truncated was lost at a seam or listed too late (`WindowComplete`), full queries are in time (`FullQueryInTime`) |
| `polling_liveness` | pass | As long as polling is not stopped for good, held back bans are announced (`BacklogDrains`) and listed alerts picked up (`AlertPickedUp`) |
| `window_split` | pass | A query not called truncated misses only what drifted over a seam (`MissedOnlyAtSeams`), takes at most 2^(MaxSplits+1) - 1 requests (`RequestBound`), and its windows never overlap (`PendingDisjoint`) |
| `lapi_auth` | pass | Lock and tasks agree (`LockConsistent`), stale tokens heal (`StaleTokenHealed`), the flag has its cause (`KeyRequestExplained`), every call ends (`EveryCallEnds`) |
| `update_cycle` | pass | Nothing shown is older than `last_update` (`LastUpdateCovers`), a lost query shows (`NothingFailsSilently`), a key that is needed is asked for (`KeyIssueShown`) |
| `rates` | pass | A rate never claims more than was read, and mixes two runs only where a start time is hidden (`RateTrue`), the idle alarm waits for enough measured intervals in a row without a bouncer (`IdleAlarmTrue`), parse errors stay a problem in quiet intervals (`UnparsedNoticed`) |
| `entries` | pass | Services while one entry is loaded (`ServicesWhileLoaded`), mark and path agree (`CardServed`), one entry per identifier (`IdentifiersUnique`), identifier and data are one pair (`IdentifierMatches`), what runs is what is stored (`RunsWhatIsStored`) |
| `decision_table` | pass | The cut takes the past (`CutTakesThePast`), no ban falls between list and history (`EveryBanShown`), the newest alert describes a row (`NewestAlertDescribes`), in every cycle that builds a table; the report is blocked as long as anything covers the address, and tells no end before the last known one (`ReportAnswers`) |
| `table_commands` | pass | Rows that keep their place are loaded once (`RowsAtTheirPlace`), a removed row stays away (`RemovedStaysAway`), central decisions are kept (`CentralKept`), the report is about what was asked and calls nothing free that is not (`ReportHonest`) |
| `stale_values` | violation | After a rejected login measured values of the cycle before stay available, against README.md:436 |
| `silent_bouncers` | violation | The integration's own queries keep the bouncer counter moving, against README.md:415 |

The properties of `entries`, `update_cycle` and `table_commands` name exceptions.
Each is a place where the code does not keep what its comments say, and each is a
finding of `PROJECT.json`:

- the last entry that unloads takes the services from one that waits for the card
  (`disarmed`); reauth and migration store an identifier unchecked, and a
  reconfiguration checks before it awaits (`unchecked`); a repair stores back what
  another flow has replaced (`reverted`); options changed before the update
  listener is registered are not loaded (`missed`);
- a decision query that comes to `None` is no error (`closed`), and a lookup may
  overrule the poll's verdict on the key (`overruled`);
- of two answers on their way to the lookup card the last one wins, and a failed
  lookup after an unban leaves the old report (`excused`).

Where both queries of a cycle answer, a ban that is issued after the decisions were
answered and before the alerts are is cached, not in the list, and still running for the
history (decisions.py:343): the table lacks it until the next cycle. `EveryBanShown` says so
(`no > upTo`); no line of the repository promises otherwise.

Further findings without a run: a ban added to a known alert gets no event; the rest
of a burst is announced later instead of only logged; a reload forgets that the
truncation issue was raised; a full query asked for during a full cycle is lost; an
alert can drift over the edge between two halves; a query of four levels can take
31 requests, not 16; a rejected login asks for a bouncer key, and so does a decision
answer of `null` on a route that is served; a 404 to the bouncer counts as a failure; a counter that appears has no delta; an unknown end sorts last;
the history takes the remaining time for the total; a central row can swallow a local one
in the history; the report's country is not that of the newest alert; the report
after the unban of a range is about the range; pages are not of one snapshot.

### Bounds

| Run | Bound | Why it is enough |
|---|---|---|
| `ban_events` | 2 alerts, cap 1, window 1, full interval 2, overlap 0, latency 0, time 0..2 | two new bans exceed the cap; an alert ages out (2 > 1); an incremental answer right after the last one is shorter than the window, so the cache holds what the answer does not; every failure, flagged or unflagged loss at every step. Latency and the overlap of the code are left to `poll_windows` |
| `poll_windows` | 1 alert, minute 2, overlap 2, latency 1, backdating 2, window 5, full interval 4, time 0..7 | incremental windows are shorter than the whole one; elapsed times of 1 and 3 ticks are rounded; latency and backdating together exceed the overlap, so an alert can be overdue |
| `polling_liveness` | 2 alerts, cap 1, window 0, full interval 1, overlap 1, latency 0, time 0 | a burst at one moment, of which the cap holds back a ban; failures, losses, cut answers, rejected logins and reloads are unlimited, in any order. What time does to a window is in `poll_windows`; with time 0..1 the run takes longer than is worth waiting for |
| `window_split` | spans 2 and 6 minutes, minute 3 ticks, limit 2, 2 splits, 4 alerts, clock 0..2 | both halves can hit the limit again; one span ends at the depth, the other at the minute limit; the clock stays below a minute, so between the seams there is something that must not be missed |
| `lapi_auth` | 1 alert call, 2 decision calls, any number of times | three calls can lose one token together and queue behind each other; both routes; with and without a key |
| `update_cycle` | 4 cycles | a value is carried over twice and read again, under an issue that comes and goes; lookups, reloads and restarts are unlimited |
| `rates` | 4 cycles, 3 pieces of work, 2 runs, idle limit 2, threshold 10 | intervals before, over and after a restart; a counter that falls behind, and one that does not, over it; the limit is reached and missed |
| `entries` | 2 entries, 1 host, 2 machines, 2 flows at a time, 2 stores | the least that overlap: one entry is changed or unloaded in every step of the other, and two flows compete for an identifier. Reloads and restarts are unlimited |
| `decision_table` | 2 alerts out of 9 bans (an address, locally for 2 and centrally for 1; the range around it, locally for 1; the local ones with and without a timestamp and a told end), window 1, lag 2, 1 row, time 0..2 | two bans of one address and of both run at once with different ends; a ban ends and stays listed with a negative time left, its alert is kept or forgotten, a row is cut; issue, end and lifting before, between and after the two answers; either query lost in any cycle |
| `table_commands` | 3 decisions (2 local, 1 central), pages of 1 row, 2 loads, lookups or commands | a table of two rows takes two pages; a decision comes and goes between any two messages; a load or lookup overlaps a command |

`MaxTime`, `MaxClock`, `MaxCycles`, `MaxWork`, `MaxRuns`, `MaxAlerts`, `MaxFlows`, `MaxStores`
and `MaxCommands` bound what has no bound in the code. Symmetry is used in the safety
runs over alerts and over entries, which are interchangeable. The `VIEW` of
`decision_table` leaves out the rows and the table of the last cycle: no action reads
them, and the properties read those that the step itself builds. `WindowSplit` stops at
the end of the query, so its run does not check deadlock.

### Fairness

`AlertPolling!Fairness`: a cycle starts while the coordinator is idle (`WF`), since it
then has one scheduled; a LAPI asked again and again answers at last, in full, with losses
or cut off (`SF`), and such a cycle ends (`SF`), because failures and reloads may come
in between for any number of times. A rejected login stops the polling
(coordinator.py:332-333), and nothing makes a user refresh or reload: both
liveness properties hold on the condition that it is not stopped for good
(`[]<>(phase # "stopped")`). Nothing is assumed about manual refreshes, new alerts, or
which answer comes. `LapiAuth!FairSpec`: each task goes on when it can (`WF`
per call): the event loop resumes every task that is ready, and
`ClientTimeout(total)` ends each request. The LAPI's own actions are not fair.

## Proofs

`AlertPollingProofs` proves `Spec => []Inv` for the inductive invariant

    Inv == TypeOK, ClockInv, ListedInv, AnswerCovers, WindowComplete,
           KnownBansAccounted, AnnouncedInv, FullQueryInTime, TruncationInv

from the assumptions named in `AlertPolling`. Of its parts, `ClockInv` orders the
timestamps of the code (no cycle, poll or full query lies in the future),
`ListedInv` says that nothing in the cache or the answer is unknown to the LAPI, and `AnswerCovers` is the heart: an answer in
flight that is not flagged holds the whole window, or everything back to the last
absorbed cycle, so merged with the cache it is complete up to its start. What it lacks
it has put down as `lost`: an alert outside every window it could be in is `Overdue`, by
`SpanReachesBack`, which is arithmetic on the rounded minutes and needs no bound on
latency or backdating. `AnnouncedInv` says that an announced ban is known or has aged
out, unless an answer left it out, `TruncationInv` that a
coordinator that has reported truncation has its issue. The theorems:
`TypeCorrect`, `WindowIsComplete`, `NoBanLost`, `NoBanTwice`, `FullQueriesInTime`,
`TruncationIsReported`, each naming the property of the run that shows it.

The same module proves the refinement `PollingKeepsTheFeed == Spec => FeedKept`. It
adds `BanInv` to that invariant: the bans of the cache and of an answer are bans of
the LAPI, a fresh answer is never behind the cache on a ban, and a full answer holds
every cached alert still in sight. An answer with unflagged losses makes what it
leaves out `gone` at the moment it is given, as a truncated one does. `SightStep` and `BansStep` say that `gone` and
`bans` only grow, `FeedInit` maps the initial states, `FeedStep` maps each step: a
finished cycle (`FeedCycle`) is the abstract beginning or an announcement, a reload
is a stop, the rest are changes outside or stutter.

`WindowSplitProofs` proves `TypeCorrect` and `MissesOnlyAtSeams`, from `TypeOK`,
`EdgesKnown` (the edges of queued windows are seams) and `NothingForgotten` (an
alert of the period is collected, in a queued window, or has drifted over a
seam); splitting keeps the latter, since the halves cover the window but for the
seam between them. `QueueIsDisjoint` needs of the halves that they stay inside the
window they replace (`HalvesShare`); `AllLong` and `AllApart` speak of places in the
queue, from which the statement about its elements follows. `RequestsAreBounded` rests on
`BudgetInv`: the queue is first in, first out, so it holds windows of at most two
neighbouring levels of the tree, the upper ones first; what has been asked for and the
whole subtrees below what is queued never come to more than 2^(MaxSplits+1) - 1. A
window that is done with gives its subtree up, one that is split pays for itself and
leaves its halves (`BudgetArithmetic`). That 2^(n+1) is twice 2^n is not something the
provers know; `PowersOfTwo` counts the subsets of n + 1 numbers.

`LapiAuthProofs` proves `TypeCorrect`, `StaleTokensHeal` and
`KeyRequestsAreExplained` for any number of calls. The strengthening is
`RetryIsFresh`: the token of a retry comes from its own login, so only a
revocation after that login can turn it stale. `LockStaysConsistent` rests on
`LockInv`: the queue holds exactly the calls that wait, each once (`QueueInv`),
and the holder is exactly the call that logs in (`HolderInv`). Every step of a call
joins the queue, leaves the lock to the next, or touches neither (`StepKind`).

`UpdateCycleProofs` proves `TypeCorrect`, `LastUpdateIsCovered`, `NothingIsSilent`
and `KeyIssueIsShown` for any number of cycles. The properties are nearly
inductive; `AnswersInv` adds what a combination of answers says of the client's
flag, `AgesInv` that nothing is read after the last cycle.

`RateProblemProofs` proves `TypeCorrect`, `RatesAreTrue`, `IdleAlarmIsTrue` and
`UnparsedIsNoticed` for any amount of work, any number of runs of CrowdSec and every
limit. The heart is `SampleInv`: the tracker's sample is of the present run, of an
earlier one, or there is none; its counters are those of its run, however much of
it they hide. That a delta over a restart is discarded, or is not above what was read,
follows from it. `IdleInv` ties the idle counter to the measured intervals without a bouncer (`quiet`).

`EntriesProofs` proves `TypeCorrect`, `ServicesStay`, `CardIsServed`,
`IdentifiersStayUnique`, `IdentifierStaysTrue` and `StoredIsRun` for any set of
entries, hosts and machines. `Inv` adds to the properties what holds across an
`await`: services are there from the registration on (`ServicesInv`), the mark is
set before the path is awaited (`MarkInv`), a setup is fresh or has a reload coming
(`FreshInv`), and of a flow that was not overtaken: a reconfiguration still finds
its identifier free (`FreeInv`), a repair still holds what is stored (`CopyInv`).

`TableCommandsProofs` proves `ReportStaysHonest`, `CentralStays`, `RemovedNeverReturns`
and `PlacedRowsAreRead` for any finite set of decisions, any targets, pages and number
of commands.

- `AskInv` is what the overlap of lookups comes to: unless answers have overtaken each
  other, at most one is awaited, it is about the address asked last, and with none
  awaited so is the report. A read-back that ends is told from a load that ends by
  `PhaseInv`: the load of an unban only exists while its command waits for it.
- `KindInv` says what a command may take away: whoever acts by address has checked it
  (`Checked`), or could not.
- `RemovedInv` follows a removed decision on its way out: it is past (`PastInv`); once
  the refresh that was started after the request is over it is in no table and in no
  answer under way (`RefreshInv`); so it is in no rows read since (`RowsInv`). A command
  that ends moves what it has removed into `cleared` only then.
- `PageInv` says of every row a load has read that it stood at its place in one of the
  tables read so far, and of the total that it is the length of one of them. A row
  that has the same place in all of them can then be read at that place only, and the
  load has not ended before it. That the rows of a table are its decisions in order, each
  once, is a lemma about `Rows`.

`DecisionTableProofs` proves `CutKeepsTheLongest`, `NoBanIsLost`, `RowsAreDescribed` and
`ReportTellsTheEnd` for any number of alerts, any bans, window, targets, cover relation
and size of the table, from three facts about the constants: `None` is not a number,
lengths, window and lag are natural numbers, and at least one row is kept. Three
layers lead there:

- sequences: a finite set in a total order has a first member (`FirstExists`) and a
  ranking (`RankingExists`), `Before` is a weak order of rows (`BeforeOrders`), so a
  sorted table has the rows it was given and no row before one that goes first
  (`SortedHolds`);
- the functions of `decisions.py`: after any alerts the index of `build_source_index` is
  their summary (`IndexIs`, the recursion), the rows of the list are the local decisions
  (`ActiveIs`), the history has a row for each key that is over (`HistoryIs`),
  the table is both, sorted, with no key twice (`TableIs`);
- the state: `Inv` says that the alerts cached and those just answered are alerts that were
  issued, each there once (`TrueAlerts`), that the end `history_from_alerts` reckons for
  one is not after the true one unless the decision was lifted, and that an answer of
  decisions lists every ban issued by then (`upTo`) that has not ended since
  (`ListingsInv`). `Grows` and `WorldStep` carry both over whatever happens between
  the two answers. So a ban that the history takes for running, and that was issued before
  the decisions were answered, is in their list.

The first three are theorems about a step, `Spec => [][Rebuilt => ...]_vars`: a cycle that
loses the decisions keeps its rows, which then describe an older cache. `CutStep`,
`BansStep` and `DescribedStep` prove them of one `CycleEnds`, from `RowsAre`, which says
what the rows of the step are. `ReportIs` does the same for the report.

Induction over data is done by least counterexample: the natural numbers are well
founded (`NatLessThanWellFounded`, `WFMin`), so a set of numbers for which a
statement fails has a least one (`Least`), and that one is refuted. Recursion is
written as a recursive function in a `LET`, whose existence is proved the same way
(`IndexExists`).

Only model-checked: liveness (`BacklogDrains`, `AlertPickedUp`, `EveryCallEnds`), which
is out of the prover's reach, and that the two findings with a run are violations.

## Not modelled

- The metrics parser, diagnostics, validation and the helpers of the cards are pure
  functions or views without state. `RateProblem` and `UpdateCycle` start from what
  the parser returns: a counter that is there, or is missing.
- Texts, translations, styles, the cards' editors, debug logs and examples.
- `UpdateCycle`: the firmware version of the device, which is written when the
  version of CrowdSec changes. `AlertPolling`: the counts and top lists of
  `summarize_alerts`; simulated alerts and alerts without an identifier.
- `LapiAuth`: cancellation of a task (it is part of `CycleFails` in `AlertPolling`),
  and ban, unban and delete, which take the machine path like an alert call. What
  they do to the decisions is in `TableCommands`, where a request is one step.
- `DecisionTable`: the part of the IP report that counts alerts and lists scenarios,
  and several decisions in one alert.
- `TableCommands`: choosing the instance (`ws_instances`, the switch in the card),
  commands refused before they act (not an administrator, not a valid address, entry
  not loaded), and more than one modifying command at a time; a load or a lookup
  may overlap one.
- Entities are modelled as far as their availability and the values a cycle hands
  them (`UpdateCycle`); their names, icons and attributes are not.

## Plan

What is left, in the order of its worth:

1. Two modifying commands at once in `TableCommands`: two users lift and issue bans
   for one address while a debounced refresh is pending.
2. Several instances in the cards: the switch while a load is in flight.
3. `CycleFails` by cancellation in `LapiAuth`: a task that ends while it waits for the
   lock or holds it.
