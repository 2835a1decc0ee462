------------------------- MODULE AlertPollingProofs -------------------------
(***************************************************************************)
(* The safety properties of AlertPolling, and that it implements BanFeed,  *)
(* for every set of alerts, every window, interval, overlap, cap and       *)
(* length of the run.                                                      *)
(***************************************************************************)
EXTENDS AlertPolling, TLAPS

-----------------------------------------------------------------------------
(* The inductive invariant, by the state it relates *)

\* Where the clock readings of the coordinator lie, and which of them are set
\* together: the first answer that is absorbed is always that of a full query.
ClockInv ==
    /\ phase \in Running => started <= now /\ polledAt <= started
    /\ polledAt <= now
    /\ baseline <=> fullAt # Never
    /\ baseline <=> polledAt # Never
    /\ phase \in Running /\ ~full => fullAt # Never /\ started - fullAt < FullInterval

\* An alert in an answer is listed, and what is known is in the cache.
ListedInv ==
    /\ Seen(answer) \subseteq Seen(lapi)
    /\ Seen(cache) \subseteq Seen(lapi)
    /\ known \subseteq Seen(cache)

\* What an answer that is not flagged holds of the alerts listed when its cycle
\* began, but for what it has lost: a full one the whole window, an incremental
\* one everything listed since the last absorbed cycle.
AnswerCovers ==
    phase = "answered" /\ ~cut =>
        \A a \in Seen(lapi) \ lost :
            /\ listedAt[a] < started
            /\ IF full THEN created[a] >= now - Window ELSE listedAt[a] >= polledAt
            => a \in Seen(answer)

\* Announced alerts stay known until they age out, and a full answer brings
\* them back, unless an answer once left them out.
AnnouncedInv ==
    /\ announced \subseteq Seen(lapi)
    /\ \A a \in announced \ omitted :
          baseline => a \in known \/ created[a] < now - Window
    /\ phase = "answered" /\ full =>
          \A a \in announced \ omitted :
              a \in Seen(answer) \/ created[a] < now - Window

TruncationInv == (reported <=> truncated) /\ (truncated => issue)

Inv ==
    /\ TypeOK
    /\ ClockInv
    /\ ListedInv
    /\ AnswerCovers
    /\ WindowComplete
    /\ KnownBansAccounted
    /\ AnnouncedInv
    /\ FullQueryInTime
    /\ TruncationInv

-----------------------------------------------------------------------------
(* What the pieces of a cycle return *)

\* Rounding down to whole minutes loses less than a minute.
LEMMA WholeMinutesBounds ==
    ASSUME NEW e \in Nat
    PROVE  /\ WholeMinutes(e) \in Nat
           /\ e - Minute < WholeMinutes(e)
           /\ WholeMinutes(e) <= e
<1>1. e % Minute \in Nat /\ e % Minute < Minute /\ e % Minute <= e
  BY MinuteAssumption
<1>2. QED
  BY <1>1, MinuteAssumption DEF WholeMinutes

\* The overlap is a whole number of ticks.
LEMMA OverlapIsNat == Overlap * Minute \in Nat
  BY MinuteAssumption

\* An answer is a content of the cache.
LEMMA PartType ==
    ASSUME lapi \in [Alerts -> Content], NEW S
    PROVE  Part(S) \in [Alerts -> Content]
  BY DEF Part, Content

\* What a cycle absorbs is a content of the cache.
LEMMA AbsorbedType ==
    ASSUME TypeOK
    PROVE  Absorbed \in [Alerts -> Content]
<1>1. Merge(cache, answer) \in [Alerts -> Content]
  BY DEF TypeOK, Merge
<1>2. (IF full THEN answer ELSE Merge(cache, answer)) \in [Alerts -> Content]
  BY <1>1 DEF TypeOK
<1>3. ASSUME NEW content \in [Alerts -> Content]
      PROVE  Prune(content) \in [Alerts -> Content]
  BY DEF Prune, Content
<1>4. QED
  BY <1>2, <1>3 DEF Absorbed

LEMMA NothingType == Nothing \in [Alerts -> Content]
  BY DEF Nothing, Content

\* The locals of a cycle keep their types when it ends.
LEMMA EndOfCycleType ==
    ASSUME EndOfCycle
    PROVE  /\ started' \in Times /\ full' \in BOOLEAN
           /\ answer' \in [Alerts -> Content] /\ cut' \in BOOLEAN /\ lost' \in SUBSET Alerts
<1>1. full' \in BOOLEAN /\ cut' \in BOOLEAN /\ lost' \in SUBSET Alerts
  BY DEF EndOfCycle
<1>2. started' \in Times
  BY BoundAssumption DEF EndOfCycle, Times
<1>3. answer' \in [Alerts -> Content]
  BY NothingType DEF EndOfCycle
<1>4. QED
  BY <1>1, <1>2, <1>3

\* Only new bans are reported.
LEMMA ReportedAreNew ==
    ASSUME NEW fresh, NEW out \in ReportNow(fresh)
    PROVE  out \subseteq fresh
  BY DEF ReportNow

-----------------------------------------------------------------------------
(* Types *)

LEMMA TypeInit == Init => TypeOK
<1> SUFFICES ASSUME Init PROVE TypeOK
  OBVIOUS
<1>1. now \in Times /\ started \in Times
  BY BoundAssumption DEF Init, FreshCoordinator, Times
<1>2. lapi \in [Alerts -> Content] /\ answer \in [Alerts -> Content]
      /\ cache \in [Alerts -> Content]
  BY NothingType DEF Init, FreshCoordinator
<1>3. created \in [Alerts -> Int] /\ listedAt \in [Alerts -> Times]
  BY <1>1 DEF Init
<1>4. QED
  BY <1>1, <1>2, <1>3 DEF Init, FreshCoordinator, TypeOK, Phases, Running

LEMMA TypeStep == TypeOK /\ [Next]_vars => TypeOK'
<1> SUFFICES ASSUME TypeOK, [Next]_vars
             PROVE  TypeOK'
  OBVIOUS
<1>1. CASE Tick
  BY <1>1, BoundAssumption
  DEF Tick, TypeOK, Times, cycleVars, coordVars, eventVars, gapVars
<1>2. ASSUME NEW a \in Alerts, NEW kind \in {"plain", "ban"}, NewAlert(a, kind)
      PROVE  TypeOK'
  <2>1. lapi' \in [Alerts -> Content]
    BY <1>2 DEF NewAlert, TypeOK, Content
  <2>2. created' \in [Alerts -> Int]
    BY <1>2, BoundAssumption DEF NewAlert, TypeOK, Times
  <2>3. listedAt' \in [Alerts -> Times]
    BY <1>2 DEF NewAlert, TypeOK
  <2>4. QED
    BY <1>2, <2>1, <2>2, <2>3
    DEF NewAlert, TypeOK, cycleVars, coordVars, eventVars, gapVars
<1>3. ASSUME NEW a \in Alerts, BanAdded(a)
      PROVE  TypeOK'
  BY <1>3 DEF BanAdded, TypeOK, Content, cycleVars, coordVars, eventVars, gapVars
<1>4. CASE RequestFullAlertPoll
  BY <1>4 DEF RequestFullAlertPoll, TypeOK, lapiVars, cycleVars, eventVars, gapVars
<1>5. CASE CycleStart
  BY <1>5
  DEF CycleStart, DueInFull, TypeOK, Phases, Running, lapiVars, coordVars, eventVars, gapVars
<1>6. ASSUME NEW S \in SUBSET Requested, Answer(S),
             cut' \in BOOLEAN, lost' \in SUBSET Alerts
      PROVE  TypeOK'
  <2>1. Requested \subseteq Alerts
    BY DEF Requested, Seen
  <2>2. answer' \in [Alerts -> Content] /\ omitted' \in SUBSET Alerts
    BY <1>6, <2>1, PartType DEF Answer, TypeOK
  <2>3. QED
    BY <1>6, <2>2 DEF Answer, TypeOK, Phases, Running, lapiVars, coordVars, eventVars
<1>7. CASE AnswerComplete \/ AnswerAtSeams \/ AnswerTruncated
  <2>1. ASSUME NEW S, Unflagged(S) PROVE cut' \in BOOLEAN /\ lost' \in SUBSET Alerts
    BY <2>1 DEF Unflagged, Requested, Overdue, Seen
  <2>2. CASE AnswerTruncated
    BY <1>6, <2>2 DEF AnswerTruncated, TypeOK
  <2>3. CASE AnswerComplete \/ AnswerAtSeams
    BY <1>6, <2>1, <2>3 DEF AnswerComplete, AnswerAtSeams
  <2>4. QED
    BY <1>7, <2>2, <2>3
<1>8. CASE CycleFails \/ LoginRejected
  BY <1>8, EndOfCycleType
  DEF CycleFails, LoginRejected, TypeOK, Phases, lapiVars, coordVars, eventVars, gapVars
<1>9. CASE CycleEnds
  <2>1. phase' \in Phases /\ started' \in Times /\ full' \in BOOLEAN
        /\ answer' \in [Alerts -> Content] /\ cut' \in BOOLEAN /\ lost' \in SUBSET Alerts
    BY <1>9, EndOfCycleType DEF CycleEnds, Phases
  <2>2. cache' \in [Alerts -> Content] /\ fullAt' \in Times \cup {Never}
        /\ polledAt' \in Times \cup {Never} /\ force' \in BOOLEAN
        /\ truncated' \in BOOLEAN /\ missed' \in SUBSET Alerts
    BY <1>9, AbsorbedType DEF CycleEnds, AbsorbAlerts, TypeOK
  <2>3. PICK out \in ReportNow(NewBans(Absorbed)) :
            /\ announced' = announced \cup out
            /\ known' = Seen(Absorbed) \ (NewBans(Absorbed) \ out)
    BY <1>9 DEF CycleEnds, FireBanEvents
  <2>4. out \subseteq Alerts
    BY ReportedAreNew DEF NewBans, Bans
  <2>5. announced' \in SUBSET Alerts /\ known' \in SUBSET Alerts
    BY <2>3, <2>4 DEF TypeOK, Seen
  <2>6. silenced' \in SUBSET Alerts /\ late' \in SUBSET Alerts /\ baseline' \in BOOLEAN
    BY <1>9 DEF CycleEnds, FireBanEvents, TypeOK, Bans
  <2>7. reported' \in BOOLEAN /\ issue' \in BOOLEAN
    BY <1>9, <2>2 DEF CycleEnds, ReportTruncation, TypeOK
  <2>8. now' \in Times /\ lapi' \in [Alerts -> Content] /\ created' \in [Alerts -> Int]
        /\ listedAt' \in [Alerts -> Times] /\ omitted' \in SUBSET Alerts
    BY <1>9 DEF CycleEnds, TypeOK, lapiVars
  <2>9. QED
    BY <2>1, <2>2, <2>5, <2>6, <2>7, <2>8 DEF TypeOK
<1>10. ASSUME NewCoordinator, issue' \in BOOLEAN
       PROVE  TypeOK'
  BY <1>10, EndOfCycleType, NothingType DEF NewCoordinator, TypeOK, Phases, lapiVars, eventVars
<1>11. CASE ReloadEntry
  BY <1>10, <1>11 DEF ReloadEntry, TypeOK
<1>12. CASE RestartHomeAssistant
  BY <1>10, <1>12 DEF RestartHomeAssistant
<1>13. CASE UNCHANGED vars
  BY <1>13 DEF vars, TypeOK, lapiVars, cycleVars, coordVars, eventVars, gapVars
<1>14. QED
  BY <1>1, <1>2, <1>3, <1>4, <1>5, <1>7, <1>8, <1>9, <1>11, <1>12, <1>13 DEF Next

\* The variables keep their types.
THEOREM TypeCorrect == Spec => []TypeOK
<1>1. QED
  BY TypeInit, TypeStep, PTL DEF Spec
-----------------------------------------------------------------------------
(* The clock *)

LEMMA ClockInit == Init => ClockInv
  BY BoundAssumption DEF Init, FreshCoordinator, ClockInv, Never, Running

LEMMA ClockStep == TypeOK /\ ClockInv /\ [Next]_vars => ClockInv'
<1> SUFFICES ASSUME TypeOK, ClockInv, [Next]_vars
             PROVE  ClockInv'
  OBVIOUS
<1> USE BoundAssumption
<1>1. CASE Tick
  <2>1. now' = now + 1 /\ now \in Nat /\ started \in Nat
    BY <1>1 DEF Tick, TypeOK, Times
  <2>2. polledAt \in Int
    BY DEF TypeOK, Times, Never
  <2>3. phase \in Running => started <= now' /\ polledAt <= started
    BY <2>1 DEF ClockInv
  <2>4. polledAt <= now'
    BY <2>1, <2>2 DEF ClockInv
  <2>5. QED
    BY <1>1, <2>3, <2>4 DEF Tick, ClockInv, cycleVars, coordVars
<1>2. ASSUME NEW a \in Alerts, NEW kind \in {"plain", "ban"}, NewAlert(a, kind)
      PROVE  ClockInv'
  BY <1>2 DEF NewAlert, ClockInv, cycleVars, coordVars
<1>3. ASSUME NEW a \in Alerts, BanAdded(a)
      PROVE  ClockInv'
  BY <1>3 DEF BanAdded, ClockInv, cycleVars, coordVars
<1>4. CASE RequestFullAlertPoll
  BY <1>4 DEF RequestFullAlertPoll, ClockInv, lapiVars, cycleVars
<1>5. CASE CycleStart
  <2>1. now \in Nat /\ (fullAt # Never => fullAt \in Nat)
    BY DEF TypeOK, Times
  <2>2. ~full' => fullAt # Never /\ ~(now - fullAt >= FullInterval)
    BY <1>5 DEF CycleStart, DueInFull
  <2>3. ~full' => fullAt' # Never /\ started' - fullAt' < FullInterval
    BY <1>5, <2>1, <2>2, SpanAssumption DEF CycleStart, coordVars
  <2>4. started' = now' /\ polledAt' <= started'
    BY <1>5, <2>1 DEF CycleStart, ClockInv, lapiVars, coordVars
  <2>5. QED
    BY <1>5, <2>1, <2>3, <2>4 DEF CycleStart, ClockInv, lapiVars, coordVars
<1>6. CASE AnswerComplete \/ AnswerAtSeams \/ AnswerTruncated
  BY <1>6
  DEF AnswerComplete, AnswerAtSeams, AnswerTruncated, Answer, ClockInv, Running, lapiVars,
      coordVars
<1>7. CASE CycleFails \/ LoginRejected
  BY <1>7
  DEF CycleFails, LoginRejected, EndOfCycle, ClockInv, Running, lapiVars, coordVars
<1>8. CASE CycleEnds
  <2>1. started <= now /\ started # Never
    BY <1>8 DEF CycleEnds, ClockInv, Running, TypeOK, Times, Never
  <2>2. polledAt' = started /\ now' = now /\ baseline' = TRUE
        /\ fullAt' = IF full THEN started ELSE fullAt
    BY <1>8 DEF CycleEnds, AbsorbAlerts, FireBanEvents, lapiVars
  <2>3. fullAt' # Never /\ polledAt' # Never /\ polledAt' <= now' /\ baseline'
    BY <1>8, <2>1, <2>2 DEF CycleEnds, ClockInv, Running
  <2>4. phase' \notin Running
    BY <1>8 DEF CycleEnds, Running
  <2>5. QED
    BY <2>3, <2>4 DEF ClockInv
<1>9. CASE NewCoordinator
  BY <1>9 DEF NewCoordinator, EndOfCycle, ClockInv, Running, TypeOK, Times, Never, lapiVars
<1>10. CASE ReloadEntry \/ RestartHomeAssistant
  BY <1>9, <1>10 DEF ReloadEntry, RestartHomeAssistant
<1>11. CASE UNCHANGED vars
  BY <1>11 DEF vars, ClockInv, lapiVars, cycleVars, coordVars
<1>12. QED
  BY <1>1, <1>2, <1>3, <1>4, <1>5, <1>6, <1>7, <1>8, <1>10, <1>11 DEF Next

\* An incremental query asks for whatever came on the list since the last absorbed
\* cycle, unless it is overdue.
LEMMA SpanReachesBack ==
    ASSUME TypeOK, ClockInv, phase = "querying", ~full,
           NEW a \in Seen(lapi), listedAt[a] >= polledAt, a \notin Overdue
    PROVE  a \in Requested
<1>1. /\ polledAt # Never /\ polledAt \in Nat /\ started \in Nat /\ now \in Nat
      /\ listedAt[a] \in Nat /\ created[a] \in Int
  BY BoundAssumption DEF ClockInv, Running, TypeOK, Times, Seen
<1>2. started - polledAt \in Nat
  BY <1>1 DEF ClockInv, Running
<1> DEFINE whole == WholeMinutes(started - polledAt)
           overlap == Overlap * Minute
<1>3. whole \in Nat /\ (started - polledAt) - Minute < whole
  BY <1>2, WholeMinutesBounds
<1>4. overlap \in Nat
  BY OverlapIsNat
<1>5. (listedAt[a] - created[a]) + (now - started) + Minute <= overlap
  BY <1>1, <1>4, MinuteAssumption DEF Overdue
<1>6. Span = whole + overlap
  BY <1>1 DEF Span
<1> HIDE DEF whole, overlap
<1>7. created[a] >= now - Span
  BY <1>1, <1>3, <1>4, <1>5, <1>6, MinuteAssumption
<1>8. QED
  BY <1>7 DEF Requested

\* A full query asks for the whole window.
LEMMA SpanOfFull == full => Span = Window
  BY DEF Span

LEMMA FullInTimeStep ==
    TypeOK /\ ClockInv /\ FullQueryInTime /\ [Next]_vars => FullQueryInTime'
<1> SUFFICES ASSUME TypeOK, ClockInv, FullQueryInTime, [Next]_vars
             PROVE  FullQueryInTime'
  OBVIOUS
<1>1. CASE CycleEnds
  <2>1. phase \in Running /\ polledAt' = started
        /\ fullAt' = IF full THEN started ELSE fullAt
    BY <1>1 DEF CycleEnds, AbsorbAlerts, Running
  <2>2. QED
    BY <2>1 DEF ClockInv, FullQueryInTime
<1>2. CASE NewCoordinator
  BY <1>2 DEF NewCoordinator, FullQueryInTime
<1>3. CASE UNCHANGED <<baseline, polledAt, fullAt>>
  BY <1>3 DEF FullQueryInTime
<1>4. QED
  BY <1>1, <1>2, <1>3
  DEF Next, vars, Tick, NewAlert, BanAdded, RequestFullAlertPoll, CycleStart,
      AnswerComplete, AnswerAtSeams, AnswerTruncated, Answer, CycleFails, LoginRejected,
      ReloadEntry, RestartHomeAssistant,
      coordVars

-----------------------------------------------------------------------------
(* What is listed, cached and known *)

LEMMA ListedStep == TypeOK /\ ListedInv /\ [Next]_vars => ListedInv'
<1> SUFFICES ASSUME TypeOK, ListedInv, [Next]_vars
             PROVE  ListedInv'
  OBVIOUS
<1>1. ASSUME NEW a \in Alerts, NEW kind \in {"plain", "ban"}, NewAlert(a, kind)
      PROVE  ListedInv'
  <2>1. Seen(lapi) \subseteq Seen(lapi')
    BY <1>1 DEF NewAlert, Seen, TypeOK
  <2>2. QED
    BY <1>1, <2>1 DEF NewAlert, ListedInv, cycleVars, coordVars, Seen
<1>2. ASSUME NEW a \in Alerts, BanAdded(a)
      PROVE  ListedInv'
  <2>1. Seen(lapi') = Seen(lapi)
    BY <1>2 DEF BanAdded, Seen, TypeOK
  <2>2. QED
    BY <1>2, <2>1 DEF BanAdded, ListedInv, cycleVars, coordVars, Seen
<1>3. ASSUME NEW S \in SUBSET Requested, answer' = Part(S),
             UNCHANGED <<lapi, cache, known>>
      PROVE  ListedInv'
  <2>1. Seen(answer') \subseteq Seen(lapi)
    BY <1>3 DEF Part, Seen, Requested
  <2>2. QED
    BY <1>3, <2>1 DEF ListedInv, Seen
<1>4. CASE AnswerComplete \/ AnswerAtSeams
  BY <1>3, <1>4 DEF AnswerComplete, AnswerAtSeams, Answer, lapiVars, coordVars
<1>5. CASE AnswerTruncated
  BY <1>3, <1>5 DEF AnswerTruncated, Answer, lapiVars, coordVars
<1>6. CASE CycleFails \/ LoginRejected
  BY <1>6
  DEF CycleFails, LoginRejected, EndOfCycle, ListedInv, Nothing, Seen, lapiVars, coordVars
<1>7. CASE CycleEnds
  <2>1. Seen(Absorbed) \subseteq Seen(lapi)
    BY DEF Absorbed, Prune, Merge, Seen, ListedInv
  <2>2. known' \subseteq Seen(Absorbed)
    BY <1>7 DEF CycleEnds, FireBanEvents
  <2>3. QED
    BY <1>7, <2>1, <2>2
    DEF CycleEnds, EndOfCycle, AbsorbAlerts, ListedInv, Nothing, Seen, lapiVars
<1>8. CASE NewCoordinator
  BY <1>8 DEF NewCoordinator, EndOfCycle, ListedInv, Nothing, Seen, lapiVars
<1>9. CASE UNCHANGED <<lapi, answer, cache, known>>
  BY <1>9 DEF ListedInv, Seen
<1>10. QED
  BY <1>1, <1>2, <1>4, <1>5, <1>6, <1>7, <1>8, <1>9
  DEF Next, vars, Tick, RequestFullAlertPoll, CycleStart, ReloadEntry,
      RestartHomeAssistant, lapiVars, cycleVars, coordVars
-----------------------------------------------------------------------------
(* Completeness of the window *)

LEMMA CoversStep ==
    TypeOK /\ ClockInv /\ AnswerCovers /\ [Next]_vars => AnswerCovers'
<1> SUFFICES ASSUME TypeOK, ClockInv, AnswerCovers, [Next]_vars
             PROVE  AnswerCovers'
  OBVIOUS
<1>0. now \in Nat /\ started \in Nat /\ polledAt \in Int
  BY DEF TypeOK, Times, Never
<1>1. CASE Tick
  <2>1. SUFFICES ASSUME phase = "answered", ~cut, NEW a \in Seen(lapi) \ lost,
                        listedAt[a] < started,
                        IF full THEN created[a] >= now' - Window ELSE listedAt[a] >= polledAt
                 PROVE  a \in Seen(answer)
    BY <1>1 DEF Tick, AnswerCovers, Seen, cycleVars, coordVars
  <2>2. created[a] \in Int
    BY DEF TypeOK, Seen
  <2>3. IF full THEN created[a] >= now - Window ELSE listedAt[a] >= polledAt
    BY <1>0, <1>1, <2>1, <2>2, SpanAssumption DEF Tick
  <2>4. QED
    BY <2>1, <2>3 DEF AnswerCovers
<1>2. ASSUME NEW a \in Alerts, NEW kind \in {"plain", "ban"}, NewAlert(a, kind)
      PROVE  AnswerCovers'
  <2>1. SUFFICES ASSUME phase = "answered", ~cut, NEW b \in Seen(lapi') \ lost,
                        listedAt'[b] < started,
                        IF full THEN created'[b] >= now - Window
                                ELSE listedAt'[b] >= polledAt
                 PROVE  b \in Seen(answer)
    BY <1>2 DEF NewAlert, AnswerCovers, Seen, cycleVars, coordVars
  <2>2. CASE b = a
    <3>1. listedAt'[a] = now /\ started <= now
      BY <1>2, <2>1 DEF NewAlert, TypeOK, ClockInv, Running
    <3>2. QED
      BY <1>0, <2>1, <2>2, <3>1
  <2>3. CASE b # a
    BY <1>2, <2>1, <2>3 DEF NewAlert, AnswerCovers, Seen, TypeOK
  <2>4. QED
    BY <2>2, <2>3
<1>3. ASSUME NEW a \in Alerts, BanAdded(a)
      PROVE  AnswerCovers'
  <2>1. Seen(lapi') = Seen(lapi)
    BY <1>3 DEF BanAdded, Seen, TypeOK
  <2>2. QED
    BY <1>3, <2>1 DEF BanAdded, AnswerCovers, cycleVars, coordVars, Seen
<1>4. ASSUME NEW S \in SUBSET Requested, Answer(S), Unflagged(S)
      PROVE  AnswerCovers'
  <2>1. SUFFICES ASSUME NEW a \in Seen(lapi), a \notin lost',
                        IF full THEN created[a] >= now - Window ELSE listedAt[a] >= polledAt
                 PROVE  a \in Seen(answer')
    BY <1>4 DEF Answer, AnswerCovers, Seen, lapiVars, coordVars
  <2>2. phase = "querying" /\ created[a] \in Int
    BY <1>4 DEF Answer, TypeOK, Seen
  <2>3. a \in Requested \cup Overdue
    <3>1. CASE full
      BY <2>1, <3>1, SpanOfFull DEF Requested
    <3>2. CASE ~full
      BY <2>1, <2>2, <3>2, SpanReachesBack
    <3>3. QED
      BY <3>1, <3>2
  <2>4. a \in S
    BY <1>4, <2>1, <2>3 DEF Unflagged
  <2>5. QED
    BY <1>4, <2>1, <2>4 DEF Answer, Part, Seen
<1>5. CASE AnswerComplete \/ AnswerAtSeams
  BY <1>4, <1>5 DEF AnswerComplete, AnswerAtSeams
<1>6. CASE AnswerTruncated
  BY <1>6 DEF AnswerTruncated, AnswerCovers
<1>7. CASE CycleStart \/ CycleFails \/ LoginRejected \/ CycleEnds \/ NewCoordinator
  BY <1>7
  DEF CycleStart, CycleFails, LoginRejected, CycleEnds, NewCoordinator, AnswerCovers
<1>8. CASE UNCHANGED <<lapiVars, cycleVars, polledAt>>
  BY <1>8 DEF lapiVars, cycleVars, AnswerCovers, Seen
<1>9. QED
  BY <1>1, <1>2, <1>3, <1>5, <1>6, <1>7, <1>8
  DEF Next, vars, RequestFullAlertPoll, ReloadEntry, RestartHomeAssistant, lapiVars,
      coordVars

LEMMA WindowStep ==
    TypeOK /\ ClockInv /\ AnswerCovers /\ WindowComplete /\ [Next]_vars
        => WindowComplete'
<1> SUFFICES ASSUME TypeOK, ClockInv, AnswerCovers, WindowComplete, [Next]_vars
             PROVE  WindowComplete'
  OBVIOUS
<1>0. now \in Nat /\ started \in Nat /\ polledAt \in Int /\ polledAt <= now
  BY DEF TypeOK, Times, Never, ClockInv
<1>1. CASE Tick
  <2>1. SUFFICES ASSUME ~truncated, NEW a \in Seen(lapi) \ missed, listedAt[a] < polledAt
                 PROVE  a \in Seen(cache) \/ created[a] < now' - Window
    BY <1>1 DEF Tick, WindowComplete, Seen, coordVars, gapVars
  <2>2. created[a] \in Int
    BY DEF TypeOK, Seen
  <2>3. a \in Seen(cache) \/ created[a] < now - Window
    BY <2>1 DEF WindowComplete
  <2>4. QED
    BY <1>0, <1>1, <2>2, <2>3, SpanAssumption DEF Tick
<1>2. ASSUME NEW a \in Alerts, NEW kind \in {"plain", "ban"}, NewAlert(a, kind)
      PROVE  WindowComplete'
  <2>1. SUFFICES ASSUME ~truncated, NEW b \in Seen(lapi') \ missed, listedAt'[b] < polledAt
                 PROVE  b \in Seen(cache) \/ created'[b] < now - Window
    BY <1>2 DEF NewAlert, WindowComplete, Seen, coordVars, gapVars
  <2>2. CASE b = a
    <3>1. listedAt'[a] = now
      BY <1>2 DEF NewAlert, TypeOK
    <3>2. QED
      BY <1>0, <2>1, <2>2, <3>1
  <2>3. CASE b # a
    BY <1>2, <2>1, <2>3 DEF NewAlert, WindowComplete, Seen, TypeOK
  <2>4. QED
    BY <2>2, <2>3
<1>3. ASSUME NEW a \in Alerts, BanAdded(a)
      PROVE  WindowComplete'
  <2>1. Seen(lapi') = Seen(lapi)
    BY <1>3 DEF BanAdded, Seen, TypeOK
  <2>2. QED
    BY <1>3, <2>1 DEF BanAdded, WindowComplete, coordVars, gapVars, Seen
<1>4. CASE CycleEnds
  <2>1. SUFFICES ASSUME ~truncated', NEW a \in Seen(lapi), a \notin missed',
                        listedAt[a] < started,
                        ~(created[a] < now - Window),
                        a \notin Seen(Absorbed)
                 PROVE  FALSE
    BY <1>4 DEF CycleEnds, AbsorbAlerts, WindowComplete, Seen, lapiVars
  <2>2. phase = "answered" /\ ~cut /\ created[a] \in Int /\ listedAt[a] \in Int
    BY <1>4, <2>1 DEF CycleEnds, AbsorbAlerts, TypeOK, Times, Seen
  <2>3. a \notin lost /\ (~full => a \notin missed)
    BY <1>4, <2>1 DEF CycleEnds, AbsorbAlerts
  <2>4. a \in Seen(IF full THEN answer ELSE Merge(cache, answer))
    <3>1. CASE full
      BY <1>0, <2>1, <2>2, <2>3, <3>1, SpanAssumption DEF AnswerCovers
    <3>2. CASE ~full
      <4>1. CASE listedAt[a] >= polledAt
        BY <2>1, <2>2, <2>3, <3>2, <4>1 DEF AnswerCovers, Merge, Seen
      <4>2. CASE listedAt[a] < polledAt
        <5>1. ~truncated
          BY <1>4, <2>1, <3>2 DEF CycleEnds, AbsorbAlerts
        <5>2. a \in Seen(cache)
          BY <2>1, <2>3, <3>2, <4>2, <5>1 DEF WindowComplete
        <5>3. QED
          BY <3>2, <5>2 DEF Merge, Seen
      <4>3. QED
        BY <1>0, <2>2, <4>1, <4>2
    <3>3. QED
      BY <3>1, <3>2
  <2>5. QED
    BY <2>1, <2>4 DEF Absorbed, Prune, Seen
<1>5. CASE NewCoordinator
  <2>1. \A a \in Seen(lapi) : ~(listedAt[a] < Never)
    BY DEF TypeOK, Seen, Never, Times
  <2>2. QED
    BY <1>5, <2>1 DEF NewCoordinator, WindowComplete, Seen, lapiVars
<1>6. CASE UNCHANGED <<lapiVars, truncated, polledAt, cache, missed>>
  BY <1>6 DEF lapiVars, WindowComplete, Seen
<1>7. QED
  BY <1>1, <1>2, <1>3, <1>4, <1>5, <1>6
  DEF Next, vars, RequestFullAlertPoll, CycleStart, AnswerComplete, AnswerAtSeams,
      AnswerTruncated, Answer, CycleFails, LoginRejected, ReloadEntry,
      RestartHomeAssistant, coordVars, gapVars
-----------------------------------------------------------------------------
(* Ban events *)

\* The bans a cycle makes known and how they are accounted for.
LEMMA KnownStep ==
    TypeOK /\ ListedInv /\ KnownBansAccounted /\ [Next]_vars => KnownBansAccounted'
<1> SUFFICES ASSUME TypeOK, ListedInv, KnownBansAccounted, [Next]_vars
             PROVE  KnownBansAccounted'
  OBVIOUS
<1>1. CASE CycleEnds
  <2>1. PICK out \in ReportNow(NewBans(Absorbed)) :
            /\ announced' = announced \cup out
            /\ known' = Seen(Absorbed) \ (NewBans(Absorbed) \ out)
    BY <1>1 DEF CycleEnds, FireBanEvents
  <2>2. SUFFICES ASSUME NEW a \in known', a \in Bans(Absorbed)
                 PROVE  a \in announced' \cup silenced' \cup late'
    BY <1>1 DEF CycleEnds, AbsorbAlerts, KnownBansAccounted, Bans
  <2>3. CASE ~baseline
    BY <1>1, <2>2, <2>3 DEF CycleEnds, FireBanEvents
  <2>4. CASE baseline /\ a \notin known
    BY <2>1, <2>2, <2>4 DEF NewBans
  <2>5. CASE baseline /\ a \in known
    <3>1. cache[a] \in {"plain", "ban"}
      BY <2>5 DEF ListedInv, TypeOK, Seen, Content
    <3>2. CASE cache[a] = "plain"
      BY <1>1, <2>2, <2>5, <3>2 DEF CycleEnds, FireBanEvents
    <3>3. CASE cache[a] = "ban"
      <4>1. a \in announced \cup silenced \cup late
        BY <2>5, <3>3 DEF KnownBansAccounted, Bans, TypeOK
      <4>2. silenced \subseteq silenced' /\ late \subseteq late'
        BY <1>1 DEF CycleEnds, FireBanEvents
      <4>3. QED
        BY <2>1, <4>1, <4>2
    <3>4. QED
      BY <3>1, <3>2, <3>3
  <2>6. QED
    BY <2>3, <2>4, <2>5
<1>2. CASE NewCoordinator
  BY <1>2 DEF NewCoordinator, KnownBansAccounted
<1>3. CASE UNCHANGED <<cache, known, announced, silenced, late>>
  BY <1>3 DEF KnownBansAccounted, Bans
<1>4. QED
  BY <1>1, <1>2, <1>3
  DEF Next, vars, Tick, NewAlert, BanAdded, RequestFullAlertPoll, CycleStart,
      AnswerComplete, AnswerAtSeams, AnswerTruncated, Answer, CycleFails, LoginRejected,
      ReloadEntry, RestartHomeAssistant,
      coordVars, eventVars

LEMMA AnnouncedStep ==
    TypeOK /\ ClockInv /\ ListedInv /\ AnnouncedInv /\ [Next]_vars => AnnouncedInv'
<1> SUFFICES ASSUME TypeOK, ClockInv, ListedInv, AnnouncedInv, [Next]_vars
             PROVE  AnnouncedInv'
  OBVIOUS
<1>0. now \in Nat /\ \A a \in Alerts : created[a] \in Int
  BY DEF TypeOK, Times
<1>1. CASE Tick
  <2>1. \A a \in Alerts : created[a] < now - Window => created[a] < now' - Window
    BY <1>0, <1>1, SpanAssumption DEF Tick
  <2>2. announced \subseteq Alerts
    BY DEF TypeOK
  <2>3. QED
    BY <1>1, <2>1, <2>2 DEF Tick, AnnouncedInv, Seen, cycleVars, coordVars, eventVars, gapVars
<1>2. ASSUME NEW a \in Alerts, NEW kind \in {"plain", "ban"}, NewAlert(a, kind)
      PROVE  AnnouncedInv'
  <2>1. a \notin announced
    BY <1>2 DEF NewAlert, AnnouncedInv, Seen
  <2>2. \A b \in announced : created'[b] = created[b] /\ lapi'[b] = lapi[b]
    BY <1>2, <2>1 DEF NewAlert, TypeOK
  <2>3. QED
    BY <1>2, <2>2 DEF NewAlert, AnnouncedInv, Seen, cycleVars, coordVars, eventVars, gapVars
<1>3. ASSUME NEW a \in Alerts, BanAdded(a)
      PROVE  AnnouncedInv'
  <2>1. Seen(lapi') = Seen(lapi)
    BY <1>3 DEF BanAdded, Seen, TypeOK
  <2>2. QED
    BY <1>3, <2>1 DEF BanAdded, AnnouncedInv, cycleVars, coordVars, eventVars, gapVars, Seen
<1>4. ASSUME NEW S \in SUBSET Requested, answer' = Part(S),
             omitted \cup (Requested \ S) \subseteq omitted',
             UNCHANGED <<lapiVars, full, coordVars, eventVars>>
      PROVE  AnnouncedInv'
  <2>1. ASSUME full, NEW a \in announced \ omitted', ~(created[a] < now - Window)
        PROVE  a \in Seen(answer')
    <3>1. a \in Requested
      BY <1>0, <2>1, SpanOfFull, SpanAssumption DEF AnnouncedInv, Requested, Seen
    <3>2. a \in S
      BY <1>4, <2>1, <3>1
    <3>3. QED
      BY <1>4, <3>1, <3>2 DEF Part, Requested, Seen
  <2>2. QED
    BY <1>4, <2>1 DEF AnnouncedInv, Seen, lapiVars, coordVars, eventVars
<1>5. CASE AnswerComplete \/ AnswerAtSeams
  BY <1>4, <1>5 DEF AnswerComplete, AnswerAtSeams, Answer
<1>6. CASE AnswerTruncated
  BY <1>4, <1>6 DEF AnswerTruncated, Answer
<1>7. CASE CycleStart
  BY <1>7 DEF CycleStart, AnnouncedInv, Seen, lapiVars, coordVars, eventVars, gapVars
<1>8. CASE CycleFails \/ LoginRejected
  BY <1>8
  DEF CycleFails, LoginRejected, EndOfCycle, AnnouncedInv, Seen, lapiVars, coordVars,
      eventVars, gapVars
<1>9. CASE CycleEnds
  <2>1. PICK out \in ReportNow(NewBans(Absorbed)) :
            /\ announced' = announced \cup out
            /\ known' = Seen(Absorbed) \ (NewBans(Absorbed) \ out)
    BY <1>9 DEF CycleEnds, FireBanEvents
  <2>2. out \subseteq NewBans(Absorbed)
    BY ReportedAreNew
  <2>3. out \subseteq Seen(Absorbed) /\ Seen(Absorbed) \subseteq Seen(lapi)
    BY <2>2 DEF NewBans, Bans, Seen, Absorbed, Prune, Merge, ListedInv
  <2>4. ASSUME NEW a \in announced \ omitted, ~(created[a] < now - Window)
        PROVE  a \in known'
    <3>1. phase = "answered" /\ a \in Alerts
      BY <1>9 DEF CycleEnds, TypeOK
    <3>2. a \in Seen(IF full THEN answer ELSE Merge(cache, answer))
      <4>1. CASE full
        BY <2>4, <3>1, <4>1 DEF AnnouncedInv
      <4>2. CASE ~full
        <5>1. baseline
          BY <3>1, <4>2 DEF ClockInv, Running
        <5>2. a \in Seen(cache)
          BY <2>4, <5>1 DEF AnnouncedInv, ListedInv
        <5>3. QED
          BY <4>2, <5>2 DEF Merge, Seen
      <4>3. QED
        BY <4>1, <4>2
    <3>3. a \in Seen(Absorbed)
      BY <2>4, <3>2 DEF Absorbed, Prune, Seen
    <3>4. a \notin NewBans(Absorbed)
      BY <2>4 DEF NewBans, AnnouncedInv
    <3>5. QED
      BY <2>1, <3>3, <3>4
  <2>5. phase' = "idle" /\ UNCHANGED <<lapiVars, omitted>>
    BY <1>9 DEF CycleEnds, EndOfCycle
  <2>6. \A a \in out : a \in known'
    BY <2>1, <2>3
  <2>7. QED
    BY <2>1, <2>3, <2>4, <2>5, <2>6 DEF AnnouncedInv, Seen, lapiVars
<1>10. CASE NewCoordinator
  BY <1>10 DEF NewCoordinator, EndOfCycle, AnnouncedInv, Seen, lapiVars, eventVars
<1>11. CASE UNCHANGED <<lapiVars, cycleVars, baseline, known, eventVars, omitted>>
  BY <1>11 DEF AnnouncedInv, Seen, lapiVars, cycleVars, eventVars
<1>12. QED
  BY <1>1, <1>2, <1>3, <1>5, <1>6, <1>7, <1>8, <1>9, <1>10, <1>11
  DEF Next, vars, RequestFullAlertPoll, ReloadEntry, RestartHomeAssistant, coordVars, gapVars

\* Of what is announced, only alerts an answer left out can be new again.
LEMMA AnnouncedOnce ==
    TypeOK /\ AnnouncedInv => NoSecondEvent
<1> SUFFICES ASSUME TypeOK, AnnouncedInv, NEW a \in NewBans(Absorbed),
                    a \in announced, a \notin omitted
             PROVE  FALSE
  BY DEF NoSecondEvent
<1>1. baseline /\ a \notin known /\ a \in Bans(Absorbed)
  BY DEF NewBans
<1>2. created[a] < now - Window
  BY <1>1 DEF AnnouncedInv
<1>3. QED
  BY <1>1, <1>2 DEF Absorbed, Prune, Bans

-----------------------------------------------------------------------------
(* The repair issue *)

LEMMA TruncationStep ==
    TypeOK /\ TruncationInv /\ [Next]_vars => TruncationInv'
<1> SUFFICES ASSUME TypeOK, TruncationInv, [Next]_vars
             PROVE  TruncationInv'
  OBVIOUS
<1>1. CASE CycleEnds
  <2>1. reported' = truncated'
        /\ issue' = IF truncated' = reported THEN issue ELSE truncated'
    BY <1>1 DEF CycleEnds, ReportTruncation
  <2>2. reported \in BOOLEAN /\ truncated \in BOOLEAN
    BY DEF TypeOK
  <2>3. CASE truncated' = reported
    BY <2>1, <2>2, <2>3 DEF TruncationInv
  <2>4. CASE truncated' # reported
    BY <2>1, <2>4 DEF TruncationInv
  <2>5. QED
    BY <2>3, <2>4
<1>2. CASE NewCoordinator
  BY <1>2 DEF NewCoordinator, TruncationInv
<1>3. CASE UNCHANGED <<truncated, reported, issue>>
  BY <1>3 DEF TruncationInv
<1>4. QED
  BY <1>1, <1>2, <1>3
  DEF Next, vars, Tick, NewAlert, BanAdded, RequestFullAlertPoll, CycleStart,
      AnswerComplete, AnswerAtSeams, AnswerTruncated, Answer, CycleFails, LoginRejected,
      ReloadEntry, RestartHomeAssistant,
      coordVars

-----------------------------------------------------------------------------
(* The inductive invariant and what it implies *)

LEMMA InvInit == Init => Inv
<1> SUFFICES ASSUME Init PROVE Inv
  OBVIOUS
<1>1. TypeOK /\ ClockInv
  BY TypeInit, ClockInit
<1>2. ListedInv /\ AnswerCovers /\ WindowComplete /\ KnownBansAccounted
      /\ AnnouncedInv /\ FullQueryInTime /\ TruncationInv
  BY DEF Init, FreshCoordinator, Nothing, Seen, ListedInv, AnswerCovers,
         WindowComplete, KnownBansAccounted, AnnouncedInv, FullQueryInTime, TruncationInv
<1>3. QED
  BY <1>1, <1>2 DEF Inv

LEMMA InvStep == Inv /\ [Next]_vars => Inv'
  BY TypeStep, ClockStep, ListedStep, CoversStep, WindowStep, KnownStep, AnnouncedStep,
     FullInTimeStep, TruncationStep
  DEF Inv

\* The inductive invariant holds in every reachable state.
THEOREM Invariance == Spec => []Inv
<1>1. QED
  BY InvInit, InvStep, PTL DEF Spec

\* The 24h numbers that are not called truncated lack nothing but what lay at a
\* seam of the split window or came too late for the overlap.
THEOREM WindowIsComplete == Spec => []WindowComplete
<1>1. Inv => WindowComplete
  BY DEF Inv
<1>2. QED
  BY <1>1, Invariance, PTL

\* No ban becomes known without its event, but for those of a silent first
\* cycle and those that were added to an alert after it was known.
THEOREM NoBanLost == Spec => []KnownBansAccounted
<1>1. Inv => KnownBansAccounted
  BY DEF Inv
<1>2. QED
  BY <1>1, Invariance, PTL

\* No ban is announced twice, over any number of restarts, unless an answer,
\* flagged as truncated or not, left its alert out.
THEOREM NoBanTwice == Spec => []NoSecondEvent
<1>1. Inv => NoSecondEvent
  BY AnnouncedOnce DEF Inv
<1>2. QED
  BY <1>1, Invariance, PTL

\* The last full query is never further back than the interval.
THEOREM FullQueriesInTime == Spec => []FullQueryInTime
<1>1. Inv => FullQueryInTime
  BY DEF Inv
<1>2. QED
  BY <1>1, Invariance, PTL

\* Truncated numbers always come with their repair issue.
THEOREM TruncationIsReported == Spec => []TruncationReported
<1>1. Inv => TruncationReported
  BY DEF Inv, TruncationInv, TruncationReported
<1>2. QED
  BY <1>1, Invariance, PTL

-----------------------------------------------------------------------------
(* AlertPolling implements BanFeed: its initial states map to initial states,  *)
(* and every step maps to a step or a stutter.                                 *)

\* An alert that carries a ban keeps it, so what the cache and the answer know
\* of bans is true, and no answer makes a cached ban plain again.  A full answer
\* leaves out nothing of the cache but what is out of sight.
BanInv ==
    /\ Bans(cache) \subseteq Bans(lapi)
    /\ Bans(answer) \subseteq Bans(lapi)
    /\ phase = "answered" => Bans(cache) \cap Seen(answer) \subseteq Bans(answer)
    /\ phase = "answered" /\ full => Seen(cache) \subseteq Seen(answer) \cup OutOfSight

-----------------------------------------------------------------------------
(* The alerts that are out of sight *)

\* Alerts go out of sight and stay there.
LEMMA SightStep == TypeOK /\ [Next]_vars => OutOfSight \subseteq OutOfSight'
<1> SUFFICES ASSUME TypeOK, [Next]_vars
             PROVE  OutOfSight \subseteq OutOfSight'
  OBVIOUS
<1>0. now \in Nat /\ \A a \in Alerts : created[a] \in Int
  BY DEF TypeOK, Times
<1>1. CASE Tick
  <2>1. now' = now + 1 /\ UNCHANGED <<lapi, created, omitted>>
    BY <1>1 DEF Tick, gapVars
  <2>2. ASSUME NEW a \in Alerts, created[a] < now - Window PROVE created[a] < now' - Window
    BY <1>0, <2>1, <2>2, SpanAssumption
  <2>3. QED
    BY <2>1, <2>2 DEF OutOfSight, Seen
<1>2. ASSUME NEW a \in Alerts, NEW kind \in {"plain", "ban"}, NewAlert(a, kind)
      PROVE  OutOfSight \subseteq OutOfSight'
  <2>1. \A b \in Seen(lapi) : b # a /\ b \in Seen(lapi') /\ created'[b] = created[b]
    BY <1>2 DEF NewAlert, Seen, TypeOK
  <2>2. UNCHANGED <<now, omitted>>
    BY <1>2 DEF NewAlert, gapVars
  <2>3. QED
    BY <2>1, <2>2 DEF OutOfSight
<1>3. ASSUME NEW a \in Alerts, BanAdded(a)
      PROVE  OutOfSight \subseteq OutOfSight'
  <2>1. Seen(lapi) \subseteq Seen(lapi')
    BY <1>3 DEF BanAdded, Seen, TypeOK
  <2>2. QED
    BY <1>3, <2>1 DEF BanAdded, OutOfSight, gapVars
<1>4. CASE AnswerComplete \/ AnswerAtSeams \/ AnswerTruncated
  BY <1>4
  DEF AnswerComplete, AnswerAtSeams, AnswerTruncated, Answer, OutOfSight, lapiVars
<1>5. CASE UNCHANGED <<lapiVars, omitted>>
  BY <1>5 DEF OutOfSight, lapiVars
<1>6. QED
  BY <1>1, <1>2, <1>3, <1>4, <1>5
  DEF Next, vars, RequestFullAlertPoll, CycleStart, CycleFails, LoginRejected, CycleEnds,
      ReloadEntry, RestartHomeAssistant, NewCoordinator, gapVars

\* Bans only come.
LEMMA BansStep == TypeOK /\ [Next]_vars => Bans(lapi) \subseteq Bans(lapi')
<1> SUFFICES ASSUME TypeOK, [Next]_vars
             PROVE  Bans(lapi) \subseteq Bans(lapi')
  OBVIOUS
<1>1. ASSUME NEW a \in Alerts, NEW kind \in {"plain", "ban"}, NewAlert(a, kind)
      PROVE  Bans(lapi) \subseteq Bans(lapi')
  BY <1>1 DEF NewAlert, Bans, TypeOK
<1>2. ASSUME NEW a \in Alerts, BanAdded(a)
      PROVE  Bans(lapi) \subseteq Bans(lapi')
  BY <1>2 DEF BanAdded, Bans, TypeOK
<1>3. CASE UNCHANGED lapi
  BY <1>3 DEF Bans
<1>4. QED
  BY <1>1, <1>2, <1>3
  DEF Next, vars, lapiVars, Tick, RequestFullAlertPoll, CycleStart, AnswerComplete,
      AnswerAtSeams, AnswerTruncated, Answer, CycleFails, LoginRejected, CycleEnds,
      ReloadEntry, RestartHomeAssistant, NewCoordinator

\* What the cycle absorbs comes out of the answer or the cache.
LEMMA AbsorbedBans ==
    ASSUME TypeOK, BanInv, phase = "answered"
    PROVE  /\ Bans(Absorbed) \subseteq Bans(lapi)
           /\ Bans(cache) \ OutOfSight \subseteq Bans(Absorbed)
<1>1. Bans(Absorbed) \subseteq Bans(lapi)
  BY DEF Absorbed, Prune, Merge, Bans, BanInv
<1>2. ASSUME NEW a \in Bans(cache), a \notin OutOfSight
      PROVE  a \in Bans(Absorbed)
  <2>1. a \in Alerts /\ cache[a] = "ban" /\ a \in Seen(lapi)
    BY <1>2 DEF BanInv, Bans, Seen
  <2>2. ~(created[a] < now - Window)
    BY <1>2, <2>1 DEF OutOfSight
  <2>3. (IF full THEN answer ELSE Merge(cache, answer))[a] = "ban"
    <3>1. a \in Seen(answer) => answer[a] = "ban"
      BY <1>2 DEF BanInv, Bans
    <3>2. CASE full
      <4>1. a \in Seen(cache)
        BY <2>1 DEF Seen
      <4>2. a \in Seen(answer)
        BY <1>2, <3>2, <4>1 DEF BanInv
      <4>3. QED
        BY <3>1, <3>2, <4>2
    <3>3. CASE ~full
      BY <2>1, <3>1, <3>3 DEF Merge, Seen
    <3>4. QED
      BY <3>2, <3>3
  <2>4. QED
    BY <2>1, <2>2, <2>3 DEF Absorbed, Prune, Bans
<1>3. QED
  BY <1>1, <1>2

-----------------------------------------------------------------------------
(* The invariant *)

LEMMA BanInit == Init => BanInv
  BY DEF Init, FreshCoordinator, Nothing, BanInv, Bans, Seen

LEMMA BanStep == TypeOK /\ ListedInv /\ BanInv /\ [Next]_vars => BanInv'
<1> SUFFICES ASSUME TypeOK, ListedInv, BanInv, [Next]_vars
             PROVE  BanInv'
  OBVIOUS
<1>1. Bans(lapi) \subseteq Bans(lapi') /\ OutOfSight \subseteq OutOfSight'
  BY BansStep, SightStep
<1>2. ASSUME NEW S \in SUBSET Requested, answer' = Part(S), Requested \ S \subseteq omitted',
             UNCHANGED <<lapiVars, full, coordVars>>
      PROVE  BanInv'
  <2>0. Bans(cache') = Bans(cache) /\ Seen(cache') = Seen(cache) /\ Bans(lapi') = Bans(lapi)
    BY <1>2 DEF Bans, Seen, lapiVars, coordVars
  <2>1. Bans(answer') \subseteq Bans(lapi)
    BY <1>2 DEF Part, Bans
  <2>2. Bans(cache) \cap Seen(answer') \subseteq Bans(answer')
    BY <1>2 DEF Part, Bans, Seen, BanInv
  <2>3. ASSUME full, NEW a \in Seen(cache) PROVE a \in Seen(answer') \cup OutOfSight'
    <3>1. a \in Seen(lapi) /\ a \in Alerts
      BY <2>3 DEF ListedInv, Seen
    <3>2. now \in Nat /\ created[a] \in Int /\ Window \in Nat
      BY <3>1, SpanAssumption DEF TypeOK, Times
    <3>3. CASE created[a] < now - Window
      BY <1>1, <3>1, <3>3 DEF OutOfSight
    <3>4. CASE ~(created[a] < now - Window)
      <4>1. a \in Requested
        BY <2>3, <3>1, <3>2, <3>4, SpanOfFull DEF Requested
      <4>2. CASE a \in S
        BY <1>2, <3>1, <4>2 DEF Part, Seen
      <4>3. CASE a \notin S
        BY <1>2, <4>1, <4>3 DEF OutOfSight
      <4>4. QED
        BY <4>2, <4>3
    <3>5. QED
      BY <3>3, <3>4
  <2>4. full' = full
    BY <1>2
  <2>5. QED
    BY <2>0, <2>1, <2>2, <2>3, <2>4 DEF BanInv
<1>3. CASE AnswerComplete \/ AnswerAtSeams
  BY <1>2, <1>3 DEF AnswerComplete, AnswerAtSeams, Answer
<1>4. CASE AnswerTruncated
  BY <1>2, <1>4 DEF AnswerTruncated, Answer
<1>5. CASE CycleEnds
  <2>1. cache' = Absorbed /\ phase' = "idle" /\ answer' = Nothing /\ lapi' = lapi
    BY <1>5 DEF CycleEnds, AbsorbAlerts, EndOfCycle, lapiVars
  <2>2. Bans(Absorbed) \subseteq Bans(lapi)
    BY <1>5, AbsorbedBans DEF CycleEnds
  <2>3. QED
    BY <2>1, <2>2 DEF BanInv, Bans, Nothing
<1>6. CASE NewCoordinator
  BY <1>6 DEF NewCoordinator, EndOfCycle, Nothing, BanInv, Bans, Seen
<1>7. CASE phase' = "querying" /\ UNCHANGED <<answer, cache>>
  BY <1>1, <1>7 DEF BanInv, Bans
<1>8. CASE phase' \in {"idle", "stopped"} /\ answer' = Nothing /\ UNCHANGED cache
  BY <1>1, <1>8 DEF BanInv, Bans, Nothing
<1>9. CASE UNCHANGED <<phase, full, answer, cache>>
  BY <1>1, <1>9 DEF BanInv, Bans, Seen
<1>10. QED
  BY <1>3, <1>4, <1>5, <1>6, <1>7, <1>8, <1>9
  DEF Next, vars, cycleVars, coordVars, lapiVars, Tick, NewAlert, BanAdded,
      RequestFullAlertPoll, CycleStart, CycleFails, LoginRejected, EndOfCycle, ReloadEntry,
      RestartHomeAssistant

FeedInv == Inv /\ BanInv

-----------------------------------------------------------------------------
(* The refinement *)

\* The instance counts as this module does.
LEMMA FeedCounts == \A S : Feed!Cardinality(S) = Cardinality(S)
  BY DEF Feed!Cardinality, Cardinality

LEMMA FeedInit == Init => Feed!Init
  BY DEF Init, FreshCoordinator, Feed!Init, Owed, OutOfSight, Bans, Seen, Nothing

\* A finished cycle is the beginning of the following, or announces.
LEMMA FeedCycle ==
    ASSUME FeedInv, CycleEnds
    PROVE  Feed!Begin \/ Feed!Announce
<1>1. TypeOK /\ BanInv /\ AnnouncedInv /\ ListedInv /\ phase = "answered"
  BY DEF FeedInv, Inv, CycleEnds
<1>2. PICK out \in ReportNow(NewBans(Absorbed)) :
          /\ announced' = announced \cup out
          /\ known' = Seen(Absorbed) \ (NewBans(Absorbed) \ out)
  BY DEF CycleEnds, FireBanEvents
<1>3. /\ UNCHANGED <<lapi, created, now, omitted>>
      /\ cache' = Absorbed /\ baseline' = TRUE
      /\ silenced' = IF baseline THEN silenced ELSE silenced \cup Bans(Absorbed)
  BY DEF CycleEnds, AbsorbAlerts, FireBanEvents, lapiVars
<1>4. UNCHANGED <<Bans(lapi), OutOfSight>>
  BY <1>3 DEF Bans, OutOfSight, Seen
<1>5. out \subseteq NewBans(Absorbed)
  BY <1>2, ReportedAreNew
<1>6. NewBans(Absorbed) \subseteq Bans(Absorbed) /\ Bans(Absorbed) \subseteq Bans(lapi)
      /\ Bans(Absorbed) \subseteq Seen(Absorbed) /\ Bans(lapi) \subseteq Alerts
  BY <1>1, AbsorbedBans DEF NewBans, Bans, Seen
<1>7. CASE ~baseline
  <2>1. NewBans(Absorbed) = {} /\ out = {} /\ announced' = announced
    BY <1>2, <1>5, <1>7 DEF NewBans
  <2>2. Owed = {}
    BY <1>7 DEF Owed
  <2>3. Owed' = {}
    BY <1>2, <1>3, <1>6, <2>1 DEF Owed
  <2>4. QED
    BY <1>3, <1>4, <1>6, <1>7, <2>1, <2>2, <2>3 DEF Feed!Begin
<1>8. CASE baseline
  <2>1. Owed' = NewBans(Absorbed) \ out
    BY <1>2, <1>3, <1>6, <1>8 DEF Owed, NewBans
  <2>2. Owed \ OutOfSight \subseteq NewBans(Absorbed)
    BY <1>1, <1>8, AbsorbedBans DEF Owed, NewBans
  <2>3. NewBans(Absorbed) \cap announced \subseteq OutOfSight
    BY <1>1, AnnouncedOnce DEF NoSecondEvent, OutOfSight
  <2>4. Cardinality(out) <= Cap /\ (out = NewBans(Absorbed) \/ Cardinality(out) = Cap)
    BY <1>2, CapAssumption DEF ReportNow
  <2>5. silenced' = silenced /\ baseline' = baseline
    BY <1>1, <1>3, <1>8 DEF TypeOK
  <2>6. NewBans(Absorbed) \in SUBSET Bans(lapi) /\ out \in SUBSET NewBans(Absorbed)
    BY <1>5, <1>6
  <2>7. QED
    <3>1. Feed!Cardinality(out) <= Cap
          /\ (out = NewBans(Absorbed) \/ Feed!Cardinality(out) = Cap)
      BY <2>4, FeedCounts
    <3>2. QED
      BY <1>2, <1>4, <1>8, <2>1, <2>2, <2>3, <2>5, <2>6, <3>1 DEF Feed!Announce
<1>9. QED
  BY <1>1, <1>7, <1>8

LEMMA FeedStep == FeedInv /\ [Next]_vars => [Feed!Next]_Feed!vars
<1> SUFFICES ASSUME FeedInv, [Next]_vars
             PROVE  [Feed!Next]_Feed!vars
  OBVIOUS
<1>1. CASE CycleEnds
  BY <1>1, FeedCycle DEF Feed!Next
<1>2. CASE NewCoordinator
  <2>1. UNCHANGED <<Bans(lapi), OutOfSight, announced, silenced>>
    BY <1>2 DEF NewCoordinator, lapiVars, eventVars, Bans, OutOfSight, Seen
  <2>2. Owed' = {} /\ baseline' = FALSE
    BY <1>2 DEF NewCoordinator, Owed
  <2>3. QED
    BY <2>1, <2>2 DEF Feed!Next, Feed!Stop
<1>3. CASE UNCHANGED <<cache, baseline, known, announced, silenced>>
  <2>1. Bans(lapi) \subseteq Bans(lapi') /\ OutOfSight \subseteq OutOfSight'
    BY BansStep, SightStep DEF FeedInv, Inv
  <2>2. Bans(lapi') \in SUBSET Alerts /\ OutOfSight' \in SUBSET Alerts
    <3>1. TypeOK'
      BY TypeStep DEF FeedInv, Inv
    <3>2. QED
      BY <3>1 DEF TypeOK, Bans, OutOfSight, Seen
  <2>3. Owed' = Owed
    BY <1>3 DEF Owed, Bans
  <2>4. QED
    BY <1>3, <2>1, <2>2, <2>3 DEF Feed!Next, Feed!Change
<1>4. QED
  BY <1>1, <1>2, <1>3
  DEF Next, vars, cycleVars, coordVars, eventVars, lapiVars, Tick, NewAlert, BanAdded,
      RequestFullAlertPoll, CycleStart, AnswerComplete, AnswerAtSeams, AnswerTruncated,
      Answer, CycleFails, LoginRejected, ReloadEntry, RestartHomeAssistant

\* Every step of the polling is one that BanFeed allows, for every set of alerts,
\* every window, cap and overlap.
THEOREM PollingKeepsTheFeed == Spec => FeedKept
<1>1. Init => FeedInv
  BY InvInit, BanInit DEF FeedInv
<1>2. FeedInv /\ [Next]_vars => FeedInv'
  BY InvStep, BanStep DEF FeedInv, Inv
<1>3. QED
  BY <1>1, <1>2, FeedInit, FeedStep, PTL DEF Spec, FeedKept, Feed!Spec

=============================================================================
