-------------------------- MODULE UpdateCycleProofs --------------------------
(***************************************************************************)
(* The properties of UpdateCycle for any number of cycles.                 *)
(***************************************************************************)
EXTENDS UpdateCycle, TLAPS

\* No machine that is denied the list, and no lack of a key, goes unnoticed by
\* the verdict a cycle leaves behind; a cycle asks the key of its entry.
AnswersInv ==
    answers # NoCycle =>
        /\ cycles # 0
        /\ answers.metrics \in {"ok", "failed", "crash"}
        /\ answers.alerts # "none" /\ answers.decisions # "login"
        /\ answers.decisions = "none" /\ ~hasKey => answers.need

\* Values only come from cycles that have been.
AgesInv == data # NoData => data.lastUpdate <= data.no

Inv ==
    /\ TypeOK
    /\ AnswersInv
    /\ AgesInv
    /\ LastUpdateCovers
    /\ NothingFailsSilently
    /\ KeyIssueShown

-----------------------------------------------------------------------------
(* Records *)

\* No answers of a cycle, and no data, can be taken for the lack of them.
LEMMA Distinct == NoCycle \notin Answers /\ NoData \notin Data
<1>1. ASSUME NEW a \in Answers PROVE a # NoCycle
  <2>1. DOMAIN a # DOMAIN NoCycle
    BY DEF Answers, NoCycle
  <2>2. QED
    BY <2>1
<1>2. ASSUME NEW d \in Data PROVE d # NoData
  <2>1. DOMAIN d # DOMAIN NoData
    BY DEF Data, NoData
  <2>2. QED
    BY <2>1
<1>3. QED
  BY <1>1, <1>2

\* What Gather can be answered about the decisions.
LEMMA DecisionsType ==
    ASSUME TypeOK, NEW d \in Decisions
    PROVE  /\ d.got \in Results \ {"login"} /\ d.need \in BOOLEAN
           /\ d.got = "none" /\ ~hasKey => d.need
<1>0. needKey \in BOOLEAN
  BY DEF TypeOK
<1>1. ASSUME NEW g \in {"failed", "crash"}, d = [got |-> g, need |-> needKey]
      PROVE  d.got = g /\ d.need = needKey
  BY <1>1
<1>2. ASSUME NEW g \in {"ok", "failed"}, d = [got |-> g, need |-> FALSE]
      PROVE  d.got = g /\ d.need = FALSE
  BY <1>2
<1>3. ASSUME NEW g \in {"ok", "none"}, d = [got |-> g, need |-> needKey]
      PROVE  d.got = g /\ d.need = needKey
  BY <1>3
<1>4. ASSUME d = [got |-> "none", need |-> TRUE]
      PROVE  d.got = "none" /\ d.need = TRUE
  BY <1>4
<1>5. \/ \E g \in {"failed", "crash"} : d = [got |-> g, need |-> needKey]
      \/ \E g \in {"ok", "failed"} : d = [got |-> g, need |-> FALSE]
      \/ hasKey /\ \E g \in {"ok", "none"} : d = [got |-> g, need |-> needKey]
      \/ ~hasKey /\ d = [got |-> "none", need |-> TRUE]
  BY Zenon DEF Decisions
<1>6. d.got \in {"failed", "crash", "ok", "none"}
      /\ (d.need = needKey \/ d.need = FALSE \/ d.need = TRUE)
  BY <1>1, <1>2, <1>3, <1>4, <1>5, Zenon
<1>7. d.got = "none" /\ ~hasKey => d.need = TRUE
  BY <1>1, <1>2, <1>3, <1>4, <1>5, Zenon
<1>8. QED
  BY <1>0, <1>6, <1>7 DEF Results

\* The answers that let a cycle end without raising.
LEMMA QuietAnswers ==
    ASSUME Inv, answers # NoCycle, ~Raises
    PROVE  /\ answers \in Answers /\ answers.no = cycles
           /\ answers.metrics \in {"ok", "failed"}
           /\ answers.alerts \in {"ok", "failed"}
           /\ answers.decisions \in {"ok", "none", "failed"}
<1>1. answers \in Answers /\ answers.no = cycles
  BY DEF Inv, TypeOK
<1>2. answers["metrics"] # "crash" /\ answers["alerts"] # "crash"
      /\ answers["decisions"] # "crash" /\ answers.alerts # "login"
  BY DEF Raises, Unexpected, Queries
<1>3. QED
  BY <1>1, <1>2 DEF Answers, Results, Inv, AnswersInv

\* The ages of the values before the cycle ends.
LEMMA OldAges ==
    ASSUME Inv, answers # NoCycle
    PROVE  /\ cycles \in Nat
           /\ \A f \in {"lastUpdate", "lastRestart", "lastAlert", "decisions"} : Old(f) \in Nat
           /\ Old("lastUpdate") <= cycles
           /\ Old("lastUpdate") <= Old("lastRestart")
           /\ Old("lastUpdate") <= Old("lastAlert")
           /\ Old("lastUpdate") <= Old("decisions") \/ (data # NoData /\ data.closed)
<1>1. cycles \in Nat
  BY CyclesAssumption DEF Inv, TypeOK
<1>2. CASE data = NoData
  BY <1>1, <1>2 DEF Old
<1>3. CASE data # NoData
  <2>1. data \in Data /\ data.no \in 1 .. cycles
    BY <1>3 DEF Inv, TypeOK
  <2>2. /\ Old("lastUpdate") = data.lastUpdate /\ Old("lastRestart") = data.lastRestart
        /\ Old("lastAlert") = data.lastAlert /\ Old("decisions") = data.decisions
    BY <1>3 DEF Old
  <2>3. data.lastUpdate \in Nat /\ data.lastRestart \in Nat /\ data.lastAlert \in Nat
        /\ data.decisions \in Nat
    BY <2>1 DEF Data
  <2>4. data.lastUpdate <= cycles
    BY <1>1, <1>3, <2>1, <2>3 DEF Inv, AgesInv
  <2>5. QED
    BY <1>1, <1>3, <2>2, <2>3, <2>4 DEF Inv, LastUpdateCovers
<1>4. QED
  BY <1>2, <1>3

\* The fields of the data of a new cycle, one by one.
LEMMA NewFields ==
    /\ NewData.no = answers.no
    /\ NewData.ok = {q \in Queries : Answered(q)}
    /\ NewData.errors = Errors
    /\ NewData.lastUpdate = LastUpdate
    /\ NewData.lastRestart = Age("metrics", "lastRestart")
    /\ NewData.lastAlert = Age("alerts", "lastAlert")
    /\ NewData.decisions = Age("decisions", "decisions")
    /\ NewData.closed = (/\ ~Answered("decisions")
                         /\ answers.decisions = "none" \/ (data # NoData /\ data.closed))
    /\ NewData.overruled = (answers.need # needKey)
<1>1. NewData.no = answers.no /\ NewData.ok = {q \in Queries : Answered(q)}
      /\ NewData.errors = Errors /\ NewData.lastUpdate = LastUpdate
      /\ NewData.lastRestart = Age("metrics", "lastRestart")
      /\ NewData.lastAlert = Age("alerts", "lastAlert")
      /\ NewData.decisions = Age("decisions", "decisions")
  BY DEF NewData, Reasons
<1>2. NewData.closed = (/\ ~Answered("decisions")
                        /\ answers.decisions = "none" \/ (data # NoData /\ data.closed))
  BY Zenon DEF NewData
<1>3. NewData.overruled = (answers.need # needKey)
  BY Zenon DEF NewData
<1>4. QED
  BY <1>1, <1>2, <1>3

\* The data of a new cycle is data.
LEMMA NewDataType ==
    ASSUME Inv, answers # NoCycle, ~Raises
    PROVE  NewData \in Data /\ NewData.no = cycles
<1>1. answers.no = cycles /\ cycles \in Nat
  BY QuietAnswers, OldAges
<1>2. LastUpdate \in Nat /\ Age("metrics", "lastRestart") \in Nat
      /\ Age("alerts", "lastAlert") \in Nat /\ Age("decisions", "decisions") \in Nat
  BY <1>1, OldAges DEF LastUpdate, Age
<1>3. {q \in Queries : Answered(q)} \subseteq Queries /\ Reasons \subseteq Queries
  BY DEF Reasons, Errors
<1>4. (/\ ~Answered("decisions")
       /\ answers.decisions = "none" \/ (data # NoData /\ data.closed)) \in BOOLEAN
      /\ (answers.need # needKey) \in BOOLEAN
  OBVIOUS
<1>5. NewData \in Data
  BY <1>1, <1>2, <1>3, <1>4 DEF NewData, Data
<1>6. QED
  BY <1>1, <1>5, NewFields

-----------------------------------------------------------------------------
(* The steps *)

\* Each query of a cycle that ends without raising was answered, failed, or was
\* about a route that is closed.
LEMMA QueriesEnd ==
    ASSUME Inv, answers # NoCycle, ~Raises
    PROVE  /\ Answered("metrics") \/ "metrics" \in Errors
           /\ Answered("alerts") \/ "alerts" \in Errors
           /\ Answered("decisions") \/ "decisions" \in Errors \/ answers.decisions = "none"
  BY QuietAnswers DEF Answered, Errors, Queries

\* The end of a cycle keeps the promises about the data and about the issue.
LEMMA EndKeeps ==
    ASSUME Inv, CycleEnds
    PROVE  Inv'
<1>1. /\ answers # NoCycle /\ ~Raises
      /\ data' = NewData /\ lost' = {q \in Queries : ~Answered(q)} /\ answers' = NoCycle
      /\ reported' = needKey /\ issue' = (IF needKey = reported THEN issue ELSE needKey)
      /\ UNCHANGED <<hasKey, needKey, cycles, polling>>
  BY DEF CycleEnds, ReportMissingKey
<1>2. NewData \in Data /\ NewData.no = cycles /\ data' # NoData
  BY <1>1, NewDataType, Distinct
<1>3. cycles \in Nat \ {0}
  BY <1>1, OldAges DEF Inv, AnswersInv
<1>4. needKey \in BOOLEAN /\ reported \in BOOLEAN /\ issue \in BOOLEAN
  BY DEF Inv, TypeOK
<1>5. issue' \in BOOLEAN /\ (needKey => issue')
  BY <1>1, <1>4 DEF Inv, KeyIssueShown
<1>6. TypeOK'
  BY <1>1, <1>2, <1>3, <1>5 DEF Inv, TypeOK
<1>7. AnswersInv' /\ KeyIssueShown'
  BY <1>1, <1>5 DEF AnswersInv, KeyIssueShown
<1>8. /\ LastUpdate <= cycles
      /\ LastUpdate <= Age("metrics", "lastRestart")
      /\ LastUpdate <= Age("alerts", "lastAlert")
      /\ LastUpdate <= Age("decisions", "decisions") \/ NewData.closed
  <2>1. answers.no = cycles /\ cycles \in Nat
    BY <1>1, QuietAnswers, OldAges
  <2>2. CASE Errors = {}
    <3>1. Answered("metrics") /\ Answered("alerts")
          /\ (Answered("decisions") \/ answers.decisions = "none")
      BY <1>1, <2>2, QueriesEnd
    <3>2. ~Answered("decisions") => NewData.closed
      BY <3>1, NewFields
    <3>3. LastUpdate = cycles
      BY <2>1, <2>2 DEF LastUpdate
    <3>4. QED
      BY <2>1, <3>1, <3>2, <3>3 DEF Age
  <2>3. CASE Errors # {}
    <3>1. LastUpdate = Old("lastUpdate")
      BY <2>3 DEF LastUpdate
    <3>2. data # NoData /\ data.closed /\ ~Answered("decisions") => NewData.closed
      BY NewFields
    <3>3. QED
      BY <1>1, <2>1, <3>1, <3>2, OldAges DEF Age
  <2>4. QED
    BY <2>2, <2>3
<1>9. AgesInv' /\ LastUpdateCovers'
  <2>1. /\ data'.lastUpdate = LastUpdate /\ data'.no = cycles
        /\ data'.lastRestart = Age("metrics", "lastRestart")
        /\ data'.lastAlert = Age("alerts", "lastAlert")
        /\ data'.decisions = Age("decisions", "decisions")
    BY <1>1, <1>2, NewFields
  <2>2. data'.closed <=> NewData.closed
    BY <1>1
  <2>3. /\ data'.lastUpdate <= data'.no
        /\ data'.lastUpdate <= data'.lastRestart
        /\ data'.lastUpdate <= data'.lastAlert
    BY <1>8, <2>1
  <2>4. data'.lastUpdate <= data'.decisions \/ data'.closed
    BY <1>8, <2>1, <2>2
  <2>5. QED
    BY <2>3, <2>4 DEF AgesInv, LastUpdateCovers
<1>10. NothingFailsSilently'
  <2>1. ASSUME NEW q \in Queries, ~Answered(q), q \notin Errors
        PROVE  q = "decisions" /\ (issue' \/ hasKey \/ NewData.overruled)
    <3>1. q = "decisions" /\ answers.decisions = "none"
      BY <1>1, <2>1, QueriesEnd DEF Queries
    <3>2. hasKey \/ answers.need
      BY <1>1, <3>1 DEF Inv, AnswersInv
    <3>3. answers.need /\ ~needKey => NewData.overruled
      <4>1. answers.need \in BOOLEAN
        BY <1>1, QuietAnswers DEF Answers
      <4>2. QED
        BY <1>4, <4>1, NewFields
    <3>4. QED
      BY <1>5, <3>1, <3>2, <3>3
  <2>2. QED
    BY <1>1, <2>1, NewFields DEF NothingFailsSilently
<1>11. QED
  BY <1>6, <1>7, <1>9, <1>10 DEF Inv

\* What starts over has nothing to break.
LEMMA ForgetKeeps ==
    ASSUME Inv, Forget, hasKey' \in BOOLEAN, issue' \in BOOLEAN
    PROVE  Inv'
<1>1. /\ needKey' = FALSE /\ answers' = NoCycle /\ lost' = {} /\ reported' = FALSE
      /\ data' = NoData /\ polling' = TRUE /\ cycles' = cycles
  BY DEF Forget
<1>2. TypeOK'
  BY <1>1 DEF Inv, TypeOK
<1>3. QED
  BY <1>1, <1>2
  DEF Inv, AnswersInv, AgesInv, LastUpdateCovers, NothingFailsSilently, KeyIssueShown

LEMMA InvInit == Init => Inv
<1> SUFFICES ASSUME Init PROVE Inv
  OBVIOUS
<1>1. TypeOK
  <2>1. cycles \in 0 .. MaxCycles
    BY CyclesAssumption DEF Init
  <2>2. QED
    BY <2>1, Zenon DEF Init, TypeOK
<1>2. QED
  BY <1>1
  DEF Init, Inv, AnswersInv, AgesInv, LastUpdateCovers, NothingFailsSilently, KeyIssueShown

LEMMA InvStep == Inv /\ [Next]_vars => Inv'
<1> SUFFICES ASSUME Inv, [Next]_vars
             PROVE  Inv'
  OBVIOUS
<1>1. CASE Gather
  <2>1. PICK m \in {"ok", "failed", "crash"}, a \in {"ok", "failed", "login", "crash"},
             d \in Decisions :
            /\ needKey' = d.need
            /\ answers' = [no |-> cycles', metrics |-> m, alerts |-> a,
                           decisions |-> d.got, need |-> d.need]
    BY <1>1 DEF Gather
  <2>2. /\ d.got \in Results \ {"login"} /\ d.need \in BOOLEAN
        /\ d.got = "none" /\ ~hasKey => d.need
    BY DecisionsType DEF Inv
  <2>3. cycles' \in 0 .. MaxCycles /\ cycles' \in Nat \ {0} /\ cycles \in Nat /\ cycles <= cycles'
    BY <1>1, CyclesAssumption DEF Gather, Inv, TypeOK
  <2>4. answers' \in Answers /\ answers'.no = cycles'
    BY <2>1, <2>2, <2>3 DEF Answers, Results
  <2>5. UNCHANGED <<hasKey, lost, reported, data, polling, issue>>
    BY <1>1 DEF Gather
  <2>6. TypeOK'
    BY <2>1, <2>2, <2>3, <2>4, <2>5 DEF Inv, TypeOK
  <2>7. AnswersInv'
    BY <2>1, <2>2, <2>3, <2>5 DEF AnswersInv
  <2>8. QED
    BY <2>5, <2>6, <2>7
    DEF Inv, AgesInv, LastUpdateCovers, NothingFailsSilently, KeyIssueShown
<1>2. CASE CycleEnds
  BY <1>2, EndKeeps
<1>3. CASE CycleRaises
  <2>1. CASE data = NoData
    BY <1>3, <2>1, ForgetKeeps DEF CycleRaises, Inv, TypeOK
  <2>2. CASE data # NoData
    <3>1. /\ answers' = NoCycle /\ lost' \subseteq Queries /\ polling' \in BOOLEAN
          /\ UNCHANGED <<needKey, cycles, reported, data, hasKey, issue>>
      BY <1>3, <2>2 DEF CycleRaises
    <3>2. TypeOK'
      BY <2>2, <3>1 DEF Inv, TypeOK
    <3>3. QED
      BY <3>1, <3>2
      DEF Inv, AnswersInv, AgesInv, LastUpdateCovers, NothingFailsSilently, KeyIssueShown
  <2>3. QED
    BY <2>1, <2>2
<1>4. CASE Lookup
  <2>1. needKey' \in BOOLEAN
    BY <1>4, DecisionsType DEF Lookup, Inv
  <2>2. UNCHANGED <<hasKey, cycles, answers, lost, reported, data, polling, issue>>
    BY <1>4 DEF Lookup
  <2>3. TypeOK'
    BY <2>1, <2>2 DEF Inv, TypeOK
  <2>4. QED
    BY <2>2, <2>3
    DEF Inv, AnswersInv, AgesInv, LastUpdateCovers, NothingFailsSilently, KeyIssueShown
<1>5. CASE ReloadEntry \/ RepairKey \/ RestartHomeAssistant
  BY <1>5, ForgetKeeps DEF ReloadEntry, RepairKey, RestartHomeAssistant, Inv, TypeOK
<1>6. CASE UNCHANGED vars
  BY <1>6
  DEF vars, Inv, TypeOK, AnswersInv, AgesInv, LastUpdateCovers, NothingFailsSilently,
      KeyIssueShown
<1>7. QED
  BY <1>1, <1>2, <1>3, <1>4, <1>5, <1>6 DEF Next

-----------------------------------------------------------------------------
(* The theorems *)

\* The inductive invariant holds in every reachable state.
THEOREM Invariance == Spec => []Inv
<1>1. QED
  BY InvInit, InvStep, PTL DEF Spec

\* The state of the coordinator keeps its type, and polling only stops once there
\* is data to show.
THEOREM TypeCorrect == Spec => []TypeOK
<1>1. Inv => TypeOK
  BY DEF Inv
<1>2. QED
  BY <1>1, Invariance, PTL

\* Nothing that is shown was read before last_update, but the table of a route
\* that has been closed.
THEOREM LastUpdateIsCovered == Spec => []LastUpdateCovers
<1>1. Inv => LastUpdateCovers
  BY DEF Inv
<1>2. QED
  BY <1>1, Invariance, PTL

\* Every query a finished cycle has lost shows in the problem flag or in the
\* repair issue, with the two exceptions the property names.
THEOREM NothingIsSilent == Spec => []NothingFailsSilently
<1>1. Inv => NothingFailsSilently
  BY DEF Inv
<1>2. QED
  BY <1>1, Invariance, PTL

\* What the coordinator takes for reported is in the registry.
THEOREM KeyIssueIsShown == Spec => []KeyIssueShown
<1>1. Inv => KeyIssueShown
  BY DEF Inv
<1>2. QED
  BY <1>1, Invariance, PTL
=============================================================================
