-------------------------- MODULE RateProblemProofs --------------------------
(***************************************************************************)
(* The properties of RateProblem for any work, restarts and cycles.        *)
(***************************************************************************)
EXTENDS RateProblem, TLAPS

\* Counters only grow, within a run and over all of them.
EngineInv ==
    /\ run > 0
    /\ \A w \in Work : birth[w] <= ever[w] /\ tracker.at[w] <= ever[w]

\* A sample is of this run, of an earlier one, or there is none; its counters are
\* those of its run, and it may hide when the run started.
SampleInv ==
    /\ tracker.run <= run
    /\ tracker.start \in {Missing, tracker.run}
    /\ tracker.run = 0 => tracker.counters = Nothing
    /\ tracker.run < run => \A w \in Work : tracker.at[w] <= birth[w]
    /\ tracker.run < run /\ tracker.counters.lines # Missing
         => tracker.counters.lines <= tracker.at["ok"] + tracker.at["ko"]
    /\ tracker.run = run /\ tracker.counters.lines # Missing
         => tracker.counters.lines = (tracker.at["ok"] - birth["ok"])
                                       + (tracker.at["ko"] - birth["ko"])
    /\ tracker.run = run /\ tracker.counters.bouncer # Missing
         => tracker.counters.bouncer
              = (tracker.at["hit"] - birth["hit"]) + (tracker.at["miss"] - birth["miss"])
                  + IF version.route THEN tracker.at["own"] - birth["own"] ELSE 0

\* What counts as idle has been measured, and no bouncer was seen in it.
IdleInv == idle <= quiet

RateInv == RateTrue /\ IdleAlarmTrue

Inv == TypeOK /\ EngineInv /\ SampleInv /\ IdleInv /\ RateInv

-----------------------------------------------------------------------------
(* Samples *)

LEMMA Names ==
    /\ "lines" \in CounterNames /\ "parse_ok" \in CounterNames
    /\ "parse_ko" \in CounterNames /\ "bouncer" \in CounterNames
    /\ "ok" \in Work /\ "ko" \in Work /\ "hit" \in Work /\ "miss" \in Work /\ "own" \in Work
  BY DEF CounterNames, Work

\* Nobody has counted less than nothing.
LEMMA CountType ==
    ASSUME Inv, NEW w \in Work
    PROVE  Count(w) \in Nat /\ Count(w) = ever[w] - birth[w] /\ ever[w] \in Nat
                            /\ birth[w] \in Nat
  BY DEF Inv, TypeOK, EngineInv, Count

LEMMA VersionType ==
    ASSUME Inv
    PROVE  version.start \in BOOLEAN /\ version.route \in BOOLEAN
  BY VersionAssumption DEF Inv, TypeOK

\* The counters of a scrape, one by one.
LEMMA CountersAre ==
    ASSUME Inv
    PROVE  /\ Counters \in Readings
           /\ Counters.lines \in {Missing, Count("ok") + Count("ko")}
           /\ Counters.parse_ok = IF Count("ok") > 0 THEN Count("ok") ELSE Missing
           /\ Counters.parse_ko = IF Count("ko") > 0 THEN Count("ko") ELSE Missing
           /\ Counters.bouncer \in {Missing, Count("hit") + Count("miss")
                                               + IF version.route THEN Count("own") ELSE 0}
<1> DEFINE value == [lines |-> Count("ok") + Count("ko"),
                     parse_ok |-> Count("ok"),
                     parse_ko |-> Count("ko"),
                     bouncer |-> Count("hit") + Count("miss")
                                   + IF version.route THEN Count("own") ELSE 0]
           present == {c \in CounterNames :
                         IF c = "bouncer" THEN version.route \/ Count("miss") > 0
                                          ELSE value[c] > 0}
<1>1. Counters = [c \in CounterNames |-> IF c \in present THEN value[c] ELSE Missing]
  BY DEF Counters
<1>2. \A c \in CounterNames : Counters[c] = IF c \in present THEN value[c] ELSE Missing
  BY <1>1
<1>3. /\ value["lines"] = Count("ok") + Count("ko")
      /\ value["parse_ok"] = Count("ok") /\ value["parse_ko"] = Count("ko")
      /\ value["bouncer"] = Count("hit") + Count("miss")
                              + IF version.route THEN Count("own") ELSE 0
  OBVIOUS
<1>4. \A w \in Work : Count(w) \in Nat
  BY CountType
<1>5. \A c \in CounterNames : value[c] \in Nat
  BY <1>3, <1>4, Names DEF CounterNames
<1>6. Counters \in Readings
  BY <1>1, <1>5 DEF Readings
<1>7. ("parse_ok" \in present) = (Count("ok") > 0)
      /\ ("parse_ko" \in present) = (Count("ko") > 0)
  BY <1>3, Names
<1> HIDE DEF value, present
<1>8. QED
  BY <1>2, <1>3, <1>6, <1>7, Names

LEMMA SampleIs ==
    ASSUME Inv
    PROVE  /\ Sample \in Samples
           /\ Sample.counters = Counters /\ Sample.at = ever /\ Sample.run = run
           /\ Sample.start = IF version.start THEN run ELSE Missing
<1>1. Counters \in Readings /\ ever \in [Work -> Nat] /\ run \in Nat
  BY CountersAre DEF Inv, TypeOK
<1>2. QED
  BY <1>1 DEF Sample, Samples

LEMMA NoSampleIs ==
    /\ NoSample \in Samples /\ NoSample.counters = Nothing /\ NoSample.at = Zero
    /\ NoSample.run = 0 /\ NoSample.start = Missing
    /\ Nothing \in Readings
    /\ \A c \in CounterNames : Nothing[c] = Missing
    /\ \A w \in Work : Zero[w] = 0
  BY DEF NoSample, Samples, Readings, Nothing, Zero

-----------------------------------------------------------------------------
(* Rates *)

\* Rates are of counters that both samples have, of runs that are not known to
\* differ, and never negative.
LEMMA RateWindowIs ==
    ASSUME NEW old \in Samples, NEW new \in Samples
    PROVE  /\ RateWindow(old, new) \in Readings
           /\ \A c \in CounterNames :
                RateWindow(old, new)[c] # Missing =>
                  /\ ~Restarted(old, new)
                  /\ old.counters[c] \in Nat /\ new.counters[c] \in Nat
                  /\ RateWindow(old, new)[c] = new.counters[c] - old.counters[c]
                  /\ RateWindow(old, new)[c] \in Nat
<1>1. old.counters \in Readings /\ new.counters \in Readings
  BY DEF Samples
<1>2. CASE Restarted(old, new) \/ JumpedBack(old, new)
  BY <1>2, NoSampleIs DEF RateWindow
<1>3. CASE ~Restarted(old, new) /\ ~JumpedBack(old, new)
  <2>1. \A c \in CounterNames : c \in Common(old, new) =>
           /\ old.counters[c] \in Nat /\ new.counters[c] \in Nat
           /\ ~(new.counters[c] < old.counters[c])
    BY <1>1, <1>3 DEF Common, JumpedBack, Readings
  <2>2. \A c \in CounterNames : c \in Common(old, new) =>
           new.counters[c] - old.counters[c] \in Nat
    BY <2>1
  <2>3. RateWindow(old, new) = Deltas(old, new)
    BY <1>3 DEF RateWindow
  <2>4. Deltas(old, new) \in Readings
    BY <2>2 DEF Deltas, Readings
  <2>5. \A c \in CounterNames : Deltas(old, new)[c] # Missing =>
           c \in Common(old, new)
             /\ Deltas(old, new)[c] = new.counters[c] - old.counters[c]
    BY DEF Deltas
  <2>6. QED
    BY <1>3, <2>1, <2>2, <2>3, <2>4, <2>5
<1>4. QED
  BY <1>2, <1>3

\* What the lines and the bouncer queries of an interval are compared with.
LEMMA WindowIs ==
    ASSUME Inv
    PROVE  LET deltas == RateWindow(tracker, Sample)
           IN  /\ deltas \in Readings
               /\ deltas["lines"] # Missing =>
                    /\ deltas["lines"] \in Nat
                    /\ deltas["lines"] <= Since("ok") + Since("ko")
                    /\ tracker.run = run => deltas["lines"] = Since("ok") + Since("ko")
                    /\ tracker.run = run \/ Missing \in {tracker.start, Sample.start}
                    /\ tracker.run # 0
               /\ deltas["bouncer"] # Missing =>
                    /\ deltas["bouncer"] \in Nat /\ tracker.run # 0
                    /\ Missing \notin {tracker.start, Sample.start} /\ deltas["bouncer"] = 0
                         => Since("hit") + Since("miss") = 0
<1> DEFINE deltas == RateWindow(tracker, Sample)
           o == tracker.counters
           n == Counters
<1>1. tracker \in Samples /\ Sample \in Samples
  BY SampleIs DEF Inv, TypeOK
<1>2. deltas \in Readings
  BY <1>1, RateWindowIs
<1>3. ASSUME NEW c \in CounterNames, deltas[c] # Missing
      PROVE  /\ ~Restarted(tracker, Sample)
             /\ o[c] \in Nat /\ n[c] \in Nat /\ deltas[c] = n[c] - o[c] /\ deltas[c] \in Nat
  BY <1>1, <1>3, RateWindowIs, SampleIs
<1>4. /\ \A w \in Work : ever[w] \in Nat /\ birth[w] \in Nat /\ tracker.at[w] \in Nat
                           /\ birth[w] <= ever[w] /\ tracker.at[w] <= ever[w]
                           /\ Since(w) = ever[w] - tracker.at[w]
                           /\ Count(w) = ever[w] - birth[w]
      /\ run \in Nat /\ tracker.run \in Nat /\ run > 0 /\ tracker.run <= run
  BY <1>1 DEF Samples, Inv, TypeOK, EngineInv, SampleInv, Since, Count
<1>5. ASSUME ~Restarted(tracker, Sample), Missing \notin {tracker.start, Sample.start}
      PROVE  tracker.run = run
  BY <1>5, SampleIs, VersionType DEF Restarted, Inv, SampleInv
<1>6. ASSUME NEW c \in CounterNames, deltas[c] # Missing PROVE tracker.run # 0
  BY <1>3, <1>6, NoSampleIs, MissingAssumption DEF Inv, SampleInv
<1>7. ASSUME deltas["lines"] # Missing
      PROVE  /\ deltas["lines"] \in Nat
             /\ deltas["lines"] <= Since("ok") + Since("ko")
             /\ tracker.run = run => deltas["lines"] = Since("ok") + Since("ko")
             /\ tracker.run = run \/ Missing \in {tracker.start, Sample.start}
             /\ tracker.run # 0
  <2>1. /\ ~Restarted(tracker, Sample) /\ deltas["lines"] \in Nat
        /\ o["lines"] \in Nat /\ n["lines"] \in Nat /\ deltas["lines"] = n["lines"] - o["lines"]
    BY <1>3, <1>7, Names
  <2>2. n["lines"] = Count("ok") + Count("ko") /\ o["lines"] # Missing
    BY <2>1, CountersAre, MissingAssumption
  <2>3. CASE tracker.run = run
    <3>1. o["lines"] = (tracker.at["ok"] - birth["ok"]) + (tracker.at["ko"] - birth["ko"])
      BY <2>2, <2>3 DEF Inv, SampleInv
    <3>2. deltas["lines"] = Since("ok") + Since("ko")
      BY <1>4, <2>1, <2>2, <3>1, Names
    <3>3. QED
      BY <1>4, <1>6, <1>7, <2>1, <2>3, <3>2, Names
  <2>4. CASE tracker.run < run
    <3>1. tracker.at["ok"] <= birth["ok"] /\ tracker.at["ko"] <= birth["ko"]
      BY <2>4, Names DEF Inv, SampleInv
    <3>2. deltas["lines"] <= Since("ok") + Since("ko")
      BY <1>4, <2>1, <2>2, <3>1, Names
    <3>3. QED
      BY <1>4, <1>5, <1>6, <1>7, <2>1, <2>4, <3>2, Names
  <2>5. QED
    BY <1>4, <2>3, <2>4
<1>8. ASSUME deltas["bouncer"] # Missing, Missing \notin {tracker.start, Sample.start},
             deltas["bouncer"] = 0
      PROVE  Since("hit") + Since("miss") = 0
  <2>1. /\ ~Restarted(tracker, Sample)
        /\ o["bouncer"] \in Nat /\ n["bouncer"] \in Nat
        /\ deltas["bouncer"] = n["bouncer"] - o["bouncer"]
    BY <1>3, <1>8, Names
  <2>2. tracker.run = run
    BY <1>5, <1>8, <2>1
  <2>3. n["bouncer"] = Count("hit") + Count("miss")
                         + IF version.route THEN Count("own") ELSE 0
    BY <2>1, CountersAre, MissingAssumption
  <2>4. o["bouncer"] = (tracker.at["hit"] - birth["hit"])
                         + (tracker.at["miss"] - birth["miss"])
                         + IF version.route THEN tracker.at["own"] - birth["own"] ELSE 0
    BY <2>1, <2>2, MissingAssumption DEF Inv, SampleInv
  <2>5. n["bouncer"] = o["bouncer"]
    BY <1>8, <2>1
  <2> DEFINE since(w) == tracker.at[w] - birth[w]
  <2>6. /\ Count("hit") = since("hit") + Since("hit")
        /\ Count("miss") = since("miss") + Since("miss")
        /\ Count("own") = since("own") + Since("own")
        /\ since("hit") \in Int /\ since("miss") \in Int /\ since("own") \in Int
        /\ Since("hit") \in Nat /\ Since("miss") \in Nat /\ Since("own") \in Nat
    BY <1>4, Names
  <2> HIDE DEF since
  <2>7. CASE version.route
    <3>1. n["bouncer"] = Count("hit") + Count("miss") + Count("own")
      BY <2>3, <2>7
    <3>2. o["bouncer"] = since("hit") + since("miss") + since("own")
      BY <2>4, <2>7 DEF since
    <3>3. Count("hit") + Count("miss") + Count("own") = since("hit") + since("miss") + since("own")
      BY <2>5, <3>1, <3>2
    <3>4. Since("hit") + Since("miss") + Since("own") = 0
      BY <2>6, <3>3
    <3>5. QED
      BY <2>6, <3>4
  <2>8. CASE ~version.route
    <3>1. n["bouncer"] = Count("hit") + Count("miss")
      BY <1>4, <2>3, <2>8, Names
    <3>2. o["bouncer"] = since("hit") + since("miss")
      BY <2>4, <2>6, <2>8, Names DEF since
    <3>3. Count("hit") + Count("miss") = since("hit") + since("miss")
      BY <2>5, <3>1, <3>2
    <3>4. QED
      BY <2>6, <3>3
  <2>9. QED
    BY <2>7, <2>8
<1>9. QED
  BY <1>2, <1>3, <1>6, <1>7, <1>8, Names

-----------------------------------------------------------------------------
(* The problem flag *)

\* Without a line that was parsed, the share of the others is all of them, in the
\* interval and over the whole runtime.
LEMMA UnparsedShare ==
    ASSUME NEW k \in Nat, k > 0, Threshold < 100
    PROVE  100 * k > Threshold * k
<1>1. Threshold \in Nat
  BY LimitAssumption
<1>2. (100 - Threshold) * k > 0
  BY <1>1
<1>3. QED
  BY <1>1, <1>2

LEMMA AllUnparsed ==
    ASSUME Inv, Threshold < 100,
           Counters["parse_ko"] # Missing, Counters["parse_ok"] = Missing
    PROVE  ManyUnparsed(Share(RateWindow(tracker, Sample), Counters))
<1> DEFINE deltas == RateWindow(tracker, Sample)
<1>1. tracker \in Samples /\ Sample \in Samples /\ Sample.counters = Counters
  BY SampleIs DEF Inv, TypeOK
<1>2. deltas["parse_ok"] = Missing
  BY <1>1, RateWindowIs, Names, MissingAssumption
<1>3. deltas["parse_ko"] = Missing \/ deltas["parse_ko"] \in Nat
  BY <1>1, RateWindowIs, Names
<1>4. Counters["parse_ko"] \in Nat /\ Counters["parse_ko"] > 0
  BY CountersAre, CountType, Names
<1>5. Lines(Counters) = Counters["parse_ko"] /\ Known(Counters, "parse_ko") = Counters["parse_ko"]
  BY <1>4 DEF Lines, Known
<1>6. Lines(deltas) = Known(deltas, "parse_ko") /\ Known(deltas, "parse_ko") \in Nat
  BY <1>2, <1>3 DEF Lines, Known
<1>7. CASE Lines(deltas) > 0
  <2>1. Share(deltas, Counters) = deltas
    BY <1>7 DEF Share
  <2>2. QED
    BY <1>6, <1>7, <2>1, UnparsedShare DEF ManyUnparsed
<1>8. CASE ~(Lines(deltas) > 0)
  <2>1. Share(deltas, Counters) = Counters
    BY <1>8 DEF Share
  <2>2. QED
    BY <1>4, <1>5, <2>1, UnparsedShare DEF ManyUnparsed
<1>9. QED
  BY <1>7, <1>8

-----------------------------------------------------------------------------
(* The steps *)

LEMMA InitInv == Init => Inv
<1> SUFFICES ASSUME Init PROVE Inv
  OBVIOUS
<1>1. TypeOK
  <2>1. Zero \in [Work -> Nat]
    BY DEF Zero
  <2>2. compared \in [run : Nat, read : Int, hidden : BOOLEAN]
    BY DEF Init
  <2>3. traffic \in BOOLEAN
    BY Zenon DEF Init
  <2>4. QED
    BY <2>1, <2>2, <2>3, NoSampleIs DEF Init, TypeOK
<1>2. EngineInv /\ SampleInv
  <2>1. birth = Zero /\ ever = Zero /\ run = 1 /\ tracker = NoSample
    BY DEF Init
  <2>2. EngineInv
    BY <2>1, NoSampleIs DEF EngineInv
  <2>3. SampleInv
    BY <2>1, NoSampleIs, Names DEF SampleInv
  <2>4. QED
    BY <2>2, <2>3
<1>3. IdleInv /\ RateInv
  BY NoSampleIs, Names DEF Init, IdleInv, RateInv, RateTrue, IdleAlarmTrue
<1>4. QED
  BY <1>1, <1>2, <1>3 DEF Inv

\* CrowdSec works on: the samples stay behind.
LEMMA WorksKeeps ==
    ASSUME Inv, NEW w \in Work, Works(w)
    PROVE  Inv'
<1>1. /\ ever' = [ever EXCEPT ![w] = @ + 1] /\ ever \in [Work -> Nat]
      /\ UNCHANGED <<birth, run, version, cycles, tracker, traffic, idle, window, reasons,
                     compared, calm, quiet>>
  BY DEF Works, coordVars, Inv, TypeOK
<1>2. ever' \in [Work -> Nat] /\ \A v \in Work : ever[v] <= ever'[v]
  BY <1>1
<1>3. TypeOK'
  BY <1>1, <1>2 DEF Inv, TypeOK
<1>4. EngineInv'
  <2>1. \A v \in Work : birth[v] \in Nat /\ tracker.at[v] \in Nat
    BY DEF Inv, TypeOK, Samples
  <2>2. QED
    BY <1>1, <1>2, <2>1 DEF Inv, EngineInv
<1>5. SampleInv' /\ IdleInv' /\ RateInv'
  BY <1>1 DEF Inv, SampleInv, IdleInv, RateInv, RateTrue, IdleAlarmTrue
<1>6. QED
  BY <1>3, <1>4, <1>5 DEF Inv

\* A sample of the run that ends becomes one of an earlier run.
LEMMA EngineRestartsKeeps ==
    ASSUME Inv, EngineRestarts
    PROVE  Inv'
<1>1. /\ run' = run + 1 /\ birth' = ever /\ version' \in Versions
      /\ UNCHANGED <<ever, cycles, tracker, traffic, idle, window, reasons,
                     compared, calm, quiet>>
  BY DEF EngineRestarts, coordVars
<1>2. tracker \in Samples /\ run \in Nat /\ tracker.run \in Nat /\ tracker.run <= run
  BY DEF Inv, TypeOK, Samples, SampleInv
<1>3. \A w \in Work : /\ ever[w] \in Nat /\ birth[w] \in Nat /\ tracker.at[w] \in Nat
                      /\ birth[w] <= ever[w] /\ tracker.at[w] <= ever[w]
  BY <1>2 DEF Inv, TypeOK, EngineInv, Samples
<1>4. TypeOK' /\ EngineInv'
  BY <1>1, <1>2, <1>3 DEF Inv, TypeOK, EngineInv
<1>5. SampleInv'
  <2>1. tracker.counters.lines # Missing
          => tracker.counters.lines <= tracker.at["ok"] + tracker.at["ko"]
    <3>1. tracker.counters.lines \in Nat \cup {Missing}
      BY <1>2, Names DEF Samples, Readings
    <3>2. CASE tracker.run = run
      BY <1>3, <3>1, <3>2, Names DEF Inv, SampleInv
    <3>3. CASE tracker.run < run
      BY <3>3 DEF Inv, SampleInv
    <3>4. QED
      BY <1>2, <3>2, <3>3
  <2>2. tracker.run < run + 1
    BY <1>2
  <2>3. QED
    BY <1>1, <1>2, <1>3, <2>1, <2>2 DEF Inv, SampleInv
<1>6. IdleInv' /\ RateInv'
  BY <1>1 DEF Inv, IdleInv, RateInv, RateTrue, IdleAlarmTrue
<1>7. QED
  BY <1>4, <1>5, <1>6 DEF Inv

\* The query of a cycle counts one more cycle, and perhaps itself.
LEMMA AskedIs ==
    ASSUME Inv, AsksForDecisions
    PROVE  /\ cycles' = cycles + 1 /\ cycles \in Nat
           /\ ever' \in [Work -> Nat] /\ \A v \in Work : ever[v] <= ever'[v]
           /\ UNCHANGED <<birth, run, version>>
<1>1. ever' = ever \/ ever' = [ever EXCEPT !["own"] = @ + 1]
  BY DEF AsksForDecisions
<1>2. ever \in [Work -> Nat]
  BY DEF Inv, TypeOK
<1>3. QED
  BY <1>1, <1>2 DEF AsksForDecisions, Inv, TypeOK

LEMMA NoSampleKeeps ==
    ASSUME Inv, tracker' = NoSample, window' = Nothing, reasons' \subseteq {"error"},
           compared' = [run |-> 0, read |-> 0, hidden |-> FALSE], calm' = 0,
           ever' \in [Work -> Nat], \A v \in Work : ever[v] <= ever'[v],
           UNCHANGED <<birth, run, version>>,
           cycles' \in Nat,
           traffic' \in BOOLEAN, idle' \in Nat, quiet' \in Nat, idle' <= quiet'
    PROVE  Inv'
<1>1. TypeOK'
  <2>1. compared' \in [run : Nat, read : Int, hidden : BOOLEAN]
    OBVIOUS
  <2>2. QED
    BY <2>1, NoSampleIs DEF Inv, TypeOK
<1>2. EngineInv' /\ SampleInv'
  <2>1. \A v \in Work : /\ birth[v] \in Nat /\ ever[v] \in Nat /\ ever'[v] \in Nat
                        /\ birth[v] <= ever[v]
    BY DEF Inv, TypeOK, EngineInv
  <2>2. run \in Nat /\ run > 0
    BY DEF Inv, TypeOK, EngineInv
  <2>3. EngineInv'
    BY <2>1, <2>2, NoSampleIs DEF EngineInv
  <2>4. SampleInv'
    BY <2>1, <2>2, NoSampleIs, Names DEF SampleInv
  <2>5. QED
    BY <2>3, <2>4
<1>3. IdleInv'
  BY DEF IdleInv
<1>4. RateInv'
  BY NoSampleIs, Names DEF RateInv, RateTrue, IdleAlarmTrue
<1>5. QED
  BY <1>1, <1>2, <1>3, <1>4 DEF Inv

\* The reasons of a cycle, one by one.
LEMMA ReasonsAre ==
    ASSUME NEW deltas, NEW errors
    PROVE  /\ Reasons(deltas, Counters, errors) \subseteq {"error", "unparsed", "stalled", "idle"}
           /\ ManyUnparsed(Share(deltas, Counters))
                => "unparsed" \in Reasons(deltas, Counters, errors)
           /\ "idle" \in Reasons(deltas, Counters, errors)
                => Still(deltas, "bouncer") /\ IdleCycles(deltas) >= IdleLimit
  BY DEF Reasons

\* A cycle counts an interval as idle only if it measured it and saw no bouncer.
LEMMA IdleIs ==
    ASSUME Inv
    PROVE  LET deltas == RateWindow(tracker, Sample)
               hidden == Missing \in {tracker.start, Sample.start}
           IN  /\ IdleCycles(deltas) \in Nat
               /\ Still(deltas, "bouncer") =>
                     /\ deltas["bouncer"] # Missing
                     /\ Since("hit") + Since("miss") = 0 \/ hidden
               /\ IdleCycles(deltas) # 0 =>
                     \/ Still(deltas, "bouncer") /\ IdleCycles(deltas) = idle + 1
                     \/ deltas["bouncer"] = Missing /\ IdleCycles(deltas) = idle
<1> DEFINE deltas == RateWindow(tracker, Sample)
           hidden == Missing \in {tracker.start, Sample.start}
<1>1. idle \in Nat
  BY DEF Inv, TypeOK
<1>2. Still(deltas, "bouncer") => deltas["bouncer"] # Missing /\ deltas["bouncer"] = 0
  BY MissingAssumption DEF Still
<1>3. deltas["bouncer"] \in Nat \cup {Missing}
  BY WindowIs, Names DEF Readings
<1>4. ASSUME Still(deltas, "bouncer"), ~hidden
      PROVE  Since("hit") + Since("miss") = 0
  BY <1>2, <1>4, WindowIs
<1> HIDE DEF deltas, hidden
<1>5. IdleCycles(deltas) \in {0, idle, idle + 1}
  BY DEF IdleCycles
<1>6. deltas["bouncer"] = Missing \/ Moved(deltas, "bouncer") \/ Still(deltas, "bouncer")
  BY <1>3 DEF Moved, Still
<1>7. IdleCycles(deltas) # 0 =>
          \/ Still(deltas, "bouncer") /\ IdleCycles(deltas) = idle + 1
          \/ deltas["bouncer"] = Missing /\ IdleCycles(deltas) = idle
  BY <1>2, <1>6 DEF IdleCycles
<1>8. QED
  BY <1>1, <1>2, <1>4, <1>5, <1>7 DEF deltas, hidden

\* What is said of an interval is true of the two samples it lies between.
LEMMA ScrapeKeeps ==
    ASSUME Inv, NEW errors \in BOOLEAN, Scrape(errors)
    PROVE  Inv'
<1> DEFINE deltas == RateWindow(tracker, Sample)
           read == IF deltas["lines"] = Missing THEN 0 ELSE Since("ok") + Since("ko")
           hidden == Missing \in {tracker.start, Sample.start}
<1>1. /\ AsksForDecisions
      /\ window' = deltas
      /\ reasons' = Reasons(deltas, Counters, errors)
      /\ traffic' = (traffic \/ Moved(deltas, "lines"))
      /\ idle' = IdleCycles(deltas)
      /\ compared' = [run |-> tracker.run, read |-> read, hidden |-> hidden]
      /\ calm' = IF deltas["bouncer"] # Missing /\ Since("hit") + Since("miss") = 0
                 THEN calm + 1 ELSE 0
      /\ quiet' = IF ~(deltas["bouncer"] # Missing) THEN quiet
                  ELSE IF Since("hit") + Since("miss") = 0 \/ hidden THEN quiet + 1 ELSE 0
      /\ tracker' = Sample
  BY DEF Scrape
<1>2. tracker \in Samples /\ tracker.run \in Nat
  BY DEF Inv, TypeOK, Samples
<1>3. /\ \A w \in Work : ever[w] \in Nat /\ birth[w] \in Nat /\ tracker.at[w] \in Nat
                           /\ birth[w] <= ever[w] /\ tracker.at[w] <= ever[w]
                           /\ Since(w) = ever[w] - tracker.at[w]
                           /\ Count(w) = ever[w] - birth[w]
      /\ run \in Nat /\ run > 0
  BY <1>2 DEF Samples, Inv, TypeOK, EngineInv, Since, Count
<1>4. /\ cycles' = cycles + 1 /\ cycles \in Nat
      /\ ever' \in [Work -> Nat] /\ \A w \in Work : ever[w] <= ever'[w]
      /\ birth' = birth /\ run' = run /\ version' = version
  BY <1>1, AskedIs
<1>5. deltas \in Readings
  BY WindowIs
<1> HIDE DEF deltas
<1>6. TypeOK'
  <2>1. read \in Int
    BY <1>3, Names
  <2>2. hidden \in BOOLEAN
    OBVIOUS
  <2>3. compared' \in [run : Nat, read : Int, hidden : BOOLEAN]
    BY <1>1, <1>2, <2>1, <2>2
  <2>4. traffic' \in BOOLEAN
    BY <1>1, Zenon
  <2>5. calm' \in Nat /\ idle' \in Nat /\ quiet' \in Nat
    BY <1>1, IdleIs DEF Inv, TypeOK, deltas
  <2>6. reasons' \subseteq {"error", "unparsed", "stalled", "idle"}
    BY <1>1, ReasonsAre
  <2>7. QED
    BY <1>1, <1>4, <1>5, <2>3, <2>4, <2>5, <2>6, SampleIs DEF Inv, TypeOK
<1>7. EngineInv'
  <2>1. tracker'.at = ever
    BY <1>1, SampleIs
  <2>2. ASSUME NEW w \in Work PROVE birth'[w] <= ever'[w] /\ tracker'.at[w] <= ever'[w]
    <3>1. ever[w] \in Nat /\ ever'[w] \in Nat /\ birth[w] \in Nat /\ birth[w] <= ever[w]
          /\ ever[w] <= ever'[w]
      BY <1>3, <1>4
    <3>2. QED
      BY <1>4, <2>1, <3>1
  <2>3. QED
    BY <1>3, <1>4, <2>2 DEF EngineInv
<1>8. SampleInv'
  <2>1. tracker'.run = run /\ tracker'.at = ever /\ tracker'.counters = Counters
        /\ tracker'.start \in {Missing, run}
    BY <1>1, SampleIs
  <2>2. Counters.lines # Missing
          => Counters.lines = (ever["ok"] - birth["ok"]) + (ever["ko"] - birth["ko"])
    BY <1>3, CountersAre, Names
  <2>3. Counters.bouncer # Missing
          => Counters.bouncer = (ever["hit"] - birth["hit"]) + (ever["miss"] - birth["miss"])
                                  + IF version.route THEN ever["own"] - birth["own"] ELSE 0
    BY <1>3, CountersAre, Names
  <2>4. QED
    BY <1>3, <1>4, <2>1, <2>2, <2>3 DEF SampleInv
<1>9. IdleInv'
  <2>1. idle \in Nat /\ quiet \in Nat /\ idle <= quiet
    BY DEF Inv, TypeOK, IdleInv
  <2>2. /\ Still(deltas, "bouncer") =>
              deltas["bouncer"] # Missing /\ (Since("hit") + Since("miss") = 0 \/ hidden)
        /\ idle' # 0 =>
              \/ Still(deltas, "bouncer") /\ idle' = idle + 1
              \/ deltas["bouncer"] = Missing /\ idle' = idle
    BY <1>1, IdleIs DEF deltas
  <2>3. quiet' \in Nat
    BY <1>6 DEF TypeOK
  <2> HIDE DEF hidden
  <2>4. QED
    BY <1>1, <2>1, <2>2, <2>3 DEF IdleInv
<1>10. RateTrue'
  <2>1. tracker'.run = run /\ compared'.run = tracker.run /\ compared'.read = read
        /\ compared'.hidden = hidden
    BY <1>1, SampleIs
  <2>2. window'["lines"] # Missing =>
          /\ window'["lines"] <= Since("ok") + Since("ko")
          /\ tracker.run = run => window'["lines"] = Since("ok") + Since("ko")
          /\ tracker.run = run \/ hidden
          /\ read = Since("ok") + Since("ko")
    BY <1>1, WindowIs DEF deltas
  <2> HIDE DEF read, hidden
  <2>3. QED
    BY <2>1, <2>2 DEF RateTrue
<1>11. IdleAlarmTrue'
  <2> SUFFICES ASSUME "idle" \in reasons'
               PROVE  quiet' >= IdleLimit /\ (calm' > 0 \/ compared'.hidden)
    BY DEF IdleAlarmTrue
  <2>1. Still(deltas, "bouncer") /\ idle' >= IdleLimit
    BY <1>1, ReasonsAre
  <2>2. deltas["bouncer"] # Missing /\ (Since("hit") + Since("miss") = 0 \/ hidden)
    BY <2>1, IdleIs DEF deltas
  <2>3. calm' > 0 \/ compared'.hidden
    <3>1. calm \in Nat
      BY DEF Inv, TypeOK
    <3>2. compared'.hidden = hidden
      BY <1>1
    <3>3. CASE hidden
      BY <3>2, <3>3
    <3>4. CASE ~hidden
      BY <1>1, <2>2, <3>1, <3>4
    <3>5. QED
      BY <3>3, <3>4
  <2>4. quiet' >= IdleLimit
    BY <1>6, <1>9, <2>1, LimitAssumption DEF TypeOK, IdleInv
  <2>5. QED
    BY <2>3, <2>4
<1>12. QED
  BY <1>6, <1>7, <1>8, <1>9, <1>10, <1>11 DEF Inv, RateInv

\* What leaves no measurement behind, and what throws the results of a cycle away.
LEMMA OtherStepsKeep ==
    ASSUME Inv, ScrapeFails \/ CycleRaises \/ NewCoordinator
    PROVE  Inv'
<1>1. ever \in [Work -> Nat] /\ (\A w \in Work : ever[w] <= ever[w]) /\ cycles \in Nat
      /\ idle \in Nat /\ traffic \in BOOLEAN
  BY DEF Inv, TypeOK
<1>2. CASE ScrapeFails
  <2>1. /\ cycles' = cycles + 1
        /\ ever' \in [Work -> Nat] /\ \A w \in Work : ever[w] <= ever'[w]
        /\ UNCHANGED <<birth, run, version>>
    BY <1>2, AskedIs DEF ScrapeFails
  <2>2. tracker' = NoSample /\ window' = Nothing /\ reasons' \subseteq {"error"}
        /\ compared' = [run |-> 0, read |-> 0, hidden |-> FALSE] /\ calm' = 0
        /\ traffic' \in BOOLEAN /\ idle' \in Nat /\ quiet' \in Nat /\ idle' <= quiet'
    BY <1>1, <1>2 DEF ScrapeFails, Inv, TypeOK, IdleInv
  <2>3. QED
    BY <1>1, <2>1, <2>2, NoSampleKeeps
<1>3. CASE NewCoordinator
  <2>1. UNCHANGED <<ever, birth, run, version, cycles>> /\ traffic' \in BOOLEAN
    BY <1>3, Zenon DEF NewCoordinator, engineVars
  <2>2. tracker' = NoSample /\ window' = Nothing /\ reasons' \subseteq {"error"}
        /\ compared' = [run |-> 0, read |-> 0, hidden |-> FALSE] /\ calm' = 0
        /\ idle' \in Nat /\ quiet' \in Nat /\ idle' <= quiet'
    BY <1>3 DEF NewCoordinator
  <2>3. QED
    BY <1>1, <2>1, <2>2, NoSampleKeeps
<1>4. CASE CycleRaises
  <2>1. /\ cycles' = cycles + 1
        /\ ever' \in [Work -> Nat] /\ \A w \in Work : ever[w] <= ever'[w]
        /\ UNCHANGED <<birth, run, version, tracker, traffic, idle, window, reasons, compared,
                       calm, quiet>>
    BY <1>4, AskedIs DEF CycleRaises, coordVars
  <2>2. \A w \in Work : birth[w] \in Nat /\ ever[w] \in Nat /\ ever'[w] \in Nat
                          /\ tracker.at[w] \in Nat
    BY <1>1, <2>1 DEF Inv, TypeOK, Samples
  <2>3. TypeOK' /\ EngineInv'
    BY <1>1, <2>1, <2>2 DEF Inv, TypeOK, EngineInv
  <2>4. SampleInv' /\ RateTrue'
    BY <2>1 DEF Inv, SampleInv, RateInv, RateTrue
  <2>5. IdleInv' /\ IdleAlarmTrue'
    BY <2>1 DEF Inv, IdleInv, RateInv, IdleAlarmTrue
  <2>6. QED
    BY <2>3, <2>4, <2>5 DEF Inv, RateInv
<1>5. QED
  BY <1>2, <1>3, <1>4

LEMMA StepKeeps == Inv /\ [Next]_vars => Inv'
<1> SUFFICES ASSUME Inv, [Next]_vars PROVE Inv'
  OBVIOUS
<1>1. ASSUME NEW w \in Work \ {"own"}, Works(w) PROVE Inv'
  BY <1>1, WorksKeeps
<1>2. CASE EngineRestarts
  BY <1>2, EngineRestartsKeeps
<1>3. ASSUME NEW errors \in BOOLEAN, Scrape(errors) PROVE Inv'
  BY <1>3, ScrapeKeeps
<1>4. CASE ScrapeFails \/ CycleRaises \/ NewCoordinator
  BY <1>4, OtherStepsKeep
<1>5. CASE UNCHANGED vars
  BY <1>5 DEF vars, engineVars, coordVars, Inv, TypeOK, EngineInv, SampleInv, IdleInv, RateInv,
              RateTrue, IdleAlarmTrue
<1>6. QED
  BY <1>1, <1>2, <1>3, <1>4, <1>5 DEF Next

\* The invariant on which the properties rest: what a sample says of its run, and
\* what has been counted since.
THEOREM Invariance == Spec => []Inv
<1>1. QED
  BY InitInv, StepKeeps, PTL DEF Spec

\* The type invariant holds for any number of lines, queries, runs and cycles; with
\* it no rate is ever negative.
THEOREM TypeCorrect == Spec => []TypeOK
<1>1. Inv => TypeOK
  BY DEF Inv
<1>2. QED
  BY <1>1, Invariance, PTL

\* No rate claims lines that were not read in its interval.
THEOREM RatesAreTrue == Spec => []RateTrue
<1>1. Inv => RateTrue
  BY DEF Inv, RateInv
<1>2. QED
  BY <1>1, Invariance, PTL

\* Bouncers are not called idle before enough intervals without a query of theirs
\* have been measured.
THEOREM IdleAlarmIsTrue == Spec => []IdleAlarmTrue
<1>1. Inv => IdleAlarmTrue
  BY DEF Inv, RateInv
<1>2. QED
  BY <1>1, Invariance, PTL

\* A CrowdSec that parses no line is reported by every cycle with a scrape.
THEOREM UnparsedIsNoticed == Spec => []UnparsedNoticed
<1>1. Init => UnparsedNoticed
  BY NoSampleIs, Names DEF Init, UnparsedNoticed
<1>2. Inv /\ UnparsedNoticed /\ [Next]_vars => UnparsedNoticed'
  <2> SUFFICES ASSUME Inv, UnparsedNoticed, [Next]_vars PROVE UnparsedNoticed'
    OBVIOUS
  <2>1. CASE UNCHANGED <<tracker, reasons>>
    BY <2>1 DEF UnparsedNoticed
  <2>2. CASE tracker' = NoSample
    BY <2>2, NoSampleIs, Names DEF UnparsedNoticed
  <2>3. ASSUME NEW errors \in BOOLEAN, Scrape(errors) PROVE UnparsedNoticed'
    <3>1. tracker'.counters = Counters
          /\ reasons' = Reasons(RateWindow(tracker, Sample), Counters, errors)
      BY <2>3, SampleIs DEF Scrape
    <3>2. QED
      BY <3>1, AllUnparsed, ReasonsAre DEF UnparsedNoticed
  <2>4. QED
    BY <2>1, <2>2, <2>3 DEF Next, Works, EngineRestarts, ScrapeFails, CycleRaises,
                            NewCoordinator, vars, coordVars
<1>3. QED
  BY <1>1, <1>2, Invariance, PTL DEF Spec
=============================================================================
