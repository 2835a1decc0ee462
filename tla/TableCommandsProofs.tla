------------------------- MODULE TableCommandsProofs -------------------------
(***************************************************************************)
(* What the two cards show and take away, for any decisions, targets,      *)
(* pages and number of commands: the report is about what was asked, the   *)
(* rows are those of the tables, a removed row stays away, and central     *)
(* decisions are kept.                                                     *)
(***************************************************************************)
EXTENDS TableCommands, SequenceTheorems, FiniteSetTheorems, FunctionTheorems, WellFoundedInduction,
        TLAPS

\* A command has the fields of one, a load has a phase.
CommandShape ==
    \/ command = NoCommand
    \/ DOMAIN command = {"phase", "kind", "card", "decision", "target", "seen", "gone", "fresh"}

LoadShape == DOMAIN load = Loads /\ \A l \in Loads : "phase" \in DOMAIN load[l]

\* Only the lookup card reads back, and the load of an unban belongs to the
\* command that waits for it.
PhaseInv ==
    /\ command.phase = "reading" => command.card = "lookup"
    /\ load["unban"] # NoLoad => command.phase = "loading"

\* A command waits for an answer about an address.
Asking ==
    \/ command.phase = "reading"
    \/ command.phase # "none" /\ command.card = "lookup" /\ command.kind = "ban"

\* Unless answers overtook each other, at most one is awaited, it is about the
\* address asked last, and so is the report when there is none.
AskInv ==
    ~excused =>
        /\ lookups \subseteq {asked}
        /\ Asking => lookups = {} /\ asked = command.target
        /\ lookups = {} /\ command.phase # "reading"
             => report = NoReport \/ report.target = asked

\* What stands at a report was in force when its rows were read.
FreeInv == report # NoReport /\ report.told /\ ~report.blocked => report.standing = {}

\* What the variables of the table hold.
Paging == [phase : {"paging"}, rows : Seq(Local), tables : SUBSET SUBSET Local,
           total : Nat, dry : BOOLEAN]

TypeInv ==
    /\ enforced \subseteq Decisions /\ past \subseteq Decisions
    /\ table \subseteq Local
    /\ cycle \in [phase : {"idle", "asking", "answered"},
                  by : {"none", "poll", "debouncer", "command", "load", "service"},
                  snap : SUBSET Local]
    /\ load \in [Loads -> {NoLoad, [phase |-> "asked"]} \cup Paging]
    /\ shown \in Seq(Local)

\* What a command has to do is settled before it acts: a row of a card is local,
\* and an address of a card has passed the check.
KindInv ==
    command # NoCommand =>
        /\ command.kind \in {"row", "address", "ban"}
        /\ command.kind = "ban" => command.decision \in Local
        /\ command.card # "service" =>
              /\ command.kind = "row" => command.decision \in Local
              /\ command.kind = "address" /\ command.phase # "checking"
                   => Checked(command.seen)
              /\ \A d \in command.gone \ Local : command.kind = "address"

\* Each row a load has read was at its place in one of the tables, and the total
\* and an empty page are those of one of them.
PageInv ==
    \A l \in Loads : Watched(l) =>
        /\ table \in load[l].tables
        /\ \A i \in 1 .. Len(load[l].rows) :
              \E t \in load[l].tables :
                 i \in 1 .. Cardinality(t) /\ load[l].rows[i] = Rows(t)[i]
        /\ \E t \in load[l].tables : load[l].total = Cardinality(t)
        /\ load[l].dry => \E t \in load[l].tables : Cardinality(t) <= Len(load[l].rows)

\* What the command under way has removed and its refresh has seen to be gone.
Gone == IF command # NoCommand /\ command.fresh = TRUE THEN command.gone ELSE {}

\* What was removed is past and stays there; no refresh is over before the request.
PastInv ==
    /\ enforced \cap past = {}
    /\ cleared \subseteq past
    /\ command # NoCommand =>
          /\ command.gone \subseteq past
          /\ command.fresh \in BOOLEAN
          /\ command.phase \in {"checking", "acting"} => command.fresh = FALSE

\* A command waits for a cycle it has started after the request; once that is over,
\* what was removed is in no table and in no answer under way.
RefreshInv ==
    /\ (cleared \cup Gone) \cap (table \cup cycle.snap) = {}
    /\ Waits("command") =>
          command # NoCommand /\ command.phase = "refreshed" /\ command.gone \cap cycle.snap = {}

\* It is in no rows on show, and in none that a load has read since.
RowsInv ==
    /\ \A l \in Loads : Watched(l) => cleared \cap Range(load[l].rows) = {}
    /\ Watched("unban") => Gone \cap Range(load["unban"].rows) = {}
    /\ cleared \cap Range(shown) = {}

RemovedInv == PastInv /\ RefreshInv /\ RowsInv

AnswerInv == CommandShape /\ LoadShape /\ PhaseInv /\ AskInv
DataInv == TypeInv /\ KindInv /\ PageInv /\ RemovedInv
Inv == AnswerInv /\ FreeInv /\ DataInv

-----------------------------------------------------------------------------
(* The rows of a table *)

\* A set of natural numbers that is not empty has a least one.
LEMMA Least ==
    ASSUME NEW T, T \subseteq Nat, T # {}
    PROVE  \E n \in T : \A m \in T : n <= m
<1>1. PICK n \in T : \A m \in T : <<m, n>> \notin OpToRel(<, Nat)
  BY NatLessThanWellFounded, WFMin
<1>2. ASSUME NEW m \in T PROVE n <= m
  <2>1. <<m, n>> \notin OpToRel(<, Nat)
    BY <1>1
  <2>2. ~(m < n)
    BY <2>1, m \in Nat, n \in Nat DEF OpToRel
  <2>3. QED
    BY <2>2
<1>3. QED
  BY <1>2

\* A sequence of a set in ascending order.
Ascends(s, t) ==
    /\ s \in [1 .. Cardinality(t) -> t]
    /\ \A i, j \in 1 .. Cardinality(t) : i < j => s[i] < s[j]

\* Every finite set of numbers has one: otherwise take one of the least size that
\* has none, and put its least number before the sequence of the others.
LEMMA AscendingExists ==
    ASSUME NEW t, t \subseteq Nat, IsFiniteSet(t)
    PROVE  \E s : Ascends(s, t)
<1> DEFINE Bad(u) == u \subseteq Nat /\ IsFiniteSet(u) /\ ~ \E s : Ascends(s, u)
           Sizes == {n \in Nat : \E u \in SUBSET Nat : Bad(u) /\ Cardinality(u) = n}
<1> SUFFICES ASSUME Bad(t) PROVE FALSE
  OBVIOUS
<1>1. Cardinality(t) \in Sizes
  BY FS_CardinalityType
<1>2. PICK n \in Sizes : \A m \in Sizes : n <= m
  BY <1>1, Least
<1>3. PICK u \in SUBSET Nat : Bad(u) /\ Cardinality(u) = n
  BY <1>2
<1>4. u # {}
  <2>1. SUFFICES ASSUME u = {} PROVE FALSE
    OBVIOUS
  <2>2. Cardinality(u) = 0
    BY <2>1, FS_EmptySet
  <2>3. Ascends(<<>>, u)
    BY <2>1, <2>2 DEF Ascends
  <2>4. QED
    BY <1>3, <2>3
<1>5. PICK x \in u : \A y \in u : x <= y
  BY <1>4, Least
<1> DEFINE v == u \ {x}
<1>6. IsFiniteSet(v) /\ Cardinality(v) = n - 1 /\ n \in Nat
  BY <1>3, <1>5, FS_RemoveElement
<1>7. n - 1 \in Nat
  BY <1>6, FS_CardinalityType
<1>8. ~Bad(v)
  BY <1>2, <1>6, <1>7
<1>9. PICK s : Ascends(s, v)
  BY <1>6, <1>8
<1> DEFINE r == [i \in 1 .. n |-> IF i = 1 THEN x ELSE s[i - 1]]
<1>10. ASSUME NEW i \in 1 .. n, i # 1 PROVE i - 1 \in 1 .. n - 1 /\ s[i - 1] \in v
  <2> HIDE DEF v
  <2>1. s \in [1 .. n - 1 -> v]
    BY <1>6, <1>9 DEF Ascends
  <2>2. i - 1 \in 1 .. n - 1
    BY <1>6, <1>10
  <2>3. QED
    BY <2>1, <2>2
<1>11. r \in [1 .. n -> u]
  BY <1>5, <1>10
<1>12. ASSUME NEW i \in 1 .. n, NEW j \in 1 .. n, i < j PROVE r[i] < r[j]
  <2>1. j # 1 /\ r[j] = s[j - 1] /\ j - 1 \in 1 .. n - 1 /\ s[j - 1] \in v
    BY <1>10, <1>12
  <2>2. CASE i = 1
    <3>1. x <= s[j - 1] /\ x # s[j - 1] /\ x \in Nat /\ s[j - 1] \in Nat
      BY <1>5, <2>1
    <3>2. QED
      BY <2>1, <2>2, <3>1
  <2>3. CASE i # 1
    <3>1. r[i] = s[i - 1] /\ i - 1 \in 1 .. n - 1 /\ i - 1 < j - 1
      BY <1>10, <1>12, <2>3
    <3>2. QED
      BY <1>6, <1>9, <2>1, <3>1 DEF Ascends
  <2>4. QED
    BY <2>2, <2>3
<1>13. Ascends(r, u)
  BY <1>3, <1>11, <1>12 DEF Ascends
<1>14. QED
  BY <1>3, <1>13

\* The rows of a table are its decisions, each once, in ascending order.
LEMMA RowsAscend ==
    ASSUME NEW t, t \subseteq Decisions
    PROVE  /\ IsFiniteSet(t) /\ Cardinality(t) \in Nat
           /\ Rows(t) \in [1 .. Cardinality(t) -> t]
           /\ \A i, j \in 1 .. Cardinality(t) : i < j => Rows(t)[i] < Rows(t)[j]
           /\ \A d \in t : \E i \in 1 .. Cardinality(t) : Rows(t)[i] = d
<1> DEFINE n == Cardinality(t)
<1>1. IsFiniteSet(t) /\ t \subseteq Nat
  BY DecisionsAssumption, FS_Subset
<1>2. n \in Nat
  BY <1>1, FS_CardinalityType
<1>3. PICK s : Ascends(s, t)
  BY <1>1, AscendingExists
<1>4. /\ Rows(t) \in [1 .. n -> t]
      /\ \A i, j \in DOMAIN Rows(t) : i < j => Rows(t)[i] < Rows(t)[j]
  <2>1. s \in [1 .. n -> t] /\ \A i, j \in DOMAIN s : i < j => s[i] < s[j]
    BY <1>3 DEF Ascends
  <2>2. QED
    BY <2>1 DEF Rows
<1>5. Rows(t) \in Injection(1 .. n, t)
  <2>1. ASSUME NEW i \in 1 .. n, NEW j \in 1 .. n, i # j PROVE Rows(t)[i] # Rows(t)[j]
    <3>1. Rows(t)[i] \in Nat /\ Rows(t)[j] \in Nat
      BY <1>1, <1>4
    <3>2. i < j \/ j < i
      BY <1>2, <2>1
    <3>3. QED
      BY <1>4, <3>1, <3>2
  <2>2. QED
    BY <1>4, <2>1 DEF Injection, IsInjective
<1>6. Rows(t) \in Surjection(1 .. n, t)
  <2>1. Cardinality(1 .. n) = n
    BY <1>2, FS_Interval
  <2> HIDE DEF n
  <2>2. n = Cardinality(t)
    BY DEF n
  <2>3. QED
    BY <1>1, <1>5, <2>1, <2>2, FS_Injection
<1>7. QED
  BY <1>1, <1>2, <1>4, <1>6 DEF Surjection

\* As many decisions come before a row as rows do.
LEMMA RowAtPlace ==
    ASSUME NEW t, t \subseteq Decisions, NEW i \in 1 .. Cardinality(t)
    PROVE  Place(t, Rows(t)[i]) = i - 1
<1> DEFINE n == Cardinality(t)
           before == {e \in t : e < Rows(t)[i]}
           f == [j \in 1 .. i - 1 |-> Rows(t)[j]]
<1>1. /\ n \in Nat /\ Rows(t) \in [1 .. n -> t] /\ t \subseteq Nat
      /\ \A j, k \in 1 .. n : j < k => Rows(t)[j] < Rows(t)[k]
      /\ \A d \in t : \E j \in 1 .. n : Rows(t)[j] = d
  BY RowsAscend, DecisionsAssumption
<1>2. i \in 1 .. n /\ i - 1 \in Nat /\ \A j \in 1 .. i - 1 : j \in 1 .. n /\ j < i
  BY <1>1
<1> HIDE DEF n
<1>3. f \in [1 .. i - 1 -> before]
  BY <1>1, <1>2
<1>4. ASSUME NEW j \in 1 .. i - 1, NEW k \in 1 .. i - 1, f[j] = f[k] PROVE j = k
  <2>1. Rows(t)[j] = Rows(t)[k] /\ j \in 1 .. n /\ k \in 1 .. n /\ Rows(t)[j] \in Nat
    BY <1>1, <1>2, <1>4
  <2>2. ~(j < k) /\ ~(k < j)
    BY <1>1, <2>1
  <2>3. QED
    BY <2>2
<1>5. ASSUME NEW e \in before PROVE \E j \in 1 .. i - 1 : f[j] = e
  <2>1. PICK j \in 1 .. n : Rows(t)[j] = e
    BY <1>1
  <2>2. Rows(t)[i] \in Nat /\ Rows(t)[j] \in Nat /\ Rows(t)[j] < Rows(t)[i]
    BY <1>1, <1>2, <2>1
  <2>3. ~(i < j) /\ i # j
    BY <1>1, <1>2, <2>2
  <2>4. j \in 1 .. i - 1
    BY <1>1, <1>2, <2>3
  <2>5. QED
    BY <2>1, <2>4
<1>6. f \in Bijection(1 .. i - 1, before)
  BY <1>3, <1>4, <1>5 DEF Bijection, Injection, IsInjective, Surjection
<1>7. IsFiniteSet(1 .. i - 1) /\ Cardinality(1 .. i - 1) = i - 1
  BY <1>2, FS_Interval
<1>8. Cardinality(before) = i - 1
  <2> HIDE DEF before, f
  <2>1. ExistsBijection(1 .. i - 1, before)
    BY <1>6 DEF ExistsBijection
  <2>2. QED
    BY <1>7, <2>1, FS_Bijection
<1>9. QED
  BY <1>8 DEF Place

\* A page is a stretch of the rows, and is empty only at their end.
LEMMA PageIs ==
    ASSUME NEW t, t \subseteq Decisions, NEW o \in Nat
    PROVE  /\ Page(t, o) \in Seq(t)
           /\ \A i \in 1 .. Len(Page(t, o)) :
                 o + i \in 1 .. Cardinality(t) /\ Page(t, o)[i] = Rows(t)[o + i]
           /\ Page(t, o) = <<>> => Cardinality(t) <= o
<1> DEFINE n == Cardinality(t)
           last == Min({o + PageSize, n})
<1>1. n \in Nat /\ Rows(t) \in [1 .. n -> t] /\ PageSize \in Nat \ {0}
  BY RowsAscend, PageAssumption
<1> HIDE DEF n
<1>2. last \in {o + PageSize, n} /\ last <= o + PageSize /\ last <= n
  <2>1. \E x \in {o + PageSize, n} : \A y \in {o + PageSize, n} : x =< y
    BY <1>1
  <2>2. last \in {o + PageSize, n} /\ \A y \in {o + PageSize, n} : last =< y
    BY <2>1 DEF Min
  <2>3. QED
    BY <2>2
<1>3. Page(t, o) = SubSeq(Rows(t), o + 1, last)
  BY DEF Page, n
<1> HIDE DEF last
<1>4. o + 1 \in Int /\ last \in Int /\ \A i \in o + 1 .. last : Rows(t)[i] \in t
  BY <1>1, <1>2
<1>5. /\ Page(t, o) \in Seq(t)
      /\ Len(Page(t, o)) = IF o + 1 <= last THEN last - (o + 1) + 1 ELSE 0
      /\ \A i \in 1 .. last - (o + 1) + 1 : Page(t, o)[i] = Rows(t)[o + 1 + i - 1]
  BY <1>3, <1>4, SubSeqProperties
<1>6. ASSUME NEW i \in 1 .. Len(Page(t, o))
      PROVE  o + i \in 1 .. n /\ Page(t, o)[i] = Rows(t)[o + i]
  <2>1. i \in 1 .. last - (o + 1) + 1 /\ o + i \in 1 .. n /\ o + 1 + i - 1 = o + i
    BY <1>1, <1>2, <1>5
  <2>2. QED
    BY <1>5, <2>1
<1>7. ASSUME Page(t, o) = <<>> PROVE n <= o
  <2>1. ~(o + 1 <= last)
    BY <1>2, <1>4, <1>5, <1>7
  <2>2. QED
    BY <1>1, <1>2, <2>1
<1>8. QED
  BY <1>5, <1>6, <1>7 DEF n

-----------------------------------------------------------------------------
(* Records *)

\* A command that goes on keeps all but its phase, what it has seen and removed.
GoesOn(c, p) ==
    /\ DOMAIN c = DOMAIN command /\ c # NoCommand /\ c.phase = p
    /\ c.kind = command.kind /\ c.card = command.card /\ c.target = command.target
    /\ c.decision = command.decision /\ c.fresh = command.fresh

LEMMA CommandGoesOn ==
    ASSUME CommandShape, command # NoCommand, NEW p, NEW c, c = [command EXCEPT !.phase = p]
    PROVE  GoesOn(c, p) /\ c.seen = command.seen /\ c.gone = command.gone
<1>1. "kind" \in DOMAIN command /\ "kind" \notin DOMAIN NoCommand
  BY DEF CommandShape, NoCommand
<1>2. QED
  BY <1>1 DEF CommandShape, GoesOn

LEMMA CommandSees ==
    ASSUME CommandShape, command # NoCommand, NEW s,
           command' = [command EXCEPT !.phase = "acting", !.seen = s]
    PROVE  GoesOn(command', "acting") /\ command'.seen = s /\ command'.gone = command.gone
<1>1. "kind" \in DOMAIN command /\ "kind" \notin DOMAIN NoCommand
  BY DEF CommandShape, NoCommand
<1>2. QED
  BY <1>1 DEF CommandShape, GoesOn

LEMMA CommandRemoves ==
    ASSUME CommandShape, command # NoCommand, NEW s,
           command' = [command EXCEPT !.phase = "refreshed", !.gone = s]
    PROVE  GoesOn(command', "refreshed") /\ command'.seen = command.seen /\ command'.gone = s
<1>1. "kind" \in DOMAIN command /\ "kind" \notin DOMAIN NoCommand
  BY DEF CommandShape, NoCommand
<1>2. QED
  BY <1>1 DEF CommandShape, GoesOn

\* The end of a cycle only marks the command.
LEMMA CommandMarked ==
    ASSUME CommandShape, NEW c, c = [command EXCEPT !.fresh = TRUE]
    PROVE  /\ DOMAIN c = DOMAIN command /\ c.phase = command.phase
           /\ command = NoCommand => c = NoCommand
           /\ command # NoCommand =>
                 /\ c # NoCommand /\ c.fresh = TRUE
                 /\ c.kind = command.kind /\ c.card = command.card
                 /\ c.target = command.target /\ c.decision = command.decision
                 /\ c.seen = command.seen /\ c.gone = command.gone
<1>1. CASE command = NoCommand
  BY <1>1 DEF NoCommand
<1>2. CASE command # NoCommand
  <2>1. "kind" \in DOMAIN command /\ "kind" \notin DOMAIN NoCommand
    BY <1>2 DEF CommandShape, NoCommand
  <2>2. QED
    BY <1>2, <2>1 DEF CommandShape
<1>3. QED
  BY <1>1, <1>2

\* What the lookup card is told of an address is about that address, and says that
\* it is free only if nothing in force covers it.
LEMMA ReportIs ==
    ASSUME NEW t, NEW told \in BOOLEAN, NEW S, S \subseteq enforced
    PROVE  LET r == Report(t, told, S)
           IN  r.target = t /\ (r.told /\ ~r.blocked => r.standing = {})
<1>1. CASE told
  BY <1>1 DEF Report, Covering
<1>2. CASE ~told
  BY <1>2 DEF Report
<1>3. QED
  BY <1>1, <1>2

-----------------------------------------------------------------------------
(* The steps *)

LEMMA AnswerInit == Init => AnswerInv /\ FreeInv
<1> SUFFICES ASSUME Init PROVE AnswerInv /\ FreeInv
  OBVIOUS
<1>1. CommandShape /\ LoadShape /\ PhaseInv /\ AskInv
  BY ReportIs DEF Init, CommandShape, LoadShape, PhaseInv, AskInv, Asking, NoCommand, NoLoad,
                  Loads, Report
<1>2. FreeInv
  BY ReportIs DEF Init, FreeInv
<1>3. QED
  BY <1>1, <1>2 DEF AnswerInv

\* The report changes by an answer, which is about what has been asked, or goes.
LEMMA FreeStep == FreeInv /\ [Next]_vars => FreeInv'
<1> SUFFICES ASSUME FreeInv, [Next]_vars PROVE FreeInv'
  OBVIOUS
<1>1. CASE UNCHANGED report
  BY <1>1 DEF FreeInv
<1>2. CASE BanAnswered
  BY <1>2, ReportIs DEF BanAnswered, ReadBack, FreeInv
<1>3. ASSUME NEW t \in Targets, LookupAnswered(t) PROVE FreeInv'
  BY <1>3, ReportIs DEF LookupAnswered, FreeInv
<1>4. CASE UnbanLookupAnswered
  BY <1>4, <1>1, ReportIs DEF UnbanLookupAnswered, FreeInv
<1>5. QED
  BY <1>1, <1>2, <1>3, <1>4
  DEF Next, vars, cards, Poll, TimerEnds, CycleAnswered, CycleEnds, CycleFails, Enforce, End,
      Ban, LoadStarts, FirstPage, NextPage, LoadEnds, LoadFails, UnbanShownRow, UnbanReported,
      CommandStarts, ServiceUnban, Lookup, ServiceRefresh, CheckAnswered, Acted, CommandFails,
      ServiceDone, UnbanAnswered, AskedAgain

\* A new command has asked only if it is a ban of the lookup card, and that one
\* offers it for the address it shows.
LEMMA StartStep ==
    ASSUME AnswerInv, NEW kind, NEW card, NEW d, NEW target,
           CommandStarts(kind, card, d, target),
           \/ Quiet /\ (card # "lookup" \/ kind # "ban")
           \/ /\ Ask(target, lookups # {})
              /\ report # NoReport => report.target = target
    PROVE  AnswerInv'
<1>1. CommandShape' /\ LoadShape' /\ command'.phase \in {"checking", "acting"}
  BY DEF AnswerInv, CommandShape, LoadShape, CommandStarts, Command
<1>2. command'.kind = kind /\ command'.card = card /\ command'.target = target
  BY DEF CommandStarts, Command
<1>3. PhaseInv'
  BY <1>1 DEF AnswerInv, PhaseInv, CommandStarts, NoCommand
<1>4. AskInv'
  BY <1>1, <1>2 DEF AnswerInv, AskInv, Asking, CommandStarts, Quiet, Ask, NoCommand
<1>5. QED
  BY <1>1, <1>3, <1>4 DEF AnswerInv

LEMMA AnswerStep == AnswerInv /\ [Next]_vars => AnswerInv'
<1> SUFFICES ASSUME AnswerInv, [Next]_vars PROVE AnswerInv'
  OBVIOUS
<1> USE DEF AnswerInv
<1>1. CASE UNCHANGED <<load, command, lookups, report, asked, excused>>
  BY <1>1 DEF CommandShape, LoadShape, PhaseInv, AskInv, Asking
<1>2. CASE CycleEnds
  <2>1. CommandShape' /\ command'.phase = command.phase
        /\ (command # NoCommand => /\ command'.kind = command.kind
                                   /\ command'.card = command.card
                                   /\ command'.target = command.target)
        /\ (command = NoCommand => command' = NoCommand)
    BY <1>2, CommandMarked DEF CycleEnds, CommandShape
  <2>2. LoadShape' /\ (load'["unban"] # NoLoad => load["unban"] # NoLoad)
    BY <1>2 DEF CycleEnds, LoadShape, Watched, Loads, NoLoad
  <2>3. PhaseInv'
    BY <2>1, <2>2 DEF PhaseInv, NoCommand
  <2>4. AskInv'
    BY <1>2, <2>1 DEF CycleEnds, AskInv, Asking, NoCommand
  <2>5. QED
    BY <2>1, <2>2, <2>3, <2>4
<1>3. ASSUME NEW refresh \in BOOLEAN, LoadStarts(refresh) PROVE AnswerInv'
  BY <1>3 DEF LoadStarts, CommandShape, LoadShape, PhaseInv, AskInv, Asking, Loads
<1>4. ASSUME NEW l \in Loads, FirstPage(l) PROVE AnswerInv'
  <2>1. LoadShape' /\ (load'["unban"] # NoLoad => load["unban"] # NoLoad)
    BY <1>4 DEF FirstPage, LoadShape, Loads, NoLoad
  <2>2. QED
    BY <1>4, <2>1 DEF FirstPage, CommandShape, PhaseInv, AskInv, Asking
<1>5. ASSUME NEW l \in Loads, NextPage(l) PROVE AnswerInv'
  <2>1. LoadShape' /\ (load'["unban"] # NoLoad => load["unban"] # NoLoad)
    BY <1>5 DEF NextPage, LoadShape, Loads, NoLoad, Watched
  <2>2. QED
    BY <1>5, <2>1 DEF NextPage, CommandShape, PhaseInv, AskInv, Asking
<1>6. ASSUME NEW l \in Loads, LoadEnds(l) \/ LoadFails(l) PROVE AnswerInv'
  <2>1. LoadShape' /\ (load'["unban"] # NoLoad => load["unban"] # NoLoad /\ l # "unban")
    BY <1>6 DEF LoadEnds, LoadFails, LoadShape, Loads, NoLoad
  <2>2. CASE l = "unban"
    <3>1. load["unban"] # NoLoad
      BY <1>6, <2>2 DEF LoadEnds, LoadFails, AllRead, Watched, NoLoad
    <3>2. command.phase = "loading" /\ command' = NoCommand
      BY <1>6, <2>2, <3>1 DEF LoadEnds, LoadFails, UnbanShown, PhaseInv
    <3>3. QED
      BY <1>6, <2>1, <2>2, <3>2
      DEF LoadEnds, LoadFails, CommandShape, PhaseInv, AskInv, Asking, NoCommand
  <2>3. CASE l # "unban"
    BY <1>6, <2>1, <2>3
    DEF LoadEnds, LoadFails, CommandShape, PhaseInv, AskInv, Asking
  <2>4. QED
    BY <2>2, <2>3
<1>7. CASE UnbanShownRow
  BY <1>7, StartStep DEF UnbanShownRow
<1>8. CASE UnbanReported
  BY <1>8, StartStep DEF UnbanReported
<1>9. ASSUME NEW d \in Decisions, Ban(d) PROVE AnswerInv'
  BY <1>9, StartStep DEF Ban
<1>10. ASSUME NEW t \in Targets, ServiceUnban(t) PROVE AnswerInv'
  BY <1>10, StartStep DEF ServiceUnban
<1>11. CASE CheckAnswered \/ Acted
  <2>1. command # NoCommand /\ command.phase \in {"checking", "acting"}
    BY <1>11 DEF CheckAnswered, Acted, NoCommand
  <2>2. CommandShape' /\ (command' # NoCommand =>
                             /\ command'.phase \in {"acting", "refreshed"}
                             /\ command'.kind = command.kind /\ command'.card = command.card
                             /\ command'.target = command.target)
    <3>1. CASE CheckAnswered
      BY <2>1, <3>1, CommandSees DEF CheckAnswered, CommandShape, GoesOn
    <3>2. CASE Acted
      BY <2>1, <3>2, CommandRemoves DEF Acted, CommandShape, GoesOn
    <3>3. QED
      BY <1>11, <3>1, <3>2
  <2>3. UNCHANGED <<load, lookups, report, asked, excused>>
    BY <1>11 DEF CheckAnswered, Acted
  <2>4. QED
    BY <2>1, <2>2, <2>3 DEF LoadShape, PhaseInv, AskInv, Asking, NoCommand
<1>12. CASE CommandFails \/ ServiceDone
  BY <1>12 DEF CommandFails, ServiceDone, Refreshed, CommandShape, LoadShape, PhaseInv, AskInv,
              Asking, NoCommand
<1>13. CASE UnbanAnswered
  <2>1. command # NoCommand /\ command.phase = "refreshed" /\ command.card = "bans"
    BY <1>13 DEF UnbanAnswered, Refreshed, NoCommand
  <2>2. UNCHANGED <<lookups, report, asked, excused>>
    BY <1>13 DEF UnbanAnswered
  <2>3. CASE UNCHANGED load /\ command' = NoCommand
    BY <2>1, <2>2, <2>3 DEF CommandShape, LoadShape, PhaseInv, AskInv, Asking, NoCommand
  <2>4. CASE /\ load' = [load EXCEPT !["unban"] = [phase |-> "asked"]]
             /\ command' = [command EXCEPT !.phase = "loading"]
    <3>1. CommandShape' /\ command'.phase = "loading" /\ command'.card = "bans"
      BY <2>1, <2>4, CommandGoesOn DEF CommandShape, GoesOn
    <3>2. LoadShape'
      BY <2>4 DEF LoadShape, Loads
    <3>3. QED
      BY <2>1, <2>2, <3>1, <3>2 DEF PhaseInv, AskInv, Asking
  <2>5. QED
    BY <1>13, <2>3, <2>4 DEF UnbanAnswered, UnbanShown
<1>14. CASE AskedAgain
  <2>1. command # NoCommand /\ command.phase = "refreshed" /\ command.card = "lookup"
    BY <1>14 DEF AskedAgain, Refreshed, NoCommand
  <2>2. /\ CommandShape' /\ command'.phase = "reading" /\ command'.card = "lookup"
        /\ command'.target = command.target
    BY <1>14, <2>1, CommandGoesOn DEF AskedAgain, CommandShape, GoesOn
  <2>3. QED
    BY <1>14, <2>1, <2>2 DEF AskedAgain, Ask, LoadShape, PhaseInv, AskInv, Asking
<1>15. CASE BanAnswered
  <2>1. /\ command.phase = "refreshed" /\ command.card = "lookup" /\ command.kind = "ban"
        /\ command' = NoCommand /\ report'.target = command.target
        /\ UNCHANGED <<load, lookups, asked, excused>>
    BY <1>15 DEF BanAnswered, Refreshed, ReadBack, Report
  <2>2. QED
    BY <2>1 DEF CommandShape, LoadShape, PhaseInv, AskInv, Asking, NoCommand
<1>16. ASSUME NEW t \in Targets, Lookup(t) PROVE AnswerInv'
  <2>1. CASE lookups # {} \/ (command # NoCommand /\ command.card = "lookup")
    <3>1. excused' = TRUE
      BY <1>16, <2>1 DEF Lookup, Ask
    <3>2. QED
      BY <1>16, <3>1 DEF Lookup, CommandShape, LoadShape, PhaseInv, AskInv
  <2>2. CASE lookups = {} /\ ~(command # NoCommand /\ command.card = "lookup")
    <3>1. lookups' = {t} /\ asked' = t
      BY <1>16, <2>2 DEF Lookup, Ask
    <3>2. ~Asking'
      BY <1>16, <2>2 DEF Lookup, PhaseInv, Asking, NoCommand
    <3>3. QED
      BY <1>16, <3>1, <3>2 DEF Lookup, CommandShape, LoadShape, PhaseInv, AskInv
  <2>3. QED
    BY <2>1, <2>2
<1>17. ASSUME NEW t \in Targets, LookupAnswered(t) PROVE AnswerInv'
  <2>1. report' = NoReport \/ report'.target = t
    BY <1>17 DEF LookupAnswered, Report
  <2>2. QED
    BY <1>17, <2>1 DEF LookupAnswered, CommandShape, LoadShape, PhaseInv, AskInv, Asking
<1>18. CASE UnbanLookupAnswered
  <2>1. excused' = TRUE \/ (report'.target = command.target /\ UNCHANGED excused)
    BY <1>18 DEF UnbanLookupAnswered, Report
  <2>2. QED
    BY <1>18, <2>1
    DEF UnbanLookupAnswered, CommandShape, LoadShape, PhaseInv, AskInv, Asking, NoCommand
<1>19. QED
  BY <1>1, <1>2, <1>3, <1>4, <1>5, <1>6, <1>7, <1>8, <1>9, <1>10, <1>11, <1>12, <1>13, <1>14,
     <1>15, <1>16, <1>17, <1>18
  DEF Next, vars, cards, Poll, TimerEnds, CycleAnswered, CycleFails, Enforce, End, ServiceRefresh

-----------------------------------------------------------------------------
(* The steps of the table *)

\* A refresh that starts has no answer yet, and follows no other cycle.
LEMMA RefreshIs ==
    ASSUME NEW by, RequestRefresh(by)
    PROVE  \/ cycle' = cycle
           \/ /\ cycle.phase = "idle"
              /\ cycle' = [phase |-> "asking", by |-> by, snap |-> {}]
  BY DEF RequestRefresh, StartCycle

\* The LAPI removes what is enforced, places what is not past, and of a ban
\* nothing is removed.
LEMMA ActIs ==
    ASSUME TypeInv, KindInv, enforced \cap past = {}, command # NoCommand, Act
    PROVE  /\ enforced' \subseteq Decisions /\ past' \subseteq Decisions
           /\ enforced' \cap past' = {} /\ past \subseteq past' /\ Removed \subseteq past'
<1>1. Removed \subseteq enforced /\ (command.kind = "ban" => Removed = {})
  BY DEF Removed
<1>2. Placed \subseteq Decisions \ past /\ (command.kind # "ban" => Placed = {})
  BY DEF Placed, KindInv, Local
<1>3. enforced' = (enforced \ Removed) \cup Placed /\ past' = past \cup Removed
  BY DEF Act
<1>4. QED
  BY <1>1, <1>2, <1>3 DEF TypeInv

LEMMA TypeInit == Init => TypeInv
<1> SUFFICES ASSUME Init PROVE TypeInv
  OBVIOUS
<1>1. enforced \subseteq Decisions /\ past = {} /\ table \subseteq Local
  BY DEF Init
<1>2. Rows(table) \in Seq(Local)
  <2>1. Rows(table) \in [1 .. Cardinality(table) -> table] /\ Cardinality(table) \in Nat
    BY <1>1, RowsAscend DEF Local
  <2>2. QED
    BY <1>1, <2>1
<1>3. QED
  BY <1>1, <1>2 DEF Init, TypeInv, Idle

LEMMA TypeStep ==
    ASSUME TypeInv, KindInv, enforced \cap past = {}, CommandShape, PhaseInv, [Next]_vars
    PROVE  TypeInv'
<1>1. CASE UNCHANGED <<enforced, past, table, cycle, load, shown>>
  BY <1>1 DEF TypeInv
<1>2. ASSUME UNCHANGED <<enforced, past, table, load, shown>>,
             \/ Poll \/ TimerEnds \/ CycleAnswered \/ CycleFails \/ ServiceRefresh
      PROVE  TypeInv'
  <2>1. CASE ServiceRefresh
    BY <1>2, <2>1, RefreshIs DEF ServiceRefresh, TypeInv
  <2>2. CASE CycleAnswered
    BY <1>2, <2>2 DEF CycleAnswered, TypeInv
  <2>3. CASE Poll \/ TimerEnds \/ CycleFails
    BY <1>2, <2>3 DEF Poll, TimerEnds, CycleFails, CycleOver, StartCycle, Idle, TypeInv
  <2>4. QED
    BY <1>2, <2>1, <2>2, <2>3
<1>3. CASE CycleEnds
  <2>1. table' \in SUBSET Local
    BY <1>3 DEF CycleEnds, TypeInv
  <2>2. load' \in [Loads -> {NoLoad, [phase |-> "asked"]} \cup Paging]
    <3>1. ASSUME NEW l \in Loads, Watched(l)
          PROVE  [load[l] EXCEPT !.tables = @ \cup {table'}] \in Paging
      <4>1. load[l] \in Paging
        BY <3>1 DEF TypeInv, Watched, NoLoad
      <4>2. QED
        BY <2>1, <4>1 DEF Paging
    <3>2. QED
      BY <1>3, <3>1 DEF CycleEnds, TypeInv
  <2>3. QED
    BY <1>3, <2>1, <2>2 DEF CycleEnds, CycleOver, Idle, TypeInv
<1>4. ASSUME NEW d \in Decisions, Enforce(d) \/ End(d) PROVE TypeInv'
  BY <1>4 DEF Enforce, End, Lift, cards, TypeInv
<1>5. ASSUME NEW refresh \in BOOLEAN, LoadStarts(refresh) PROVE TypeInv'
  <2>1. load' \in [Loads -> {NoLoad, [phase |-> "asked"]} \cup Paging]
    BY <1>5 DEF LoadStarts, TypeInv
  <2>2. \/ cycle' = cycle
        \/ cycle' = [phase |-> "asking", by |-> "load", snap |-> {}]
    BY <1>5, RefreshIs DEF LoadStarts
  <2>3. QED
    BY <1>5, <2>1, <2>2 DEF LoadStarts, TypeInv
<1>6. ASSUME NEW l \in Loads, FirstPage(l) PROVE TypeInv'
  <2>1. Page(table, 0) \in Seq(table) /\ Cardinality(table) \in Nat
    BY PageIs, RowsAscend DEF TypeInv, Local
  <2>2. Page(table, 0) \in Seq(Local)
    BY <2>1 DEF TypeInv
  <2>3. [phase |-> "paging", rows |-> Page(table, 0), tables |-> {table},
         total |-> Cardinality(table), dry |-> table = {}] \in Paging
    BY <2>1, <2>2 DEF Paging, TypeInv
  <2>4. QED
    BY <1>6, <2>3 DEF FirstPage, TypeInv
<1>7. ASSUME NEW l \in Loads, NextPage(l) PROVE TypeInv'
  <2> DEFINE page == Page(table, Len(load[l].rows))
  <2>1. load[l] \in Paging
    BY <1>7 DEF NextPage, Watched, TypeInv, NoLoad
  <2>2. page \in Seq(Local)
    <3>1. Len(load[l].rows) \in Nat
      BY <2>1 DEF Paging
    <3>2. page \in Seq(table)
      BY <3>1, PageIs DEF TypeInv, Local
    <3>3. QED
      BY <3>2 DEF TypeInv
  <2>3. [load[l] EXCEPT !.rows = @ \o page, !.dry = (page = <<>>)] \in Paging
    <3> HIDE DEF page
    <3>1. load[l].rows \o page \in Seq(Local)
      BY <2>1, <2>2 DEF Paging
    <3>2. (page = <<>>) \in BOOLEAN
      OBVIOUS
    <3>3. QED
      BY <2>1, <3>1, <3>2 DEF Paging
  <2>4. load' = [load EXCEPT ![l] = [load[l] EXCEPT !.rows = @ \o page, !.dry = (page = <<>>)]]
    BY <1>7, <2>1 DEF NextPage, Paging
  <2>5. QED
    BY <1>7, <2>3, <2>4 DEF NextPage, TypeInv
<1>8. ASSUME NEW l \in Loads, LoadEnds(l) \/ LoadFails(l) PROVE TypeInv'
  <2>1. CASE LoadFails(l)
    BY <1>8, <2>1 DEF LoadFails, TypeInv
  <2>2. CASE LoadEnds(l)
    <3>1. load[l] \in Paging
      BY <2>2 DEF LoadEnds, AllRead, Watched, TypeInv, NoLoad
    <3>2. shown' \in Seq(Local)
      BY <2>2, <3>1 DEF LoadEnds, Paging
    <3>3. QED
      BY <2>2, <3>2 DEF LoadEnds, TypeInv
  <2>3. QED
    BY <1>8, <2>1, <2>2
<1>9. CASE Acted
  <2>1. command # NoCommand
    BY <1>9 DEF Acted, NoCommand
  <2>2. QED
    BY <1>9, <2>1, ActIs, RefreshIs DEF Acted, TypeInv
<1>10. CASE CommandFails
  <2>1. command # NoCommand
    BY <1>10 DEF CommandFails, NoCommand
  <2>2. enforced' \subseteq Decisions /\ past' \subseteq Decisions
    BY <1>10, <2>1, ActIs DEF CommandFails, TypeInv
  <2>3. QED
    BY <1>10, <2>2 DEF CommandFails, TypeInv
<1>11. CASE UnbanAnswered
  <2>1. Page(table, 0) \in Seq(Local)
    <3>1. Page(table, 0) \in Seq(table)
      BY PageIs DEF TypeInv, Local
    <3>2. QED
      BY <3>1 DEF TypeInv
  <2>2. QED
    BY <1>11, <2>1 DEF UnbanAnswered, TypeInv
<1>12. QED
  BY <1>1, <1>2, <1>3, <1>4, <1>5, <1>6, <1>7, <1>8, <1>9, <1>10, <1>11
  DEF Next, vars, cards, Poll, TimerEnds, CycleAnswered, CycleFails, Ban, UnbanShownRow,
      UnbanReported, CommandStarts, ServiceUnban, Lookup, LookupAnswered, ServiceRefresh,
      CheckAnswered, ServiceDone, AskedAgain, BanAnswered, UnbanLookupAnswered

\* A new command is about to act or to check, and has removed nothing.
LEMMA CommandIs ==
    ASSUME NEW kind, NEW card, NEW d, NEW target, CommandStarts(kind, card, d, target)
    PROVE  /\ command = NoCommand /\ command' # NoCommand
           /\ command'.phase = IF kind = "address" /\ card # "service" THEN "checking" ELSE "acting"
           /\ command'.kind = kind /\ command'.card = card /\ command'.decision = d
           /\ command'.gone = {} /\ command'.fresh = FALSE
           /\ UNCHANGED <<enforced, past, table, cycle, load, shown, cleared>>
<1>1. command' = Command(kind, card, d, target) /\ command = NoCommand
  BY DEF CommandStarts
<1>2. "kind" \in DOMAIN command' /\ "kind" \notin DOMAIN NoCommand
  BY <1>1 DEF Command, NoCommand
<1>3. QED
  BY <1>1, <1>2 DEF CommandStarts, Command

\* The cards and services start a command of a kind they offer, about a local row.
LEMMA StartIs ==
    ASSUME TypeInv,
           \/ UnbanShownRow \/ UnbanReported
           \/ \E d \in Decisions : Ban(d)
           \/ \E t \in Targets : ServiceUnban(t)
    PROVE  \E kind, card, d, target :
              /\ kind \in {"row", "address", "ban"}
              /\ CommandStarts(kind, card, d, target)
              /\ kind \in {"row", "ban"} => d \in Local
<1>1. CASE UnbanShownRow
  <2>1. PICK i \in DOMAIN shown : \/ CommandStarts("row", "bans", shown[i], Value(shown[i]))
                                  \/ CommandStarts("address", "bans", 0, Value(shown[i]))
    BY <1>1 DEF UnbanShownRow
  <2>2. shown[i] \in Local
    BY DEF TypeInv
  <2>3. QED
    BY <2>1, <2>2
<1>2. CASE UnbanReported
  BY <1>2 DEF UnbanReported
<1>3. CASE \E d \in Decisions : Ban(d)
  BY <1>3 DEF Ban
<1>4. CASE \E t \in Targets : ServiceUnban(t)
  BY <1>4 DEF ServiceUnban
<1>5. QED
  BY <1>1, <1>2, <1>3, <1>4

LEMMA KindStep ==
    ASSUME TypeInv, KindInv, CommandShape, [Next]_vars
    PROVE  KindInv'
<1>1. CASE UNCHANGED command \/ command' = NoCommand
  BY <1>1 DEF KindInv, Checked, Local
<1>2. ASSUME \/ UnbanShownRow \/ UnbanReported
             \/ \E d \in Decisions : Ban(d)
             \/ \E t \in Targets : ServiceUnban(t)
      PROVE  KindInv'
  <2>1. PICK kind, card, d, target :
              /\ kind \in {"row", "address", "ban"}
              /\ CommandStarts(kind, card, d, target)
              /\ kind \in {"row", "ban"} => d \in Local
    BY <1>2, StartIs
  <2>2. QED
    BY <2>1, CommandIs DEF KindInv
<1>3. CASE CycleEnds
  BY <1>1, <1>3, CommandMarked DEF CycleEnds, KindInv, Checked
<1>4. CASE CheckAnswered
  <2>1. command # NoCommand /\ command.phase = "checking"
    BY <1>4 DEF CheckAnswered, NoCommand
  <2>2. CASE command' = NoCommand
    BY <1>1, <2>2
  <2>3. ASSUME NEW seen, command' = [command EXCEPT !.phase = "acting", !.seen = seen],
               Checked(seen)
        PROVE  KindInv'
    BY <2>1, <2>3, CommandSees DEF KindInv, Checked, GoesOn
  <2>4. QED
    BY <1>4, <2>2, <2>3 DEF CheckAnswered
<1>5. CASE Acted
  <2>1. command # NoCommand /\ command.phase = "acting"
    BY <1>5 DEF Acted, NoCommand
  <2>2. command' = [command EXCEPT !.phase = "refreshed", !.gone = Removed]
    BY <1>5 DEF Acted
  <2>3. /\ command'.kind = command.kind /\ command'.card = command.card
        /\ command'.decision = command.decision /\ command'.seen = command.seen
        /\ command'.gone = Removed
    BY <2>1, <2>2, CommandRemoves DEF GoesOn
  <2>4. command.card # "service" => \A d \in Removed \ Local : command.kind = "address"
    BY <2>1 DEF KindInv, Removed
  <2>5. QED
    BY <2>1, <2>3, <2>4 DEF KindInv, Checked
<1>6. CASE UnbanAnswered \/ AskedAgain
  <2>1. command # NoCommand /\ command.phase = "refreshed"
    BY <1>6 DEF UnbanAnswered, AskedAgain, Refreshed, NoCommand
  <2>2. \/ command' = NoCommand
        \/ \E p \in {"loading", "reading"} : command' = [command EXCEPT !.phase = p]
    BY <1>6 DEF UnbanAnswered, UnbanShown, AskedAgain
  <2>3. QED
    BY <1>1, <2>1, <2>2, CommandGoesOn DEF KindInv, Checked, GoesOn
<1>7. QED
  BY <1>1, <1>2, <1>3, <1>4, <1>5, <1>6
  DEF Next, vars, cards, Poll, TimerEnds, CycleAnswered, CycleFails, Enforce, End, LoadStarts,
      FirstPage, NextPage, LoadEnds, LoadFails, UnbanShown, Lookup, LookupAnswered,
      ServiceRefresh, CommandFails, ServiceDone, BanAnswered, UnbanLookupAnswered

-----------------------------------------------------------------------------
(* What a load has read *)

\* A first page is cut from the table there is.
LEMMA FirstPageIs ==
    ASSUME TypeInv, NEW l \in Loads, FirstPage(l)
    PROVE  /\ ~Watched(l) /\ load'[l].phase = "paging"
           /\ load'[l].rows = Page(table, 0) /\ load'[l].tables = {table}
           /\ load'[l].total = Cardinality(table) /\ load'[l].dry = (table = {})
           /\ \A k \in Loads \ {l} : load'[k] = load[k]
           /\ UNCHANGED <<enforced, past, table, cycle, shown, command, cleared>>
  BY DEF FirstPage, TypeInv, Watched

\* Another page is appended.
LEMMA NextPageIs ==
    ASSUME TypeInv, NEW l \in Loads, NextPage(l)
    PROVE  LET page == Page(table, Len(load[l].rows))
           IN  /\ Watched(l) /\ load[l].rows \in Seq(Local) /\ page \in Seq(table)
               /\ load'[l].phase = "paging" /\ load'[l].rows = load[l].rows \o page
               /\ load'[l].tables = load[l].tables /\ load'[l].total = load[l].total
               /\ load'[l].dry = (page = <<>>)
               /\ \A k \in Loads \ {l} : load'[k] = load[k]
               /\ UNCHANGED <<enforced, past, table, cycle, shown, command, cleared>>
<1> DEFINE page == Page(table, Len(load[l].rows))
<1>1. load[l] \in Paging /\ Watched(l)
  BY DEF NextPage, Watched, TypeInv, NoLoad
<1>2. load[l].rows \in Seq(Local) /\ Len(load[l].rows) \in Nat
  BY <1>1 DEF Paging
<1>3. page \in Seq(table)
  BY <1>2, PageIs DEF TypeInv, Local
<1>4. load' = [load EXCEPT ![l] = [load[l] EXCEPT !.rows = @ \o page, !.dry = (page = <<>>)]]
  BY <1>1 DEF NextPage
<1> HIDE DEF page
<1>5. load'[l] = [load[l] EXCEPT !.rows = @ \o page, !.dry = (page = <<>>)]
      /\ \A k \in Loads \ {l} : load'[k] = load[k]
  BY <1>4 DEF TypeInv
<1>6. /\ load'[l].phase = "paging" /\ load'[l].rows = load[l].rows \o page
      /\ load'[l].tables = load[l].tables /\ load'[l].total = load[l].total
      /\ load'[l].dry = (page = <<>>)
  BY <1>1, <1>5 DEF Paging
<1>7. UNCHANGED <<enforced, past, table, cycle, shown, command, cleared>>
  BY DEF NextPage
<1>8. QED
  BY <1>1, <1>2, <1>3, <1>5, <1>6, <1>7 DEF page

\* A new table is watched by the loads under way.
LEMMA CycleEndsIs ==
    ASSUME TypeInv, CycleEnds, NEW l \in Loads
    PROVE  /\ Watched(l) => /\ load'[l].phase = "paging" /\ load'[l].rows = load[l].rows
                            /\ load'[l].tables = load[l].tables \cup {table'}
                            /\ load'[l].total = load[l].total /\ load'[l].dry = load[l].dry
           /\ ~Watched(l) => load'[l] = load[l]
<1>1. CASE Watched(l)
  <2>1. load[l] \in Paging
    BY <1>1 DEF Watched, TypeInv, NoLoad
  <2>2. load'[l] = [load[l] EXCEPT !.tables = @ \cup {table'}]
    BY <1>1 DEF CycleEnds
  <2>3. QED
    BY <1>1, <2>1, <2>2 DEF Paging
<1>2. CASE ~Watched(l)
  BY <1>2 DEF CycleEnds
<1>3. QED
  BY <1>1, <1>2

\* All other steps stop loads or start them.
LEMMA LoadsElse ==
    ASSUME TypeInv, [Next]_vars, ~CycleEnds,
           \A l \in Loads : ~FirstPage(l) /\ ~NextPage(l)
    PROVE  /\ table' = table
           /\ \A l \in Loads : load'[l] = load[l] \/ load'[l].phase # "paging"
<1>1. CASE UNCHANGED load
  <2>1. table' = table
    BY <1>1 DEF Next, vars, cards, Poll, TimerEnds, CycleAnswered, CycleFails, Enforce, End, Ban,
                LoadStarts, LoadEnds, LoadFails, UnbanShownRow, UnbanReported, CommandStarts,
                ServiceUnban, Lookup, LookupAnswered, ServiceRefresh, CheckAnswered, Acted,
                CommandFails, ServiceDone, UnbanAnswered, AskedAgain, BanAnswered,
                UnbanLookupAnswered
  <2>2. QED
    BY <1>1, <2>1
<1>2. CASE \E refresh \in BOOLEAN : LoadStarts(refresh)
  BY <1>2 DEF LoadStarts, TypeInv
<1>3. CASE \E l \in Loads : LoadEnds(l) \/ LoadFails(l)
  BY <1>3 DEF LoadEnds, LoadFails, TypeInv, NoLoad
<1>4. CASE UnbanAnswered
  BY <1>4 DEF UnbanAnswered, TypeInv
<1>5. QED
  BY <1>1, <1>2, <1>3, <1>4
  DEF Next, vars, cards, Poll, TimerEnds, CycleAnswered, CycleFails, Enforce, End, Ban,
      UnbanShownRow, UnbanReported, CommandStarts, ServiceUnban, Lookup, LookupAnswered,
      ServiceRefresh, CheckAnswered, Acted, CommandFails, ServiceDone, AskedAgain, BanAnswered,
      UnbanLookupAnswered

LEMMA PageStep ==
    ASSUME TypeInv, PageInv, [Next]_vars
    PROVE  PageInv'
<1>1. CASE CycleEnds
  BY <1>1, CycleEndsIs DEF PageInv, Watched
<1>2. ASSUME NEW l \in Loads, FirstPage(l) PROVE PageInv'
  <2> DEFINE page == Page(table, 0)
  <2>1. \A i \in 1 .. Len(page) : i \in 1 .. Cardinality(table) /\ page[i] = Rows(table)[i]
    <3>1. page \in Seq(table) /\ \A i \in 1 .. Len(page) :
             0 + i \in 1 .. Cardinality(table) /\ page[i] = Rows(table)[0 + i]
      BY PageIs DEF TypeInv, Local
    <3> HIDE DEF page
    <3>2. Len(page) \in Nat /\ \A i \in 1 .. Len(page) : 0 + i = i
      BY <3>1
    <3>3. QED
      BY <3>1, <3>2
  <2>2. table = {} => Cardinality(table) <= Len(page)
    <3>1. page \in Seq(table)
      BY PageIs DEF TypeInv, Local
    <3> HIDE DEF page
    <3>2. Len(page) \in Nat
      BY <3>1
    <3>3. QED
      BY <3>2, FS_EmptySet
  <2>3. /\ load'[l].rows = page /\ load'[l].tables = {table} /\ table' = table
        /\ load'[l].total = Cardinality(table) /\ load'[l].dry = (table = {})
        /\ \A k \in Loads \ {l} : load'[k] = load[k]
    BY <1>2, FirstPageIs
  <2> HIDE DEF page
  <2>4. ASSUME NEW k \in Loads, Watched(k)'
        PROVE  /\ table' \in load'[k].tables
               /\ \A i \in 1 .. Len(load'[k].rows) :
                     \E t \in load'[k].tables :
                        i \in 1 .. Cardinality(t) /\ load'[k].rows[i] = Rows(t)[i]
               /\ \E t \in load'[k].tables : load'[k].total = Cardinality(t)
               /\ load'[k].dry => \E t \in load'[k].tables : Cardinality(t) <= Len(load'[k].rows)
    <3>1. CASE k = l
      BY <2>1, <2>2, <2>3, <3>1
    <3>2. CASE k # l
      BY <2>3, <2>4, <3>2 DEF PageInv, Watched
    <3>3. QED
      BY <3>1, <3>2
  <2>5. QED
    BY <2>4 DEF PageInv
<1>3. ASSUME NEW l \in Loads, NextPage(l) PROVE PageInv'
  <2> DEFINE page == Page(table, Len(load[l].rows))
             n == Len(load[l].rows)
  <2>1. load[l].rows \in Seq(Local) /\ page \in Seq(table) /\ n \in Nat
        /\ load'[l].rows = load[l].rows \o page
    <3>1. load[l].rows \in Seq(Local) /\ page \in Seq(table)
          /\ load'[l].rows = load[l].rows \o page
      BY <1>3, NextPageIs
    <3>2. QED
      BY <3>1, Len(load[l].rows) \in Nat
  <2>2. /\ \A i \in 1 .. Len(page) :
              n + i \in 1 .. Cardinality(table) /\ page[i] = Rows(table)[n + i]
        /\ page = <<>> => Cardinality(table) <= n
    BY <2>1, PageIs DEF TypeInv, Local
  <2> HIDE DEF page, n
  <2>3. table \in load[l].tables
    BY <1>3, NextPageIs DEF PageInv
  <2>4. ASSUME NEW i \in 1 .. Len(load'[l].rows)
        PROVE  \E t \in load[l].tables : i \in 1 .. Cardinality(t) /\ load'[l].rows[i] = Rows(t)[i]
    <3>1. CASE i <= n
      <4>1. i \in 1 .. n /\ load'[l].rows[i] = load[l].rows[i]
        BY <2>1, <3>1 DEF n
      <4>2. QED
        BY <1>3, <4>1, NextPageIs DEF PageInv, n
    <3>2. CASE ~(i <= n)
      <4>1. i - n \in 1 .. Len(page) /\ load'[l].rows[i] = page[i - n] /\ n + (i - n) = i
        BY <2>1, <3>2 DEF n
      <4>2. QED
        BY <2>2, <2>3, <4>1
    <3>3. QED
      BY <3>1, <3>2
  <2>5. page = <<>> => Cardinality(table) <= Len(load'[l].rows)
    BY <2>1, <2>2 DEF n
  <2>6. ASSUME NEW k \in Loads, Watched(k)'
        PROVE  /\ table' \in load'[k].tables
               /\ \A i \in 1 .. Len(load'[k].rows) :
                     \E t \in load'[k].tables :
                        i \in 1 .. Cardinality(t) /\ load'[k].rows[i] = Rows(t)[i]
               /\ \E t \in load'[k].tables : load'[k].total = Cardinality(t)
               /\ load'[k].dry => \E t \in load'[k].tables : Cardinality(t) <= Len(load'[k].rows)
    <3>1. CASE k = l
      <4>1. /\ load'[k].tables = load[l].tables /\ load'[k].total = load[l].total
            /\ load'[k].dry = (page = <<>>) /\ table' = table /\ Watched(l)
        BY <1>3, <3>1, NextPageIs DEF page
      <4>2. QED
        BY <2>3, <2>4, <2>5, <3>1, <4>1 DEF PageInv
    <3>2. CASE k # l
      <4>1. load'[k] = load[k] /\ table' = table
        BY <1>3, <3>2, NextPageIs
      <4>2. QED
        BY <2>6, <4>1 DEF PageInv, Watched
    <3>3. QED
      BY <3>1, <3>2
  <2>7. QED
    BY <2>6 DEF PageInv
<1>4. QED
  BY <1>1, <1>2, <1>3, LoadsElse DEF PageInv, Watched

-----------------------------------------------------------------------------
(* What was removed *)

\* Only the end of a cycle marks a command; an unban that is shown is over.
LEMMA CommandElse ==
    ASSUME CommandShape, TypeInv, [Next]_vars, ~CycleEnds
    PROVE  \/ UNCHANGED command
           \/ command' = NoCommand
           \/ /\ command = NoCommand /\ command' # NoCommand
              /\ command'.gone = {} /\ command'.fresh = FALSE
              /\ UNCHANGED <<enforced, past, table, cycle, load, shown, cleared>>
           \/ /\ command # NoCommand /\ command' # NoCommand
              /\ command'.fresh = command.fresh
              /\ \/ command.phase = "checking" /\ command'.phase = "acting"
                                               /\ command'.gone = command.gone
                 \/ command.phase = "acting" /\ Acted /\ command'.phase = "refreshed"
                                             /\ command'.gone = Removed
                 \/ /\ command.phase = "refreshed" /\ ~Waits("command")
                    /\ command'.phase \in {"loading", "reading"}
                    /\ command'.gone = command.gone
                    /\ UNCHANGED <<enforced, past, table, cycle, shown, cleared>>
<1>1. CASE \/ UnbanShownRow \/ UnbanReported
           \/ \E d \in Decisions : Ban(d)
           \/ \E t \in Targets : ServiceUnban(t)
  <2>1. PICK kind, card, d, target :
              /\ kind \in {"row", "address", "ban"}
              /\ CommandStarts(kind, card, d, target)
    BY <1>1, StartIs
  <2>2. QED
    BY <2>1, CommandIs
<1>2. CASE CheckAnswered
  <2>1. command # NoCommand /\ command.phase = "checking"
    BY <1>2 DEF CheckAnswered, NoCommand
  <2>2. QED
    BY <1>2, <2>1, CommandSees DEF CheckAnswered, GoesOn
<1>3. CASE Acted
  <2>1. command # NoCommand /\ command.phase = "acting"
    BY <1>3 DEF Acted, NoCommand
  <2>2. command' = [command EXCEPT !.phase = "refreshed", !.gone = Removed]
    BY <1>3 DEF Acted
  <2>3. GoesOn(command', "refreshed") /\ command'.gone = Removed
    BY <2>1, <2>2, CommandRemoves
  <2>4. QED
    BY <1>3, <2>1, <2>3 DEF GoesOn
<1>4. CASE UnbanAnswered \/ AskedAgain
  <2>1. command # NoCommand /\ command.phase = "refreshed" /\ ~Waits("command")
    BY <1>4 DEF UnbanAnswered, AskedAgain, Refreshed, NoCommand
  <2>2. \/ command' = NoCommand
        \/ /\ \E p \in {"loading", "reading"} : command' = [command EXCEPT !.phase = p]
           /\ UNCHANGED <<enforced, past, table, cycle, shown, cleared>>
    BY <1>4 DEF UnbanAnswered, UnbanShown, AskedAgain
  <2>3. QED
    BY <2>1, <2>2, CommandGoesOn DEF GoesOn
<1>5. QED
  BY <1>1, <1>2, <1>3, <1>4
  DEF Next, vars, cards, Poll, TimerEnds, CycleAnswered, CycleFails, Enforce, End, LoadStarts,
      FirstPage, NextPage, LoadEnds, LoadFails, UnbanShown, Lookup, LookupAnswered,
      ServiceRefresh, CommandFails, ServiceDone, BanAnswered, UnbanLookupAnswered

\* Decisions only become past, and what is past is not enforced again.
LEMMA PastGrows ==
    ASSUME TypeInv, KindInv, enforced \cap past = {}, [Next]_vars
    PROVE  /\ past \subseteq past' /\ enforced' \cap past' = {}
           /\ Acted => Removed \subseteq past'
<1>1. CASE UNCHANGED <<enforced, past>> /\ ~Acted
  BY <1>1
<1>2. ASSUME NEW d \in Decisions, Enforce(d) \/ End(d) PROVE past \subseteq past' /\ enforced' \cap past' = {}
  BY <1>2 DEF Enforce, End, Lift
<1>3. CASE Acted \/ CommandFails
  <2>1. command # NoCommand
    BY <1>3 DEF Acted, CommandFails, NoCommand
  <2>2. QED
    BY <1>3, <2>1, ActIs DEF Acted, CommandFails
<1>4. QED
  BY <1>1, <1>2, <1>3
  DEF Next, vars, cards, Poll, TimerEnds, CycleAnswered, CycleEnds, CycleFails, Ban, LoadStarts,
      FirstPage, NextPage, LoadEnds, LoadFails, UnbanShownRow, UnbanReported, CommandStarts,
      ServiceUnban, Lookup, LookupAnswered, ServiceRefresh, CheckAnswered, ServiceDone,
      UnbanAnswered, AskedAgain, BanAnswered, UnbanLookupAnswered

\* What is added to the decisions that must stay away was removed, and seen to be
\* gone, by the command that ends, with no load of the card's own under way.
LEMMA ClearedIs ==
    ASSUME PhaseInv, [Next]_vars
    PROVE  \/ cleared' = cleared
           \/ /\ cleared' = cleared \cup command.gone
              /\ command # NoCommand /\ command.fresh
              /\ load["user"] = NoLoad /\ command' = NoCommand
              /\ UNCHANGED <<table, cycle>>
              /\ \/ LoadEnds("unban")
                 \/ UnbanAnswered /\ load' = load /\ shown' = Page(table, 0)
<1>1. CASE LoadEnds("unban")
  <2>1. command # NoCommand
    BY <1>1 DEF LoadEnds, AllRead, Watched, PhaseInv, NoLoad, NoCommand
  <2>2. QED
    BY <1>1, <2>1 DEF LoadEnds, UnbanShown
<1>2. CASE UnbanAnswered
  BY <1>2 DEF UnbanAnswered, UnbanShown, Refreshed, NoCommand
<1>3. QED
  BY <1>1, <1>2 DEF Next, vars, cards, Poll, TimerEnds, CycleAnswered, CycleEnds, CycleFails, Enforce, End,
         Ban, LoadStarts, FirstPage, NextPage, LoadEnds, LoadFails, UnbanShownRow, UnbanReported,
         CommandStarts, ServiceUnban, Lookup, LookupAnswered, ServiceRefresh, CheckAnswered,
         Acted, CommandFails, ServiceDone, AskedAgain, BanAnswered, UnbanLookupAnswered

\* Within a cycle the table stays; an answer is of what is enforced, and only the
\* removal itself starts a cycle that a command waits for.
LEMMA CycleElse ==
    ASSUME [Next]_vars, ~CycleEnds
    PROVE  /\ table' = table
           /\ \/ cycle' = cycle
              \/ CycleAnswered
              \/ cycle'.snap = {} /\ (Waits("command")' => Acted)
<1>1. CASE Acted
  BY <1>1, RefreshIs DEF Acted
<1>2. ASSUME NEW refresh \in BOOLEAN, LoadStarts(refresh)
      PROVE  table' = table /\ (cycle' = cycle \/ (cycle'.snap = {} /\ ~Waits("command")'))
  BY <1>2, RefreshIs DEF LoadStarts, Waits
<1>3. CASE ServiceRefresh
  BY <1>3, RefreshIs DEF ServiceRefresh, Waits
<1>4. CASE Poll \/ TimerEnds \/ CycleFails
  BY <1>4 DEF Poll, TimerEnds, CycleFails, CycleOver, StartCycle, Idle, Waits
<1>5. QED
  BY <1>1, <1>2, <1>3, <1>4
  DEF Next, vars, cards, CycleAnswered, Enforce, End, Ban, FirstPage, NextPage, LoadEnds,
      LoadFails, UnbanShownRow, UnbanReported, CommandStarts, ServiceUnban, Lookup,
      LookupAnswered, CheckAnswered, CommandFails, ServiceDone, UnbanAnswered, AskedAgain,
      BanAnswered, UnbanLookupAnswered

\* No step but the end of a cycle adds to what is seen to be gone.
LEMMA GoneElse ==
    ASSUME CommandShape, TypeInv, PhaseInv, PastInv, [Next]_vars, ~CycleEnds
    PROVE  cleared' \cup Gone' \subseteq cleared \cup Gone
<1>1. Gone' \subseteq Gone
  <2>1. CASE UNCHANGED command \/ command' = NoCommand
    BY <2>1 DEF Gone
  <2>2. CASE command # NoCommand /\ command.phase = "acting" /\ command'.fresh = command.fresh
    BY <2>2 DEF Gone, PastInv
  <2>3. CASE command = NoCommand /\ command'.fresh = FALSE
    BY <2>3 DEF Gone
  <2>4. CASE /\ command # NoCommand /\ command'.fresh = command.fresh
             /\ command'.gone = command.gone
    BY <2>4 DEF Gone
  <2>5. QED
    BY <2>1, <2>2, <2>3, <2>4, CommandElse
<1>2. cleared' \subseteq cleared \cup Gone
  BY ClearedIs DEF Gone, PastInv
<1>3. QED
  BY <1>1, <1>2

\* A command that waits for its cycle does nothing else.
LEMMA WaitsOn ==
    ASSUME CommandShape, TypeInv, PhaseInv, [Next]_vars, ~CycleEnds, Waits("command"),
           command # NoCommand, command.phase = "refreshed"
    PROVE  command' = command
<1>1. ~LoadEnds("unban") /\ ~LoadFails("unban")
  BY DEF LoadEnds, LoadFails, AllRead, Watched, PhaseInv, NoLoad
<1>2. QED
  BY <1>1
  DEF Next, vars, cards, Poll, TimerEnds, CycleAnswered, CycleFails, Enforce, End, Ban,
      LoadStarts, FirstPage, NextPage, LoadEnds, LoadFails, UnbanShownRow, UnbanReported,
      CommandStarts, ServiceUnban, Lookup, LookupAnswered, ServiceRefresh, CheckAnswered, Acted,
      CommandFails, ServiceDone, UnbanAnswered, AskedAgain, BanAnswered, UnbanLookupAnswered,
      Refreshed

LEMMA PastStep ==
    ASSUME CommandShape, TypeInv, KindInv, PhaseInv, PastInv, RefreshInv, [Next]_vars
    PROVE  PastInv'
<1>1. /\ past \subseteq past' /\ enforced' \cap past' = {}
      /\ Acted => Removed \subseteq past'
  BY PastGrows DEF PastInv
<1>2. cleared' \subseteq past'
  BY <1>1, ClearedIs DEF PastInv
<1>3. command' # NoCommand =>
          /\ command'.gone \subseteq past'
          /\ command'.fresh \in BOOLEAN
          /\ command'.phase \in {"checking", "acting"} => command'.fresh = FALSE
  <2>1. CASE CycleEnds /\ Waits("command")
    <3>1. command # NoCommand /\ command.phase = "refreshed"
      BY <2>1 DEF RefreshInv
    <3>2. command' = [command EXCEPT !.fresh = TRUE]
      BY <2>1 DEF CycleEnds
    <3>3. command'.phase = command.phase /\ command'.fresh = TRUE /\ command'.gone = command.gone
      BY <3>1, <3>2, CommandMarked
    <3>4. QED
      BY <1>1, <3>1, <3>3 DEF PastInv
  <2>2. CASE CycleEnds /\ ~Waits("command")
    BY <1>1, <2>2 DEF CycleEnds, PastInv
  <2>3. CASE ~CycleEnds
    BY <1>1, <2>3, CommandElse DEF PastInv
  <2>4. QED
    BY <2>1, <2>2, <2>3
<1>4. QED
  BY <1>1, <1>2, <1>3 DEF PastInv

LEMMA RefreshStep ==
    ASSUME CommandShape, TypeInv, KindInv, PhaseInv, PastInv, RefreshInv, [Next]_vars
    PROVE  RefreshInv'
<1>1. CASE CycleEnds
  <2>1. table' = cycle.snap /\ cycle' = Idle /\ cleared' = cleared
    BY <1>1 DEF CycleEnds, CycleOver
  <2>2. CASE Waits("command")
    <3>1. command # NoCommand /\ command.gone \cap cycle.snap = {}
      BY <2>2 DEF RefreshInv
    <3>2. command' = [command EXCEPT !.fresh = TRUE]
      BY <1>1, <2>2 DEF CycleEnds
    <3>3. command'.gone = command.gone
      BY <3>1, <3>2, CommandMarked
    <3>4. QED
      BY <2>1, <3>1, <3>3 DEF RefreshInv, Gone, Waits, Idle
  <2>3. CASE ~Waits("command")
    <3>1. command' = command
      BY <1>1, <2>3 DEF CycleEnds
    <3>2. QED
      BY <2>1, <3>1 DEF RefreshInv, Gone, Waits, Idle
  <2>4. QED
    BY <2>2, <2>3
<1>2. CASE ~CycleEnds
  <2>1. cleared' \cup Gone' \subseteq cleared \cup Gone
    BY <1>2, GoneElse
  <2>2. cleared \cup Gone \subseteq past
    BY DEF PastInv, Gone
  <2>3. (cleared' \cup Gone') \cap (table' \cup cycle'.snap) = {}
    <3>1. CASE CycleAnswered
      <4>1. table' = table /\ cycle'.snap \subseteq enforced
        BY <3>1 DEF CycleAnswered, TypeInv
      <4>2. QED
        BY <2>1, <2>2, <4>1 DEF RefreshInv, PastInv
    <3>2. CASE ~CycleAnswered
      BY <1>2, <2>1, <3>2, CycleElse DEF RefreshInv
    <3>3. QED
      BY <3>1, <3>2
  <2>4. ASSUME Waits("command")'
        PROVE  /\ command' # NoCommand /\ command'.phase = "refreshed"
               /\ command'.gone \cap cycle'.snap = {}
    <3>1. CASE Waits("command")
      <4>1. command # NoCommand /\ command.phase = "refreshed" /\ command.gone \cap cycle.snap = {}
            /\ command.gone \subseteq past
        BY <3>1 DEF RefreshInv, PastInv
      <4>2. command' = command
        BY <1>2, <3>1, <4>1, WaitsOn
      <4>3. \/ cycle'.snap \subseteq cycle.snap
            \/ cycle'.snap \subseteq enforced
        <5>1. CASE CycleAnswered
          BY <5>1 DEF CycleAnswered, TypeInv
        <5>2. QED
          BY <1>2, <5>1, CycleElse
      <4>4. QED
        BY <4>1, <4>2, <4>3 DEF PastInv
    <3>2. CASE ~Waits("command")
      <4>1. Acted
        <5>1. ~CycleAnswered
          BY <2>4, <3>2 DEF CycleAnswered, Waits, TypeInv
        <5>2. QED
          BY <1>2, <2>4, <3>2, <5>1, CycleElse DEF Waits
      <4>2. command # NoCommand /\ command' # NoCommand /\ command'.phase = "refreshed"
        <5>1. command # NoCommand /\ command.phase = "acting"
          BY <4>1 DEF Acted, NoCommand
        <5>2. command' = [command EXCEPT !.phase = "refreshed", !.gone = Removed]
          BY <4>1 DEF Acted
        <5>3. QED
          BY <5>1, <5>2, CommandRemoves DEF GoesOn
      <4>3. cycle'.snap = {}
        BY <2>4, <3>2, <4>1, RefreshIs DEF Acted, Waits
      <4>4. QED
        BY <4>2, <4>3
    <3>3. QED
      BY <3>1, <3>2
  <2>5. QED
    BY <2>3, <2>4 DEF RefreshInv
<1>3. QED
  BY <1>1, <1>2

\* The rows of a page are of the table.
LEMMA RangeOf ==
    ASSUME NEW S, NEW s \in Seq(S)
    PROVE  Range(s) \subseteq S
  BY DEF Range

LEMMA RangeOfBoth ==
    ASSUME NEW S, NEW s \in Seq(S), NEW u \in Seq(S)
    PROVE  Range(s \o u) \subseteq Range(s) \cup Range(u)
<1> SUFFICES ASSUME NEW i \in 1 .. Len(s \o u)
             PROVE  (s \o u)[i] \in Range(s) \cup Range(u)
  BY DEF Range
<1>1. CASE i <= Len(s)
  BY <1>1 DEF Range
<1>2. CASE ~(i <= Len(s))
  <2>1. i - Len(s) \in 1 .. Len(u) /\ (s \o u)[i] = u[i - Len(s)]
    BY <1>2
  <2>2. QED
    BY <2>1 DEF Range
<1>3. QED
  BY <1>1, <1>2

LEMMA RowsStep ==
    ASSUME CommandShape, TypeInv, PhaseInv, PastInv, RefreshInv, RowsInv, [Next]_vars
    PROVE  RowsInv'
<1>1. (cleared \cup Gone) \cap table = {}
  BY DEF RefreshInv
<1>2. Page(table, 0) \in Seq(table)
  BY PageIs DEF TypeInv, Local
<1>3. CASE CycleEnds
  <2>1. UNCHANGED <<shown, cleared>>
    BY <1>3 DEF CycleEnds
  <2>2. Watched("unban") => Gone' = Gone
    <3>1. ASSUME Watched("unban") PROVE command' = command
      BY <1>3, <3>1 DEF CycleEnds, RefreshInv, PhaseInv, Watched, NoLoad
    <3>2. QED
      BY <3>1 DEF Gone
  <2>3. \A l \in Loads : Watched(l)' => Watched(l) /\ load'[l].rows = load[l].rows
    BY <1>3, CycleEndsIs DEF Watched
  <2>4. QED
    BY <2>1, <2>2, <2>3 DEF RowsInv, Loads
<1>4. ASSUME NEW l \in Loads, FirstPage(l) PROVE RowsInv'
  <2>1. /\ load'[l].rows = Page(table, 0) /\ UNCHANGED <<shown, command, cleared>>
        /\ \A k \in Loads \ {l} : load'[k] = load[k]
    BY <1>4, FirstPageIs
  <2>2. Gone' = Gone
    BY <2>1 DEF Gone
  <2>3. (cleared \cup Gone) \cap Range(load'[l].rows) = {}
    <3>1. Range(Page(table, 0)) \subseteq table
      BY <1>2, RangeOf
    <3>2. QED
      BY <1>1, <2>1, <3>1
  <2>4. QED
    BY <2>1, <2>2, <2>3 DEF RowsInv, Watched, Loads
<1>5. ASSUME NEW l \in Loads, NextPage(l) PROVE RowsInv'
  <2> DEFINE page == Page(table, Len(load[l].rows))
  <2>1. /\ load'[l].rows = load[l].rows \o page /\ UNCHANGED <<shown, command, cleared>>
        /\ \A k \in Loads \ {l} : load'[k] = load[k]
        /\ Watched(l) /\ load[l].rows \in Seq(Local) /\ page \in Seq(table)
    BY <1>5, NextPageIs
  <2> HIDE DEF page
  <2>2. Gone' = Gone
    BY <2>1 DEF Gone
  <2>3. Range(load'[l].rows) \subseteq Range(load[l].rows) \cup table
    <3>1. page \in Seq(Local)
      BY <2>1 DEF TypeInv
    <3>2. Range(page) \subseteq table
      BY <2>1, RangeOf
    <3>3. QED
      BY <2>1, <3>1, <3>2, RangeOfBoth
  <2>4. QED
    BY <1>1, <2>1, <2>2, <2>3 DEF RowsInv, Watched, Loads
<1>6. CASE ~CycleEnds /\ \A l \in Loads : ~FirstPage(l) /\ ~NextPage(l)
  <2>1. cleared' \cup Gone' \subseteq cleared \cup Gone
    BY <1>6, GoneElse
  <2>2. \A l \in Loads : load'[l] = load[l] \/ ~Watched(l)'
    BY <1>6, LoadsElse DEF Watched
  <2>3. \/ UNCHANGED shown
        \/ \E l \in Loads : LoadEnds(l)
        \/ UnbanAnswered /\ shown' = Page(table, 0)
    BY <1>6
    DEF Next, vars, cards, Poll, TimerEnds, CycleAnswered, CycleFails, Enforce, End, Ban,
        LoadStarts, LoadFails, UnbanShownRow, UnbanReported, CommandStarts, ServiceUnban,
        Lookup, LookupAnswered, ServiceRefresh, CheckAnswered, Acted, CommandFails, ServiceDone,
        UnbanAnswered, AskedAgain, BanAnswered, UnbanLookupAnswered
  <2>4. CASE cleared' = cleared
    <3>1. ASSUME Watched("unban")' PROVE Gone' \cap Range(load'["unban"].rows) = {}
      <4>1. load'["unban"] = load["unban"] /\ Watched("unban") /\ command.phase = "loading"
        BY <2>2, <3>1 DEF Watched, Loads, PhaseInv, NoLoad
      <4>2. Gone' \subseteq Gone
        <5>1. command # NoCommand
          BY <4>1 DEF NoCommand
        <5>2. command' = command \/ command' = NoCommand
          BY <1>6, <4>1, <5>1, CommandElse
        <5>3. QED
          BY <5>2 DEF Gone
      <4>3. QED
        BY <4>1, <4>2 DEF RowsInv
    <3>2. cleared' \cap Range(shown') = {}
      <4>1. ASSUME NEW l \in Loads, LoadEnds(l) PROVE cleared \cap Range(shown') = {}
        BY <4>1 DEF LoadEnds, AllRead, RowsInv
      <4>2. CASE shown' = Page(table, 0)
        <5>1. Range(Page(table, 0)) \subseteq table
          BY <1>2, RangeOf
        <5>2. QED
          BY <1>1, <2>4, <4>2, <5>1
      <4>3. QED
        BY <2>3, <2>4, <4>1, <4>2 DEF RowsInv
    <3>3. QED
      BY <2>2, <2>4, <3>1, <3>2 DEF RowsInv, Watched
  <2>5. CASE cleared' # cleared
    <3>1. /\ cleared' = cleared \cup Gone /\ Gone' = {}
          /\ load["user"] = NoLoad
          /\ \/ LoadEnds("unban")
             \/ UnbanAnswered /\ load' = load /\ shown' = Page(table, 0)
      BY <2>5, ClearedIs DEF Gone, PastInv
    <3>2. \A l \in Loads : ~Watched(l)'
      <4>1. ~Watched("user")'
        BY <2>2, <3>1 DEF Loads, Watched, NoLoad
      <4>2. ~Watched("unban")'
        <5>1. CASE LoadEnds("unban")
          BY <5>1 DEF LoadEnds, TypeInv, Loads, Watched, NoLoad
        <5>2. CASE UnbanAnswered /\ load' = load
          BY <5>2 DEF UnbanAnswered, Refreshed, PhaseInv, Watched, NoLoad
        <5>3. QED
          BY <3>1, <5>1, <5>2
      <4>3. QED
        BY <4>1, <4>2 DEF Loads
    <3>3. cleared' \cap Range(shown') = {}
      <4>1. CASE LoadEnds("unban")
        BY <3>1, <4>1 DEF LoadEnds, AllRead, RowsInv, Loads
      <4>2. CASE shown' = Page(table, 0)
        <5>1. Range(Page(table, 0)) \subseteq table
          BY <1>2, RangeOf
        <5>2. QED
          BY <1>1, <3>1, <4>2, <5>1
      <4>3. QED
        BY <3>1, <4>1, <4>2
    <3>4. QED
      BY <3>2, <3>3 DEF RowsInv, Loads
  <2>6. QED
    BY <2>4, <2>5
<1>7. QED
  BY <1>3, <1>4, <1>5, <1>6

\* At the start nothing was removed and no load is under way.
LEMMA DataInit == Init => TypeInv /\ KindInv /\ PageInv /\ RemovedInv
<1> SUFFICES ASSUME Init PROVE TypeInv /\ KindInv /\ PageInv /\ RemovedInv
  OBVIOUS
<1>1. TypeInv
  BY TypeInit
<1>2. command = NoCommand /\ cleared = {} /\ past = {} /\ cycle = Idle
      /\ \A l \in Loads : ~Watched(l)
  BY DEF Init, Watched, NoLoad
<1>3. KindInv /\ PageInv
  BY <1>2 DEF KindInv, PageInv
<1>4. PastInv
  BY <1>2 DEF PastInv
<1>5. RefreshInv
  BY <1>2 DEF RefreshInv, Gone, Waits, Idle
<1>6. RowsInv
  BY <1>2 DEF RowsInv, Loads
<1>7. QED
  BY <1>1, <1>3, <1>4, <1>5, <1>6 DEF RemovedInv

\* A row that was at one place in all the tables that were read, and before their
\* end, has been read exactly once.
LEMMA PlacedOnce ==
    ASSUME TypeInv, PageInv, NEW l \in Loads, AllRead(l), NEW d \in Decisions,
           \A t \in load[l].tables : d \in t,
           \A t, u \in load[l].tables : Place(t, d) = Place(u, d)
    PROVE  Cardinality({i \in DOMAIN load[l].rows : load[l].rows[i] = d}) = 1
<1> DEFINE rows == load[l].rows
           tables == load[l].tables
           p == Place(table, d)
<1>1. load[l] \in Paging
  BY DEF AllRead, Watched, TypeInv, NoLoad
<1>2. /\ rows \in Seq(Local) /\ Len(rows) \in Nat /\ DOMAIN rows = 1 .. Len(rows)
      /\ tables \subseteq SUBSET Decisions
  BY <1>1 DEF Paging, Local
<1>3. /\ table \in tables
      /\ \A i \in 1 .. Len(rows) :
            \E t \in tables : i \in 1 .. Cardinality(t) /\ rows[i] = Rows(t)[i]
      /\ \E t \in tables : Cardinality(t) <= Len(rows)
  <2>1. Watched(l) /\ (load[l].dry \/ Len(rows) >= load[l].total)
    BY DEF AllRead
  <2>2. /\ table \in tables
        /\ \A i \in 1 .. Len(rows) :
              \E t \in tables : i \in 1 .. Cardinality(t) /\ rows[i] = Rows(t)[i]
        /\ \E t \in tables : load[l].total = Cardinality(t)
        /\ load[l].dry => \E t \in tables : Cardinality(t) <= Len(rows)
    BY <2>1 DEF PageInv
  <2>3. \E t \in tables : Cardinality(t) <= Len(rows)
    BY <1>1, <1>2, <2>1, <2>2 DEF Paging
  <2>4. QED
    BY <2>2, <2>3
<1> HIDE DEF rows, tables
<1>4. ASSUME NEW t \in tables
      PROVE  /\ Place(t, d) = p
             /\ \E i \in 1 .. Cardinality(t) : Rows(t)[i] = d /\ p = i - 1
             /\ \A i \in 1 .. Cardinality(t) : Place(t, Rows(t)[i]) = i - 1
             /\ Cardinality(t) \in Nat
  <2>1. t \subseteq Decisions /\ d \in t /\ Place(t, d) = p
    BY <1>2, <1>3 DEF tables
  <2>2. \A i \in 1 .. Cardinality(t) : Place(t, Rows(t)[i]) = i - 1
    BY <2>1, RowAtPlace
  <2>3. Cardinality(t) \in Nat /\ \E i \in 1 .. Cardinality(t) : Rows(t)[i] = d
    BY <2>1, RowsAscend
  <2>4. QED
    BY <2>1, <2>2, <2>3
<1>5. p \in Nat
  BY <1>3, <1>4
<1> HIDE DEF p
<1>6. ASSUME NEW i \in 1 .. Len(rows), rows[i] = d PROVE i = p + 1
  <2>1. PICK t \in tables : i \in 1 .. Cardinality(t) /\ rows[i] = Rows(t)[i]
    BY <1>3
  <2>2. Place(t, d) = i - 1
    BY <1>4, <1>6, <2>1
  <2>3. QED
    BY <1>2, <1>4, <1>5, <2>2
<1>7. p + 1 \in 1 .. Len(rows) /\ rows[p + 1] = d
  <2>1. p + 1 \in 1 .. Len(rows)
    <3>1. PICK t \in tables : Cardinality(t) <= Len(rows)
      BY <1>3
    <3>2. Cardinality(t) \in Nat /\ p + 1 \in 1 .. Cardinality(t)
      BY <1>4, <1>5
    <3>3. QED
      BY <1>2, <1>5, <3>1, <3>2
  <2>2. PICK t \in tables : p + 1 \in 1 .. Cardinality(t) /\ rows[p + 1] = Rows(t)[p + 1]
    BY <1>3, <2>1
  <2>3. Rows(t)[p + 1] = d
    <3>1. PICK i \in 1 .. Cardinality(t) : Rows(t)[i] = d /\ p = i - 1
      BY <1>4
    <3>2. i = p + 1
      BY <1>4, <1>5, <3>1
    <3>3. QED
      BY <3>1, <3>2
  <2>4. QED
    BY <2>1, <2>2, <2>3
<1>8. {i \in DOMAIN rows : rows[i] = d} = {p + 1}
  BY <1>2, <1>6, <1>7
<1>9. Cardinality({p + 1}) = 1
  BY FS_Singleton
<1>10. QED
  BY <1>8, <1>9 DEF rows

-----------------------------------------------------------------------------
(* The theorems *)

\* The invariant holds in every state.
LEMMA InvHolds == Spec => []Inv
<1>1. Init => Inv
  BY AnswerInit, DataInit DEF Inv, DataInv
<1>2. Inv /\ [Next]_vars => Inv'
  <2> SUFFICES ASSUME Inv, [Next]_vars PROVE Inv'
    OBVIOUS
  <2>1. /\ CommandShape /\ PhaseInv /\ AnswerInv /\ FreeInv
        /\ TypeInv /\ KindInv /\ PageInv /\ PastInv /\ RefreshInv /\ RowsInv
    BY DEF Inv, AnswerInv, DataInv, RemovedInv
  <2>2. AnswerInv' /\ FreeInv'
    BY <2>1, AnswerStep, FreeStep
  <2>3. TypeInv'
    BY <2>1, TypeStep DEF PastInv
  <2>4. KindInv' /\ PageInv'
    BY <2>1, KindStep, PageStep
  <2>5. PastInv' /\ RefreshInv' /\ RowsInv'
    BY <2>1, PastStep, RefreshStep, RowsStep
  <2>6. QED
    BY <2>2, <2>3, <2>4, <2>5 DEF Inv, DataInv, RemovedInv
<1>3. QED
  BY <1>1, <1>2, PTL DEF Spec

\* The lookup card shows what was asked last, unless answers overtook each other,
\* and calls no address free that a decision covers, for any decisions, targets,
\* pages and any number of commands.
THEOREM ReportStaysHonest == Spec => []ReportHonest
<1>1. Inv => ReportHonest
  BY DEF Inv, AnswerInv, FreeInv, PhaseInv, AskInv, ReportHonest, NoCommand
<1>2. QED
  BY InvHolds, <1>1, PTL

\* The cards take a central decision away only together with a local one, or when
\* the check did not show it, whatever is enforced and lifted meanwhile.
THEOREM CentralStays == Spec => []CentralKept
<1>1. Inv => CentralKept
  <2> SUFFICES ASSUME Inv, command.phase = "refreshed", command.card # "service",
                      NEW d \in command.gone \ Local
               PROVE  /\ command.kind = "address"
                      /\ \/ command.seen = Unknown \/ d \notin command.seen
                         \/ command.seen \cap Local # {}
    BY DEF CentralKept
  <2>1. command # NoCommand /\ KindInv
    BY DEF NoCommand, Inv, DataInv
  <2>2. command.kind = "address" /\ Checked(command.seen)
    BY <2>1 DEF KindInv
  <2>3. QED
    BY <2>2 DEF Checked
<1>2. QED
  BY InvHolds, <1>1, PTL

\* What was removed with the bans card, and seen to be gone, is never among its rows
\* again, whatever polls, refreshes, loads and failures follow.
THEOREM RemovedNeverReturns == Spec => []RemovedStaysAway
<1>1. Inv => RemovedStaysAway
  BY DEF Inv, DataInv, RemovedInv, RowsInv, RemovedStaysAway, Range
<1>2. QED
  BY InvHolds, <1>1, PTL

\* A row that kept its place in all the tables a load has read is among its rows
\* exactly once, for any size of the pages and of the tables.
THEOREM PlacedRowsAreRead == Spec => []RowsAtTheirPlace
<1>1. Inv => RowsAtTheirPlace
  BY PlacedOnce DEF Inv, DataInv, RowsAtTheirPlace
<1>2. QED
  BY InvHolds, <1>1, PTL

=============================================================================
