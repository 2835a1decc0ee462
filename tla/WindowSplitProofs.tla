-------------------------- MODULE WindowSplitProofs --------------------------
(***************************************************************************)
(* What an answer of async_get_alerts that is not truncated can miss, for  *)
(* every period, limit, split depth and number of alerts.                  *)
(***************************************************************************)
EXTENDS WindowSplit, SequenceTheorems, FiniteSetTheorems, FunctionTheorems, TLAPS

\* A window covers what it would return if it were asked for right now.
Covered(a, w) ==
    /\ created[a] >= clock - w.start * Minute
    /\ w.end > 0 => created[a] < clock - w.end * Minute

\* The edges of the queued windows are among the seams.
EdgesKnown == \A i \in 1 .. Len(pending) : pending[i].start \in seams

\* Every alert listed when the query began is collected, lies in a window that
\* is still queued, or has drifted over a seam.
NothingForgotten ==
    ~truncated =>
        \A a \in Alerts \ collected :
            created[a] <= 0 =>
                \/ \E i \in 1 .. Len(pending) : Covered(a, pending[i])
                \/ \E b \in seams : InSeam(a, b)

Inv == TypeOK /\ EdgesKnown /\ NothingForgotten

-----------------------------------------------------------------------------
(* Lemmas about the pieces *)

LEMMA MiddleType ==
    ASSUME NEW w \in Windows, w.start >= w.end
    PROVE  Middle(w) \in Nat
<1>1. w.start \in Nat /\ w.end \in Nat
  BY DEF Windows
<1>2. (w.start - w.end) \div 2 \in Nat
  BY <1>1
<1>3. QED
  BY <1>1, <1>2 DEF Middle

\* The halves of a window that may be split are windows again.
LEMMA HalvesType ==
    ASSUME NEW w \in Windows, MaySplit(w)
    PROVE  Halves(w) \in Seq(Windows) /\ Len(Halves(w)) = 2
<1>1. w.start \in Nat /\ w.end \in Nat /\ w.splits \in 0 .. MaxSplits
  BY DEF Windows
<1>2. w.start >= w.end /\ w.splits - 1 \in 0 .. MaxSplits
  BY <1>1, LimitAssumption DEF MaySplit, MIN_WINDOW_MINUTES
<1>3. Middle(w) \in Nat
  BY <1>2, MiddleType
<1>4. [start |-> w.start, end |-> Middle(w), splits |-> w.splits - 1] \in Windows
      /\ [start |-> Middle(w), end |-> w.end, splits |-> w.splits - 1] \in Windows
  BY <1>1, <1>2, <1>3 DEF Windows
<1>5. QED
  BY <1>4 DEF Halves

\* An alert that a window covers is covered by one of its halves.
LEMMA HalvesCover ==
    ASSUME TypeOK, NEW w \in Windows, MaySplit(w), NEW a \in Alerts, Covered(a, w)
    PROVE  \E h \in 1 .. 2 : Covered(a, Halves(w)[h])
<1>1. w.start >= w.end
  BY DEF MaySplit, MIN_WINDOW_MINUTES, Windows
<1>2. Middle(w) * Minute \in Nat /\ clock \in Nat /\ created[a] \in Int
  BY <1>1, MiddleType, SpansAssumption, ClockAssumption DEF TypeOK
<1>3. CASE created[a] < clock - Middle(w) * Minute
  <2>1. Covered(a, Halves(w)[1])
    BY <1>3 DEF Covered, Halves
  <2>2. QED
    BY <2>1
<1>4. CASE created[a] >= clock - Middle(w) * Minute
  <2>1. Covered(a, Halves(w)[2])
    BY <1>4 DEF Covered, Halves
  <2>2. QED
    BY <2>1
<1>5. QED
  BY <1>2, <1>3, <1>4

\* The head of the queue is a window, what is behind it a shorter queue.
LEMMA QueueHead ==
    ASSUME TypeOK, ~Done
    PROVE  /\ Head(pending) \in Windows /\ Head(pending) = pending[1]
           /\ Tail(pending) \in Seq(Windows)
           /\ Len(pending) \in Nat \ {0}
           /\ Len(Tail(pending)) = Len(pending) - 1
           /\ \A i \in 1 .. Len(Tail(pending)) : Tail(pending)[i] = pending[i + 1]
  BY DEF TypeOK, Done

\* What stands where in a queue that two windows were appended to.
LEMMA QueueExtended ==
    ASSUME NEW s \in Seq(Windows), NEW t \in Seq(Windows), Len(t) = 2
    PROVE  /\ \A i \in 1 .. Len(s) : i \in 1 .. Len(s \o t) /\ (s \o t)[i] = s[i]
           /\ \A h \in 1 .. 2 :
                 Len(s) + h \in 1 .. Len(s \o t) /\ (s \o t)[Len(s) + h] = t[h]
           /\ \A i \in 1 .. Len(s \o t) :
                 \/ i \in 1 .. Len(s) /\ (s \o t)[i] = s[i]
                 \/ \E h \in 1 .. 2 : (s \o t)[i] = t[h]
<1>1. Len(s) \in Nat /\ Len(s \o t) = Len(s) + 2
  <2>1. Len(s) \in Nat
    OBVIOUS
  <2>2. Len(s \o t) = Len(s) + Len(t)
    BY ConcatProperties
  <2>3. QED
    BY <2>1, <2>2
<1>2. \A i \in 1 .. Len(s) + 2 :
          (s \o t)[i] = IF i <= Len(s) THEN s[i] ELSE t[i - Len(s)]
  BY ConcatProperties
<1>3. \A i \in 1 .. Len(s) : i \in 1 .. Len(s \o t) /\ (s \o t)[i] = s[i]
  BY <1>1, <1>2
<1>4. ASSUME NEW h \in 1 .. 2
      PROVE  Len(s) + h \in 1 .. Len(s \o t) /\ (s \o t)[Len(s) + h] = t[h]
  <2>1. Len(s) + h \in 1 .. Len(s) + 2 /\ ~(Len(s) + h <= Len(s))
        /\ (Len(s) + h) - Len(s) = h
    BY <1>1
  <2>2. QED
    BY <1>1, <1>2, <2>1
<1>5. ASSUME NEW i \in 1 .. Len(s \o t)
      PROVE  \/ i \in 1 .. Len(s) /\ (s \o t)[i] = s[i]
             \/ \E h \in 1 .. 2 : (s \o t)[i] = t[h]
  <2>1. CASE i <= Len(s)
    BY <1>1, <1>3, <2>1
  <2>2. CASE ~(i <= Len(s))
    <3>1. i - Len(s) \in 1 .. 2 /\ (s \o t)[i] = t[i - Len(s)]
      BY <1>1, <1>2, <2>2
    <3>2. QED
      BY <3>1
  <2>3. QED
    BY <2>1, <2>2
<1>6. QED
  BY <1>3, <1>4, <1>5

-----------------------------------------------------------------------------
(* Types *)

LEMMA TypeInit == Init => TypeOK
<1> SUFFICES ASSUME Init PROVE TypeOK
  OBVIOUS
<1>1. minutes \in Spans /\ minutes \in Nat
  BY SpansAssumption DEF Init
<1>2. created \in [Alerts -> Int]
  <2>1. 0 - minutes * Minute .. MaxClock \subseteq Int
    BY <1>1, SpansAssumption
  <2>2. QED
    BY <2>1 DEF Init
<1>3. [start |-> minutes, end |-> 0, splits |-> MaxSplits] \in Windows
  BY <1>1, LimitAssumption DEF Windows
<1>4. pending \in Seq(Windows)
  BY <1>3 DEF Init
<1>5. clock \in 0 .. MaxClock /\ requests \in Nat
  BY ClockAssumption DEF Init
<1>6. collected \subseteq Alerts /\ truncated \in BOOLEAN /\ seams \subseteq Nat
  BY <1>1 DEF Init
<1>7. QED
  BY <1>1, <1>2, <1>4, <1>5, <1>6 DEF TypeOK

LEMMA TypeStep == TypeOK /\ [Next]_vars => TypeOK'
<1> SUFFICES ASSUME TypeOK, [Next]_vars
             PROVE  TypeOK'
  OBVIOUS
<1>1. CASE Tick
  BY <1>1, ClockAssumption DEF Tick, TypeOK
<1>2. CASE Request
  <2> DEFINE w == Head(pending)
  <2>1. w \in Windows /\ Tail(pending) \in Seq(Windows)
    BY <1>2, QueueHead DEF Request
  <2>2. requests' \in Nat /\ UNCHANGED <<minutes, clock, created>>
    BY <1>2 DEF Request, TypeOK
  <2>3. CASE Collect(w)
    BY <2>1, <2>2, <2>3 DEF Collect, TypeOK
  <2>4. CASE Split(w)
    <3>1. MaySplit(w)
      BY <2>4 DEF Split
    <3>2. w.start >= w.end
      BY <2>1, <3>1 DEF MaySplit, MIN_WINDOW_MINUTES, Windows
    <3>3. Middle(w) \in Nat /\ Halves(w) \in Seq(Windows)
      BY <2>1, <3>1, <3>2, MiddleType, HalvesType
    <3>4. pending' \in Seq(Windows)
      BY <2>1, <2>4, <3>3 DEF Split
    <3>5. QED
      BY <2>2, <2>4, <3>3, <3>4 DEF Split, TypeOK
  <2>5. CASE GiveUp(w)
    BY <2>1, <2>2, <2>5 DEF GiveUp, TypeOK
  <2>6. QED
    BY <1>2, <2>3, <2>4, <2>5 DEF Request
<1>3. CASE UNCHANGED vars
  BY <1>3 DEF vars, TypeOK
<1>4. QED
  BY <1>1, <1>2, <1>3 DEF Next

-----------------------------------------------------------------------------
(* The queue and the seams *)

LEMMA EdgesStep == TypeOK /\ EdgesKnown /\ [Next]_vars => EdgesKnown'
<1> SUFFICES ASSUME TypeOK, EdgesKnown, [Next]_vars
             PROVE  EdgesKnown'
  OBVIOUS
<1>1. CASE Request
  <2> DEFINE w == Head(pending)
  <2>1. /\ w \in Windows /\ w = pending[1]
        /\ Tail(pending) \in Seq(Windows) /\ Len(pending) \in Nat \ {0}
        /\ Len(Tail(pending)) = Len(pending) - 1
        /\ \A i \in 1 .. Len(Tail(pending)) : Tail(pending)[i] = pending[i + 1]
    BY <1>1, QueueHead DEF Request
  <2>2. \A i \in 1 .. Len(Tail(pending)) : Tail(pending)[i].start \in seams
    BY <2>1 DEF EdgesKnown
  <2>3. CASE Collect(w) \/ GiveUp(w)
    BY <2>2, <2>3 DEF Collect, GiveUp, EdgesKnown
  <2>4. CASE Split(w)
    <3>1. Halves(w) \in Seq(Windows) /\ Len(Halves(w)) = 2
      BY <2>1, <2>4, HalvesType DEF Split
    <3>2. \A i \in 1 .. 2 : Halves(w)[i].start \in seams'
      BY <2>1, <2>4 DEF Split, Halves, EdgesKnown
    <3>3. seams \subseteq seams' /\ pending' = Tail(pending) \o Halves(w)
      BY <2>4 DEF Split
    <3>4. \A i \in 1 .. Len(pending') :
             \/ i \in 1 .. Len(Tail(pending)) /\ pending'[i] = Tail(pending)[i]
             \/ \E h \in 1 .. 2 : pending'[i] = Halves(w)[h]
      <4> DEFINE s == Tail(pending)
                 t == Halves(w)
      <4>1. s \in Seq(Windows) /\ t \in Seq(Windows) /\ Len(t) = 2 /\ pending' = s \o t
        BY <2>1, <3>1, <3>3
      <4> HIDE DEF s, t
      <4>2. \A i \in 1 .. Len(s \o t) :
               \/ i \in 1 .. Len(s) /\ (s \o t)[i] = s[i]
               \/ \E h \in 1 .. 2 : (s \o t)[i] = t[h]
        BY <4>1, QueueExtended
      <4>3. QED
        BY <4>1, <4>2 DEF s, t
    <3>5. QED
      BY <2>2, <3>2, <3>3, <3>4 DEF EdgesKnown
  <2>5. QED
    BY <1>1, <2>3, <2>4 DEF Request
<1>2. CASE UNCHANGED <<pending, seams>>
  BY <1>2 DEF EdgesKnown
<1>3. QED
  BY <1>1, <1>2 DEF Next, vars, Tick

\* While the clock runs, a covered alert stays covered or drifts into the seam
\* at the window's older edge.
LEMMA TickDrifts ==
    ASSUME TypeOK, clock' = clock + 1, created' = created,
           NEW w \in Windows, NEW a \in Alerts, Covered(a, w), w.start \in seams
    PROVE  Covered(a, w)' \/ InSeam(a, w.start)'
<1>1. clock \in Nat /\ created[a] \in Int /\ w.start * Minute \in Nat
      /\ w.end * Minute \in Nat
  BY SpansAssumption, ClockAssumption DEF TypeOK, Windows
<1>2. CASE created[a] >= clock + 1 - w.start * Minute
  BY <1>1, <1>2 DEF Covered
<1>3. CASE created[a] < clock + 1 - w.start * Minute
  BY <1>1, <1>3 DEF Covered, InSeam
<1>4. QED
  BY <1>1, <1>2, <1>3

LEMMA ForgottenStep ==
    TypeOK /\ EdgesKnown /\ NothingForgotten /\ [Next]_vars => NothingForgotten'
<1> SUFFICES ASSUME TypeOK, EdgesKnown, NothingForgotten, [Next]_vars
             PROVE  NothingForgotten'
  OBVIOUS
<1>1. CASE Tick
  <2>1. SUFFICES ASSUME ~truncated, NEW a \in Alerts \ collected, created[a] <= 0
                 PROVE  \/ \E i \in 1 .. Len(pending) : Covered(a, pending[i])'
                        \/ \E b \in seams : InSeam(a, b)'
    BY <1>1 DEF Tick, NothingForgotten, Covered, InSeam
  <2>2. CASE \E i \in 1 .. Len(pending) : Covered(a, pending[i])
    <3>1. PICK i \in 1 .. Len(pending) : Covered(a, pending[i])
      BY <2>2
    <3>2. pending[i] \in Windows /\ pending[i].start \in seams
      BY DEF TypeOK, EdgesKnown
    <3>3. pending' = pending /\ clock' = clock + 1 /\ created' = created
      BY <1>1 DEF Tick
    <3>4. Covered(a, pending[i])' \/ InSeam(a, pending[i].start)'
      BY <2>1, <3>1, <3>2, <3>3, TickDrifts DEF Covered, InSeam
    <3>5. QED
      BY <3>2, <3>3, <3>4 DEF InSeam
  <2>3. CASE \E b \in seams : InSeam(a, b)
    <3>1. PICK b \in seams : InSeam(a, b)
      BY <2>3
    <3>2. b * Minute \in Nat /\ clock \in Nat /\ created[a] \in Int
      BY <2>1, SpansAssumption, ClockAssumption DEF TypeOK
    <3>3. InSeam(a, b)'
      BY <1>1, <3>1, <3>2 DEF InSeam, Tick
    <3>4. QED
      BY <3>3
  <2>4. QED
    BY <2>1, <2>2, <2>3 DEF NothingForgotten
<1>2. CASE Request
  <2> DEFINE w == Head(pending)
  <2>1. /\ w \in Windows /\ w = pending[1]
        /\ Tail(pending) \in Seq(Windows) /\ Len(pending) \in Nat \ {0}
        /\ Len(Tail(pending)) = Len(pending) - 1
        /\ \A i \in 1 .. Len(Tail(pending)) : Tail(pending)[i] = pending[i + 1]
    BY <1>2, QueueHead DEF Request
  <2>2. UNCHANGED <<clock, created>> /\ seams \subseteq seams'
    BY <1>2 DEF Request, Collect, Split, GiveUp
  <2>3. SUFFICES ASSUME ~truncated', NEW a \in Alerts \ collected', created[a] <= 0
                 PROVE  \/ \E i \in 1 .. Len(pending') : Covered(a, pending'[i])
                        \/ \E b \in seams : InSeam(a, b)
    BY <2>2 DEF NothingForgotten, Covered, InSeam
  <2>4. ~truncated /\ a \notin collected
    <3>1. collected \subseteq collected' /\ (truncated' \/ truncated' = truncated)
      BY <1>2 DEF Request, Collect, Split, GiveUp
    <3>2. QED
      BY <2>3, <3>1
  <2>5. CASE \E b \in seams : InSeam(a, b)
    BY <2>5
  <2>6. CASE \E i \in 1 .. Len(pending) : Covered(a, pending[i])
    <3>1. PICK i \in 1 .. Len(pending) : Covered(a, pending[i])
      BY <2>6
    <3>2. CASE Collect(w)
      <4>1. i # 1
        <5>1. created[a] <= clock
          BY <2>3, ClockAssumption DEF TypeOK
        <5>2. SUFFICES ASSUME i = 1 PROVE FALSE
          OBVIOUS
        <5>3. InWindow(a, w)
          BY <2>1, <3>1, <5>1, <5>2 DEF InWindow, Covered
        <5>4. QED
          BY <2>3, <3>2, <5>3 DEF Collect
      <4>2. i - 1 \in 1 .. Len(Tail(pending)) /\ Tail(pending)[i - 1] = pending[i]
        BY <2>1, <4>1
      <4>3. pending' = Tail(pending)
        BY <3>2 DEF Collect
      <4>4. QED
        BY <3>1, <4>2, <4>3
    <3>3. CASE Split(w)
      <4>1. MaySplit(w) /\ pending' = Tail(pending) \o Halves(w)
        BY <3>3 DEF Split
      <4>2. Halves(w) \in Seq(Windows) /\ Len(Halves(w)) = 2
        BY <2>1, <4>1, HalvesType
      <4>3. CASE i = 1
        <5>1. PICK h \in 1 .. 2 : Covered(a, Halves(w)[h])
          BY <2>1, <3>1, <4>1, <4>3, HalvesCover
        <5>2. /\ Len(Tail(pending)) + h \in 1 .. Len(pending')
              /\ pending'[Len(Tail(pending)) + h] = Halves(w)[h]
          BY <2>1, <4>1, <4>2, QueueExtended
        <5>3. QED
          BY <5>1, <5>2
      <4>4. CASE i # 1
        <5>1. i - 1 \in 1 .. Len(Tail(pending)) /\ Tail(pending)[i - 1] = pending[i]
          BY <2>1, <4>4
        <5>2. i - 1 \in 1 .. Len(pending') /\ pending'[i - 1] = pending[i]
          BY <2>1, <4>1, <4>2, <5>1, QueueExtended
        <5>3. QED
          BY <3>1, <5>2
      <4>5. QED
        BY <4>3, <4>4
    <3>4. CASE GiveUp(w)
      BY <2>3, <3>4 DEF GiveUp
    <3>5. QED
      BY <1>2, <3>2, <3>3, <3>4 DEF Request
  <2>7. QED
    BY <2>3, <2>4, <2>5, <2>6 DEF NothingForgotten
<1>3. CASE UNCHANGED vars
  BY <1>3 DEF vars, NothingForgotten, Covered, InSeam
<1>4. QED
  BY <1>1, <1>2, <1>3 DEF Next

-----------------------------------------------------------------------------
(* The minutes of the queued windows *)

\* Every window has at least one minute.
Long(w) == w.end < w.start

Apart(v, w) == v.end >= w.start \/ w.end >= v.start

AllLong == \A i \in 1 .. Len(pending) : Long(pending[i])

AllApart == \A i, j \in 1 .. Len(pending) : i < j => Apart(pending[i], pending[j])

\* The halves share the minutes of the window they come from.
LEMMA HalvesShare ==
    ASSUME NEW w \in Windows, MaySplit(w)
    PROVE  /\ \A h \in 1 .. 2 : Long(Halves(w)[h])
           /\ \A h \in 1 .. 2, v \in Windows :
                 Apart(v, w) => Apart(v, Halves(w)[h]) /\ Apart(Halves(w)[h], v)
           /\ Apart(Halves(w)[1], Halves(w)[2])
<1>1. w.start \in Nat /\ w.end \in Nat /\ w.start - w.end >= 2
  BY DEF Windows, MaySplit, MIN_WINDOW_MINUTES
<1>2. w.end < Middle(w) /\ Middle(w) < w.start /\ Middle(w) \in Int
  <2>1. (w.start - w.end) \div 2 \in Int /\ 0 < (w.start - w.end) \div 2
        /\ (w.start - w.end) \div 2 < w.start - w.end
    BY <1>1
  <2>2. QED
    BY <1>1, <2>1 DEF Middle
<1>3. /\ Halves(w)[1].start = w.start /\ Halves(w)[1].end = Middle(w)
      /\ Halves(w)[2].start = Middle(w) /\ Halves(w)[2].end = w.end
  BY DEF Halves
<1>4. ASSUME NEW h \in 1 .. 2
      PROVE  /\ w.end <= Halves(w)[h].end /\ Halves(w)[h].start <= w.start
             /\ Halves(w)[h].end \in Int /\ Halves(w)[h].start \in Int
             /\ Long(Halves(w)[h])
  <2>1. CASE h = 1
    BY <1>1, <1>2, <1>3, <2>1 DEF Long
  <2>2. CASE h = 2
    BY <1>1, <1>2, <1>3, <2>2 DEF Long
  <2>3. QED
    BY <2>1, <2>2
<1>5. ASSUME NEW h \in 1 .. 2, NEW v \in Windows, Apart(v, w)
      PROVE  Apart(v, Halves(w)[h]) /\ Apart(Halves(w)[h], v)
  <2>1. v.start \in Nat /\ v.end \in Nat
    BY DEF Windows
  <2>2. QED
    BY <1>1, <1>4, <1>5, <2>1 DEF Apart
<1>6. Apart(Halves(w)[1], Halves(w)[2])
  BY <1>2, <1>3 DEF Apart
<1>7. QED
  BY <1>4, <1>5, <1>6

LEMMA ApartStep == TypeOK /\ AllLong /\ AllApart /\ [Next]_vars => AllLong' /\ AllApart'
<1> SUFFICES ASSUME TypeOK, AllLong, AllApart, [Next]_vars
             PROVE  AllLong' /\ AllApart'
  OBVIOUS
<1>1. CASE Request
  <2> DEFINE w == Head(pending)
             s == Tail(pending)
             t == Halves(w)
  <2>1. /\ w \in Windows /\ w = pending[1]
        /\ s \in Seq(Windows) /\ Len(pending) \in Nat \ {0}
        /\ Len(s) = Len(pending) - 1
        /\ \A i \in 1 .. Len(s) : s[i] = pending[i + 1]
    BY <1>1, QueueHead DEF Request
  <2>2. ASSUME NEW i \in 1 .. Len(s)
        PROVE  Long(s[i]) /\ Apart(w, s[i]) /\ Apart(s[i], w) /\ s[i] \in Windows
    <3>1. i + 1 \in 1 .. Len(pending) /\ 1 \in 1 .. Len(pending) /\ 1 < i + 1
      BY <2>1
    <3>2. Apart(pending[1], pending[i + 1]) /\ Long(pending[i + 1])
      BY <3>1 DEF AllApart, AllLong
    <3>3. s[i] \in Windows
      BY <2>1
    <3>4. QED
      BY <2>1, <3>2, <3>3 DEF Apart
  <2>3. ASSUME NEW i \in 1 .. Len(s), NEW j \in 1 .. Len(s), i < j
        PROVE  Apart(s[i], s[j])
    <3>1. i + 1 \in 1 .. Len(pending) /\ j + 1 \in 1 .. Len(pending) /\ i + 1 < j + 1
      BY <2>1, <2>3
    <3>2. QED
      BY <2>1, <3>1 DEF AllApart
  <2> HIDE DEF w, s, t
  <2>4. CASE Collect(w) \/ GiveUp(w)
    <3>1. pending' = s
      BY <2>4 DEF Collect, GiveUp, s
    <3>2. QED
      BY <2>2, <2>3, <3>1 DEF AllLong, AllApart, Long, Apart
  <2>5. CASE Split(w)
    <3>1. pending' = s \o t /\ MaySplit(w)
      BY <2>5 DEF Split, s, t
    <3>2. t \in Seq(Windows) /\ Len(t) = 2
      BY <2>1, <3>1, HalvesType DEF t
    <3>3. Len(s \o t) = Len(s) + 2 /\ Len(s) \in Nat
          /\ \A i \in 1 .. Len(s) + 2 : (s \o t)[i] = IF i <= Len(s) THEN s[i] ELSE t[i - Len(s)]
      <4>1. s \in Seq(Windows) /\ t \in Seq(Windows) /\ Len(t) = 2
        BY <2>1, <3>2
      <4>2. Len(s) \in Nat
        BY <4>1
      <4>3. Len(s \o t) = Len(s) + Len(t)
        BY <4>1, ConcatProperties
      <4>4. \A i \in 1 .. Len(s) + Len(t) :
               (s \o t)[i] = IF i <= Len(s) THEN s[i] ELSE t[i - Len(s)]
        BY <4>1, ConcatProperties
      <4>5. QED
        BY <4>1, <4>2, <4>3, <4>4
    <3>4. ASSUME NEW i \in 1 .. Len(s \o t)
          PROVE  \/ i \in 1 .. Len(s) /\ (s \o t)[i] = s[i]
                 \/ i - Len(s) \in 1 .. 2 /\ (s \o t)[i] = t[i - Len(s)]
      BY <3>3
    <3>5. \A i \in 1 .. Len(s \o t) : Long((s \o t)[i])
      BY <2>1, <2>2, <3>1, <3>4, HalvesShare DEF t
    <3>6. ASSUME NEW i \in 1 .. Len(s \o t), NEW j \in 1 .. Len(s \o t), i < j
          PROVE  Apart((s \o t)[i], (s \o t)[j])
      <4>1. CASE j \in 1 .. Len(s)
        <5>1. i \in 1 .. Len(s)
          BY <3>3, <3>6, <4>1
        <5>2. QED
          BY <2>3, <3>3, <3>6, <4>1, <5>1
      <4>2. CASE i \in 1 .. Len(s) /\ j \notin 1 .. Len(s)
        <5>1. (s \o t)[i] = s[i] /\ (s \o t)[j] = t[j - Len(s)] /\ j - Len(s) \in 1 .. 2
          BY <3>3, <3>4, <4>2
        <5>2. Apart(s[i], w) /\ s[i] \in Windows
          BY <2>2, <4>2
        <5>3. Apart(s[i], t[j - Len(s)])
          BY <2>1, <3>1, <5>1, <5>2, HalvesShare DEF t
        <5>4. QED
          BY <5>1, <5>3
      <4>3. CASE i \notin 1 .. Len(s) /\ j \notin 1 .. Len(s)
        <5>1. i - Len(s) = 1 /\ j - Len(s) = 2
          BY <3>3, <3>6, <4>3
        <5>2. (s \o t)[i] = t[1] /\ (s \o t)[j] = t[2]
          BY <3>4, <4>3, <5>1
        <5>3. QED
          BY <2>1, <3>1, <5>2, HalvesShare DEF t
      <4>4. QED
        BY <3>3, <3>6, <4>1, <4>2, <4>3
    <3>7. QED
      BY <3>1, <3>5, <3>6 DEF AllLong, AllApart, Long, Apart
  <2>6. QED
    BY <1>1, <2>4, <2>5 DEF Request, w
<1>2. CASE UNCHANGED pending
  BY <1>2 DEF AllLong, AllApart, Long, Apart
<1>3. QED
  BY <1>1, <1>2 DEF Next, vars, Tick

LEMMA ApartInit == Init => AllLong /\ AllApart
<1> SUFFICES ASSUME Init PROVE AllLong /\ AllApart
  OBVIOUS
<1>1. /\ Len(pending) = 1 /\ pending[1].start = minutes /\ pending[1].end = 0
      /\ minutes \in Nat \ {0}
  BY SpansAssumption DEF Init
<1>2. QED
  BY <1>1 DEF AllLong, AllApart, Long

-----------------------------------------------------------------------------
(* The number of requests *)

\* The powers of two, counted as sets: a set of n + 1 numbers has the subsets of
\* the first n, each with the last number and without it.
LEMMA PowersOfTwo ==
    ASSUME NEW n \in Nat
    PROVE  2^n \in Nat \ {0} /\ 2^(n + 1) = 2 * 2^n
<1> DEFINE A == SUBSET (1 .. n)
           B == SUBSET (1 .. n + 1)
           C == {0, 1} \X A
           f == [c \in C |-> IF c[1] = 0 THEN c[2] ELSE c[2] \cup {n + 1}]
<1>1. /\ IsFiniteSet(1 .. n) /\ Cardinality(1 .. n) = n
      /\ IsFiniteSet(1 .. n + 1) /\ Cardinality(1 .. n + 1) = n + 1
  BY FS_Interval
<1>2. /\ IsFiniteSet(A) /\ Cardinality(A) = 2^n
      /\ IsFiniteSet(B) /\ Cardinality(B) = 2^(n + 1)
  BY <1>1, FS_SUBSET
<1>3. 2^n \in Nat \ {0}
  <2>1. Cardinality(A) \in Nat
    BY <1>2, FS_CardinalityType
  <2>2. A # {}
    OBVIOUS
  <2> HIDE DEF A
  <2>3. Cardinality(A) # 0
    BY <1>2, <2>2, FS_EmptySet
  <2>4. QED
    BY <1>2, <2>1, <2>3
<1>4. IsFiniteSet({0, 1}) /\ Cardinality({0, 1}) = 2
  <2>1. IsFiniteSet({0} \cup {1}) /\ Cardinality({0} \cup {1}) = 2
    <3>1. IsFiniteSet({0}) /\ Cardinality({0}) = 1
      BY FS_Singleton
    <3>2. Cardinality({0} \cup {1}) = IF 1 \in {0} THEN 1 ELSE 1 + 1
      BY <3>1, FS_AddElement
    <3>3. QED
      BY <3>1, <3>2, FS_AddElement
  <2>2. {0, 1} = {0} \cup {1}
    OBVIOUS
  <2>3. QED
    BY <2>1, <2>2
<1>5. IsFiniteSet(C) /\ Cardinality(C) = 2 * 2^n
  BY <1>2, <1>4, FS_Product
<1>6. f \in Bijection(C, B)
  <2>1. f \in [C -> B]
    OBVIOUS
  <2>2. ASSUME NEW c \in C, NEW d \in C, f[c] = f[d] PROVE c = d
    <3>1. n + 1 \notin c[2] /\ n + 1 \notin d[2]
      OBVIOUS
    <3>2. c[1] = d[1]
      BY <2>2, <3>1
    <3>3. c[2] = d[2]
      BY <2>2, <3>1, <3>2
    <3>4. QED
      BY <3>2, <3>3
  <2>3. ASSUME NEW b \in B PROVE \E c \in C : f[c] = b
    <3>1. CASE n + 1 \in b
      <4>1. b \ {n + 1} \in A
        OBVIOUS
      <4>2. <<1, b \ {n + 1}>> \in C
        BY <4>1
      <4>3. f[<<1, b \ {n + 1}>>] = b
        BY <3>1, <4>2
      <4>4. QED
        BY <4>2, <4>3
    <3>2. CASE n + 1 \notin b
      <4>1. b \in A
        BY <3>2
      <4>2. <<0, b>> \in C
        BY <4>1
      <4>3. f[<<0, b>>] = b
        BY <4>2
      <4>4. QED
        BY <4>2, <4>3
    <3>3. QED
      BY <3>1, <3>2
  <2>4. f \in Injection(C, B)
    BY <2>1, <2>2 DEF Injection, IsInjective
  <2>5. f \in Surjection(C, B)
    BY <2>1, <2>3 DEF Surjection
  <2>6. QED
    BY <2>4, <2>5 DEF Bijection
<1>7. Cardinality(B) = Cardinality(C)
  BY <1>5, <1>6, FS_Bijection DEF ExistsBijection
<1>8. QED
  BY <1>2, <1>3, <1>5, <1>7

\* The requests of a window that may be split k times, and of one that may be
\* split one time less.
Tree(k) == 2^(k + 1) - 1
Below(k) == 2^k - 1

\* The queue holds p windows of one level of the tree and then some of the next.
TwoLevels(k, p) ==
    \A i \in 1 .. Len(pending) :
        pending[i].splits = IF i <= p THEN k ELSE k - 1

\* What has been asked for and all that may still come of the queue.
Budget(k, p) ==
    /\ TwoLevels(k, p)
    /\ requests + p * Tree(k) + (Len(pending) - p) * Below(k) <= Tree(MaxSplits)

BudgetInv ==
    \E k \in 0 .. MaxSplits, p \in 0 .. Len(pending) : Budget(k, p)

LEMMA TreeType ==
    ASSUME NEW k \in Nat
    PROVE  /\ Tree(k) \in Nat \ {0} /\ Below(k) \in Nat
           /\ Tree(k) = 2 * Below(k) + 1
           /\ k > 0 => Below(k) = Tree(k - 1)
<1>1. 2^k \in Nat \ {0} /\ 2^(k + 1) = 2 * 2^k
  BY PowersOfTwo
<1>2. ASSUME k > 0 PROVE Below(k) = Tree(k - 1)
  BY <1>2, (k - 1) + 1 = k DEF Below, Tree
<1>3. QED
  BY <1>1, <1>2 DEF Tree, Below

LEMMA BudgetInit == Init => BudgetInv
<1> SUFFICES ASSUME Init PROVE BudgetInv
  OBVIOUS
<1>1. /\ Len(pending) = 1 /\ pending[1].splits = MaxSplits /\ requests = 0
  BY DEF Init
<1>2. MaxSplits \in Nat /\ Tree(MaxSplits) \in Nat /\ Below(MaxSplits) \in Nat
  BY LimitAssumption, TreeType
<1>3. Budget(MaxSplits, 1)
  BY <1>1, <1>2 DEF Budget, TwoLevels
<1>4. QED
  BY <1>1, <1>2, <1>3 DEF BudgetInv

\* A queue that is not empty starts with its upper level.
LEMMA UpperLevel ==
    ASSUME TypeOK, BudgetInv, pending # <<>>
    PROVE  \E k \in 0 .. MaxSplits, p \in 1 .. Len(pending) : Budget(k, p)
<1>1. PICK k \in 0 .. MaxSplits, p \in 0 .. Len(pending) : Budget(k, p)
  BY DEF BudgetInv
<1>2. Len(pending) \in Nat \ {0} /\ pending[1] \in Windows
  BY DEF TypeOK
<1>3. CASE p > 0
  BY <1>1, <1>2, <1>3
<1>4. CASE p = 0
  <2>1. k - 1 \in 0 .. MaxSplits
    <3>1. pending[1].splits = k - 1
      BY <1>1, <1>2, <1>4 DEF Budget, TwoLevels
    <3>2. pending[1].splits \in 0 .. MaxSplits
      BY <1>2 DEF Windows
    <3>3. QED
      BY <3>1, <3>2
  <2>2. Below(k) = Tree(k - 1) /\ Tree(k - 1) \in Nat /\ Below(k - 1) \in Nat /\ Tree(k) \in Nat
    <3>1. k \in Nat /\ k - 1 \in Nat /\ k > 0
      BY <2>1, LimitAssumption
    <3>2. Tree(k) \in Nat /\ Below(k) = Tree(k - 1)
      BY <3>1, TreeType
    <3>3. Tree(k - 1) \in Nat /\ Below(k - 1) \in Nat
      BY <3>1, TreeType
    <3>4. QED
      BY <3>2, <3>3
  <2>3. TwoLevels(k - 1, Len(pending))
    BY <1>1, <1>4 DEF Budget, TwoLevels
  <2>4. requests + p * Tree(k) + (Len(pending) - p) * Tree(k - 1) <= Tree(MaxSplits)
    BY <1>1, <2>2 DEF Budget
  <2>5. requests + Len(pending) * Tree(k - 1) + (Len(pending) - Len(pending)) * Below(k - 1)
          <= Tree(MaxSplits)
    <3>1. /\ p * Tree(k) = 0 /\ Len(pending) - p = Len(pending)
          /\ (Len(pending) - Len(pending)) * Below(k - 1) = 0
          /\ requests \in Nat /\ Len(pending) * Tree(k - 1) \in Nat
      BY <1>2, <1>4, <2>2 DEF TypeOK
    <3>2. QED
      BY <2>4, <3>1
  <2>6. Budget(k - 1, Len(pending))
    BY <2>3, <2>5 DEF Budget
  <2>7. QED
    BY <1>2, <2>1, <2>6
<1>5. QED
  BY <1>2, <1>3, <1>4

\* A window that is done with takes its subtree along; one that is split leaves two
\* of the next level, which is all of its subtree but itself.
LEMMA BudgetArithmetic ==
    ASSUME NEW r \in Nat, NEW p \in Nat \ {0}, NEW n \in Nat, p <= n,
           NEW t \in Nat, NEW b \in Nat, t = 2 * b + 1, NEW m \in Nat,
           r + p * t + (n - p) * b <= m
    PROVE  /\ r + 1 + (p - 1) * t + ((n - 1) - (p - 1)) * b <= m
           /\ r + 1 + (p - 1) * t + ((n + 1) - (p - 1)) * b <= m
<1>1. (p - 1) * t = p * t - t /\ p * t \in Nat
  OBVIOUS
<1>2. /\ ((n - 1) - (p - 1)) * b = (n - p) * b
      /\ ((n + 1) - (p - 1)) * b = (n - p) * b + 2 * b
      /\ (n - p) * b \in Nat
  OBVIOUS
<1>3. QED
  BY <1>1, <1>2

LEMMA BudgetStep == TypeOK /\ BudgetInv /\ [Next]_vars => BudgetInv'
<1> SUFFICES ASSUME TypeOK, BudgetInv, [Next]_vars PROVE BudgetInv'
  OBVIOUS
<1>1. CASE Request
  <2> DEFINE w == Head(pending)
             s == Tail(pending)
             t == Halves(w)
  <2>1. /\ w \in Windows /\ w = pending[1]
        /\ s \in Seq(Windows) /\ Len(pending) \in Nat \ {0}
        /\ Len(s) = Len(pending) - 1
        /\ \A i \in 1 .. Len(s) : s[i] = pending[i + 1]
    BY <1>1, QueueHead DEF Request
  <2>2. PICK k \in 0 .. MaxSplits, p \in 1 .. Len(pending) : Budget(k, p)
    BY <1>1, <2>1, UpperLevel DEF Request, Done
  <2>3. /\ Tree(k) \in Nat /\ Below(k) \in Nat /\ Tree(k) = 2 * Below(k) + 1
        /\ Tree(MaxSplits) \in Nat
    <3>1. k \in Nat /\ MaxSplits \in Nat
      BY LimitAssumption
    <3>2. Tree(MaxSplits) \in Nat
      BY <3>1, TreeType
    <3>3. QED
      BY <3>1, <3>2, TreeType
  <2>4. requests \in Nat /\ requests' = requests + 1
    BY <1>1 DEF Request, TypeOK
  <2>5. w.splits = k /\ \A i \in 1 .. Len(s) : s[i].splits = IF i <= p - 1 THEN k ELSE k - 1
    BY <2>1, <2>2 DEF Budget, TwoLevels
  <2>6. /\ requests' + (p - 1) * Tree(k) + ((Len(pending) - 1) - (p - 1)) * Below(k)
             <= Tree(MaxSplits)
        /\ requests' + (p - 1) * Tree(k) + ((Len(pending) + 1) - (p - 1)) * Below(k)
             <= Tree(MaxSplits)
    <3>1. requests + p * Tree(k) + (Len(pending) - p) * Below(k) <= Tree(MaxSplits)
      BY <2>2 DEF Budget
    <3>2. p \in Nat \ {0} /\ Len(pending) \in Nat /\ p <= Len(pending)
      BY <2>1
    <3> HIDE DEF w, s, t
    <3>3. QED
      BY <2>3, <2>4, <3>1, <3>2, BudgetArithmetic
  <2>7. ASSUME Collect(w) \/ GiveUp(w) PROVE BudgetInv'
    <3>1. pending' = s
      BY <2>7 DEF Collect, GiveUp
    <3> HIDE DEF w, s, t
    <3>2. Budget(k, p - 1)'
      BY <2>1, <2>5, <2>6, <3>1 DEF Budget, TwoLevels, Tree, Below
    <3>3. p - 1 \in 0 .. Len(pending')
      BY <2>1, <3>1
    <3>4. QED
      BY <3>2, <3>3 DEF BudgetInv
  <2>8. ASSUME Split(w) PROVE BudgetInv'
    <3>1. pending' = s \o t /\ MaySplit(w)
      BY <2>8 DEF Split
    <3>2. /\ t \in Seq(Windows) /\ Len(t) = 2
          /\ t[1].splits = k - 1 /\ t[2].splits = k - 1
      BY <2>1, <2>5, <3>1, HalvesType DEF Halves
    <3> HIDE DEF w, s, t
    <3>3. /\ Len(pending') = Len(pending) + 1
          /\ \A i \in 1 .. Len(pending) + 1 :
                pending'[i] = IF i <= Len(s) THEN s[i] ELSE t[i - Len(s)]
      <4>1. s \in Seq(Windows) /\ t \in Seq(Windows)
        BY <2>1, <3>2
      <4>2. Len(s \o t) = Len(s) + Len(t)
        BY <4>1, ConcatProperties
      <4>3. \A i \in 1 .. Len(s) + Len(t) :
               (s \o t)[i] = IF i <= Len(s) THEN s[i] ELSE t[i - Len(s)]
        BY <4>1, ConcatProperties
      <4>4. Len(s) + Len(t) = Len(pending) + 1
        BY <2>1, <3>2
      <4>5. QED
        BY <3>1, <4>2, <4>3, <4>4
    <3>4. ASSUME NEW i \in 1 .. Len(pending) + 1
          PROVE  pending'[i].splits = IF i <= p - 1 THEN k ELSE k - 1
      <4>1. CASE i <= Len(s)
        BY <2>1, <2>5, <3>3, <4>1
      <4>2. CASE ~(i <= Len(s))
        <5>1. i - Len(s) \in 1 .. 2 /\ ~(i <= p - 1)
          BY <2>1, <4>2
        <5>2. QED
          BY <3>2, <3>3, <4>2, <5>1
      <4>3. QED
        BY <4>1, <4>2
    <3>5. Budget(k, p - 1)'
      BY <2>6, <3>3, <3>4 DEF Budget, TwoLevels, Tree, Below
    <3>6. p - 1 \in 0 .. Len(pending')
      BY <2>1, <3>3
    <3>7. QED
      BY <3>5, <3>6 DEF BudgetInv
  <2>9. QED
    BY <1>1, <2>7, <2>8 DEF Request
<1>2. CASE UNCHANGED <<pending, requests>>
  BY <1>2 DEF BudgetInv, Budget, TwoLevels, Tree, Below
<1>3. QED
  BY <1>1, <1>2 DEF Next, vars, Tick

-----------------------------------------------------------------------------
(* The theorems *)

LEMMA InvInit == Init => Inv
<1> SUFFICES ASSUME Init PROVE Inv
  OBVIOUS
<1>1. TypeOK
  BY TypeInit
<1>2. Len(pending) = 1 /\ pending[1].start = minutes /\ pending[1].end = 0
  BY DEF Init
<1>3. EdgesKnown
  BY <1>2 DEF Init, EdgesKnown
<1>4. minutes * Minute \in Nat
  BY SpansAssumption DEF Init
<1>5. ASSUME NEW a \in Alerts
      PROVE  Covered(a, pending[1])
  BY <1>2, <1>4 DEF Init, Covered
<1>6. NothingForgotten
  BY <1>2, <1>5 DEF NothingForgotten
<1>7. QED
  BY <1>1, <1>3, <1>6 DEF Inv

LEMMA InvStep == Inv /\ [Next]_vars => Inv'
  BY TypeStep, EdgesStep, ForgottenStep DEF Inv

\* The variables keep their types.
THEOREM TypeCorrect == Spec => []TypeOK
<1>1. QED
  BY TypeInit, TypeStep, PTL DEF Spec

\* What an answer that is not truncated misses has drifted over a seam.
THEOREM MissesOnlyAtSeams == Spec => []MissedOnlyAtSeams
<1>1. Inv => MissedOnlyAtSeams
  BY DEF Inv, NothingForgotten, MissedOnlyAtSeams, Done
<1>2. QED
  BY <1>1, InvInit, InvStep, PTL DEF Spec

\* No window of the queue asks for a minute another one asks for.
THEOREM QueueIsDisjoint == Spec => []PendingDisjoint
<1>1. AllApart => PendingDisjoint
  BY DEF AllApart, Apart, PendingDisjoint
<1>2. QED
  BY <1>1, TypeInit, TypeStep, ApartInit, ApartStep, PTL DEF Spec

\* A query takes no more requests than a full tree of windows has, in whatever
\* order answers hit the limit.
THEOREM RequestsAreBounded == Spec => []RequestBound
<1>1. TypeOK /\ BudgetInv => RequestBound
  <2> SUFFICES ASSUME TypeOK, BudgetInv PROVE RequestBound
    OBVIOUS
  <2>1. PICK k \in 0 .. MaxSplits, p \in 0 .. Len(pending) : Budget(k, p)
    BY DEF BudgetInv
  <2>2. /\ Tree(k) \in Nat /\ Below(k) \in Nat /\ Tree(MaxSplits) \in Nat
        /\ Len(pending) \in Nat /\ requests \in Nat
    <3>1. k \in Nat /\ MaxSplits \in Nat
      BY LimitAssumption
    <3>2. Tree(MaxSplits) \in Nat
      BY <3>1, TreeType
    <3>3. Tree(k) \in Nat /\ Below(k) \in Nat
      BY <3>1, TreeType
    <3>4. QED
      BY <3>2, <3>3 DEF TypeOK
  <2>3. p * Tree(k) \in Nat /\ (Len(pending) - p) * Below(k) \in Nat
    BY <2>1, <2>2
  <2>4. requests + p * Tree(k) + (Len(pending) - p) * Below(k) <= Tree(MaxSplits)
    BY <2>1 DEF Budget
  <2>5. requests <= Tree(MaxSplits)
    BY <2>2, <2>3, <2>4
  <2>6. QED
    BY <2>5 DEF RequestBound, Tree
<1>2. QED
  BY <1>1, TypeInit, TypeStep, BudgetInit, BudgetStep, PTL DEF Spec
==============================================================================
