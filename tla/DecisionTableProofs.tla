------------------------- MODULE DecisionTableProofs -------------------------
(***************************************************************************)
(* The rows of the table and the report about an address, for any alerts,  *)
(* lengths of bans, window and size of the table.                          *)
(***************************************************************************)
EXTENDS DecisionTable, FiniteSetTheorems, FunctionTheorems, SequenceTheorems,
        WellFoundedInduction, TLAPS

-----------------------------------------------------------------------------
(* Ranking a finite set *)

\* A set of natural numbers that is not empty has a least one.
LEMMA Least ==
    ASSUME NEW T, T \subseteq Nat, T # {}
    PROVE  \E n \in T : \A m \in T : n <= m
<1>1. PICK n \in T : \A m \in T : <<m, n>> \notin OpToRel(<, Nat)
  BY NatLessThanWellFounded, WFMin
<1>2. ASSUME NEW m \in T PROVE n <= m
  <2>1. <<m, n>> \notin OpToRel(<, Nat)
    BY <1>1
  <2>2. ~(m < n)
    BY <2>1, m \in Nat, n \in Nat DEF OpToRel
  <2>3. QED
    BY <2>2
<1>3. QED
  BY <1>2

\* R puts any two members of S in an order.
Orders(R, S) ==
    /\ \A x, y \in S : x = y \/ <<x, y>> \in R \/ <<y, x>> \in R
    /\ \A x, y \in S : <<x, y>> \in R => <<y, x>> \notin R
    /\ \A x, y, z \in S : <<x, y>> \in R /\ <<y, z>> \in R => <<x, z>> \in R

\* Then a finite set has a first member: otherwise take one of the least size that
\* has none; the first of the others, or the one left out, is the first of all.
LEMMA FirstExists ==
    ASSUME NEW R, NEW S, IsFiniteSet(S), Orders(R, S), S # {}
    PROVE  \E x \in S : \A y \in S : y = x \/ <<x, y>> \in R
<1> DEFINE First(x, u) == x \in u /\ \A y \in u : y = x \/ <<x, y>> \in R
           Bad(u) == u # {} /\ IsFiniteSet(u) /\ ~ \E x : First(x, u)
           Sizes == {n \in Nat : \E u \in SUBSET S : Bad(u) /\ Cardinality(u) = n}
<1> SUFFICES ASSUME Bad(S) PROVE FALSE
  OBVIOUS
<1>1. Cardinality(S) \in Sizes
  BY FS_CardinalityType
<1>2. PICK n \in Sizes : \A m \in Sizes : n <= m
  BY <1>1, Least
<1>3. PICK u \in SUBSET S : Bad(u) /\ Cardinality(u) = n
  BY <1>2
<1>4. PICK x \in u : TRUE
  BY <1>3
<1> DEFINE v == u \ {x}
<1>5. IsFiniteSet(v) /\ Cardinality(v) = n - 1 /\ n \in Nat
  BY <1>3, <1>4, FS_RemoveElement
<1>6. n - 1 \in Nat
  BY <1>5, FS_CardinalityType
<1>7. ~Bad(v)
  <2> SUFFICES ASSUME Bad(v) PROVE FALSE
    OBVIOUS
  <2>1. v \in SUBSET S
    BY <1>3
  <2> HIDE DEF v, Bad
  <2>2. n - 1 \in Sizes
    BY <1>5, <1>6, <2>1
  <2>3. QED
    BY <1>2, <1>5, <2>2
<1>8. CASE v = {}
  BY <1>3, <1>4, <1>8
<1>9. CASE v # {}
  <2>1. PICK y : First(y, v)
    BY <1>5, <1>7, <1>9
  <2>2. CASE <<x, y>> \in R
    <3>1. \A z \in u : z = x \/ <<x, z>> \in R
      BY <1>4, <2>1, <2>2 DEF Orders
    <3>2. QED
      BY <1>3, <1>4, <3>1
  <2>3. CASE <<y, x>> \in R
    <3>1. \A z \in u : z = y \/ <<y, z>> \in R
      BY <1>4, <2>1, <2>3
    <3>2. QED
      BY <1>3, <2>1, <3>1
  <2>4. QED
    BY <1>4, <2>1, <2>2, <2>3 DEF Orders
<1>10. QED
  BY <1>8, <1>9

Ranks(s, S, R) ==
    /\ s \in [1 .. Cardinality(S) -> S]
    /\ \A i, j \in 1 .. Cardinality(S) : i < j => <<s[i], s[j]>> \in R

\* And it can be ranked: the first goes before a ranking of the others.
LEMMA RankingExists ==
    ASSUME NEW R, NEW S, IsFiniteSet(S), Orders(R, S)
    PROVE  \E s : Ranks(s, S, R)
<1> DEFINE Bad(u) == IsFiniteSet(u) /\ ~ \E s : Ranks(s, u, R)
           Sizes == {n \in Nat : \E u \in SUBSET S : Bad(u) /\ Cardinality(u) = n}
<1> SUFFICES ASSUME Bad(S) PROVE FALSE
  OBVIOUS
<1>1. Cardinality(S) \in Sizes
  BY FS_CardinalityType
<1>2. PICK n \in Sizes : \A m \in Sizes : n <= m
  BY <1>1, Least
<1>3. PICK u \in SUBSET S : Bad(u) /\ Cardinality(u) = n
  BY <1>2
<1>4. u # {}
  <2>1. SUFFICES ASSUME u = {} PROVE FALSE
    OBVIOUS
  <2>2. Cardinality(u) = 0
    BY <2>1, FS_EmptySet
  <2>3. Ranks(<<>>, u, R)
    BY <2>1, <2>2 DEF Ranks
  <2>4. QED
    BY <1>3, <2>3
<1>5. Orders(R, u)
  BY <1>3 DEF Orders
<1>6. PICK x \in u : \A y \in u : y = x \/ <<x, y>> \in R
  BY <1>3, <1>4, <1>5, FirstExists
<1> DEFINE v == u \ {x}
<1>7. IsFiniteSet(v) /\ Cardinality(v) = n - 1 /\ n \in Nat
  BY <1>3, <1>6, FS_RemoveElement
<1>8. n - 1 \in Nat
  BY <1>7, FS_CardinalityType
<1>9. ~Bad(v)
  BY <1>2, <1>7, <1>8
<1>10. PICK s : Ranks(s, v, R)
  BY <1>7, <1>9
<1> DEFINE r == [i \in 1 .. n |-> IF i = 1 THEN x ELSE s[i - 1]]
<1>11. ASSUME NEW i \in 1 .. n, i # 1 PROVE i - 1 \in 1 .. n - 1 /\ s[i - 1] \in v
  <2> HIDE DEF v
  <2>1. s \in [1 .. n - 1 -> v]
    BY <1>7, <1>10 DEF Ranks
  <2>2. i - 1 \in 1 .. n - 1
    BY <1>7, <1>11
  <2>3. QED
    BY <2>1, <2>2
<1>12. r \in [1 .. n -> u]
  BY <1>6, <1>11
<1>13. ASSUME NEW i \in 1 .. n, NEW j \in 1 .. n, i < j PROVE <<r[i], r[j]>> \in R
  <2>1. j # 1 /\ r[j] = s[j - 1] /\ j - 1 \in 1 .. n - 1 /\ s[j - 1] \in v
    BY <1>11, <1>13
  <2>2. CASE i = 1
    BY <1>6, <2>1, <2>2
  <2>3. CASE i # 1
    <3>1. r[i] = s[i - 1] /\ i - 1 \in 1 .. n - 1 /\ i - 1 < j - 1
      BY <1>11, <1>13, <2>3
    <3>2. QED
      BY <1>7, <1>10, <2>1, <3>1 DEF Ranks
  <2>4. QED
    BY <2>2, <2>3
<1>14. Ranks(r, u, R)
  BY <1>3, <1>12, <1>13 DEF Ranks
<1>15. QED
  BY <1>3, <1>14

\* A ranked set is listed in its order, each member once.
LEMMA RankedIs ==
    ASSUME NEW R, NEW S, IsFiniteSet(S), Orders(R, S)
    PROVE  /\ Cardinality(S) \in Nat /\ Ranked(S, R) \in [1 .. Cardinality(S) -> S]
           /\ \A i, j \in 1 .. Cardinality(S) : i < j => <<Ranked(S, R)[i], Ranked(S, R)[j]>> \in R
           /\ \A i, j \in 1 .. Cardinality(S) : i # j => Ranked(S, R)[i] # Ranked(S, R)[j]
           /\ \A x \in S : \E i \in 1 .. Cardinality(S) : Ranked(S, R)[i] = x
<1> DEFINE n == Cardinality(S)
           f == Ranked(S, R)
<1>1. n \in Nat
  BY FS_CardinalityType
<1>2. PICK s : Ranks(s, S, R)
  BY RankingExists
<1>3. f \in [1 .. n -> S] /\ \A i, j \in DOMAIN f : i < j => <<f[i], f[j]>> \in R
  <2>1. s \in [1 .. n -> S] /\ \A i, j \in DOMAIN s : i < j => <<s[i], s[j]>> \in R
    BY <1>2 DEF Ranks
  <2>2. QED
    BY <2>1 DEF Ranked
<1> HIDE DEF f
<1>4. ASSUME NEW i \in 1 .. n, NEW j \in 1 .. n, i # j PROVE f[i] # f[j]
  <2>1. i < j \/ j < i
    BY <1>1, <1>4
  <2>2. <<f[i], f[j]>> \in R \/ <<f[j], f[i]>> \in R
    BY <1>3, <2>1
  <2>3. f[i] \in S /\ f[j] \in S
    BY <1>3
  <2>4. QED
    BY <2>2, <2>3 DEF Orders
<1>5. f \in Injection(1 .. n, S)
  BY <1>3, <1>4 DEF Injection, IsInjective
<1>6. Cardinality(1 .. n) = n /\ IsFiniteSet(1 .. n)
  BY <1>1, FS_Interval
<1>7. f \in Surjection(1 .. n, S)
  <2> HIDE DEF n
  <2>1. n = Cardinality(S)
    BY DEF n
  <2>2. QED
    BY <1>5, <1>6, <2>1, FS_Injection
<1>8. QED
  BY <1>1, <1>3, <1>4, <1>7 DEF Surjection, f

-----------------------------------------------------------------------------
(* Sequences *)

LEMMA AscendingOrders ==
    ASSUME NEW S, S \subseteq Int
    PROVE  Orders(Ascending(S), S)
<1>1. \A x, y \in S : <<x, y>> \in Ascending(S) <=> x < y
  BY DEF Ascending
<1>2. QED
  BY <1>1 DEF Orders

\* What has the items of s at some places, and no others, with no place twice.
Holds(r, s, places) ==
    /\ \A i \in DOMAIN r : \E k \in places : r[i] = s[k]
    /\ \A k \in places : \E i \in DOMAIN r : r[i] = s[k]
    /\ \A i, j \in DOMAIN r : i # j => \E k, l \in places : k # l /\ r[i] = s[k] /\ r[j] = s[l]

LEMMA AtHolds ==
    ASSUME NEW T, NEW s \in Seq(T), NEW places, places \subseteq DOMAIN s
    PROVE  At(s, places) \in Seq(T) /\ Holds(At(s, places), s, places)
<1> DEFINE n == Cardinality(places)
           order == Ranked(places, Ascending(places))
<1>1. IsFiniteSet(places) /\ places \subseteq Int
  <2>1. DOMAIN s = 1 .. Len(s) /\ Len(s) \in Nat
    OBVIOUS
  <2>2. IsFiniteSet(1 .. Len(s))
    BY <2>1, FS_Interval
  <2>3. QED
    BY <2>1, <2>2, FS_Subset
<1>2. /\ n \in Nat /\ order \in [1 .. n -> places]
      /\ \A i, j \in 1 .. n : i # j => order[i] # order[j]
      /\ \A x \in places : \E i \in 1 .. n : order[i] = x
  BY <1>1, AscendingOrders, RankedIs
<1>3. At(s, places) = [i \in 1 .. n |-> s[order[i]]]
  BY DEF At
<1> HIDE DEF n, order
<1>4. \A i \in 1 .. n : order[i] \in places /\ s[order[i]] \in T
  BY <1>2
<1>5. At(s, places) \in Seq(T)
  BY <1>2, <1>3, <1>4
<1>6. Holds(At(s, places), s, places)
  BY <1>2, <1>3, <1>4 DEF Holds
<1>7. QED
  BY <1>5, <1>6

\* Records that can be sorted.
Sortable(r) == r.left \in Int \cup {None} /\ r.status \in {"active", "expired"}

LEMMA BeforeOrders ==
    ASSUME NEW r, NEW s, NEW t, Sortable(r), Sortable(s), Sortable(t)
    PROVE  /\ ~Before(r, r)
           /\ Before(r, s) => ~Before(s, r)
           /\ ~Before(r, s) /\ ~Before(s, t) => ~Before(r, t)
  BY NoneAssumption DEF Before, Sortable

LEMMA InOrderOrders ==
    ASSUME NEW records, DOMAIN records \subseteq Int,
           \A i \in DOMAIN records : Sortable(records[i])
    PROVE  Orders(InOrder(records), DOMAIN records)
<1> DEFINE B(i, j) == Before(records[i], records[j])
<1>1. \A i, j \in DOMAIN records :
          <<i, j>> \in InOrder(records) <=> B(i, j) \/ (~B(j, i) /\ i < j)
  BY DEF InOrder
<1>2. \A i, j, k \in DOMAIN records :
          ~B(i, i) /\ (B(i, j) => ~B(j, i)) /\ (~B(i, j) /\ ~B(j, k) => ~B(i, k))
  BY BeforeOrders
<1> HIDE DEF B
<1>3. ASSUME NEW i \in DOMAIN records, NEW j \in DOMAIN records
      PROVE  /\ i = j \/ <<i, j>> \in InOrder(records) \/ <<j, i>> \in InOrder(records)
             /\ <<i, j>> \in InOrder(records) => <<j, i>> \notin InOrder(records)
  BY <1>1, <1>2
<1>4. ASSUME NEW i \in DOMAIN records, NEW j \in DOMAIN records, NEW k \in DOMAIN records,
             <<i, j>> \in InOrder(records), <<j, k>> \in InOrder(records)
      PROVE  <<i, k>> \in InOrder(records)
  <2>1. ~B(j, i) /\ ~B(k, j) /\ (B(i, j) \/ i < j) /\ (B(j, k) \/ j < k)
    BY <1>1, <1>2, <1>4
  <2>2. ~B(k, i)
    BY <1>2, <2>1
  <2>3. B(i, j) => B(i, k)
    BY <1>2, <2>1
  <2>4. B(j, k) => B(i, k)
    BY <1>2, <2>1
  <2>5. QED
    BY <1>1, <2>1, <2>2, <2>3, <2>4
<1>5. QED
  BY <1>3, <1>4 DEF Orders

LEMMA SortedHolds ==
    ASSUME NEW T, NEW records \in Seq(T),
           \A i \in DOMAIN records : Sortable(records[i])
    PROVE  /\ Sorted(records) \in Seq(T)
           /\ Holds(Sorted(records), records, DOMAIN records)
           /\ \A i, j \in DOMAIN Sorted(records) :
                 i < j => ~Before(Sorted(records)[j], Sorted(records)[i])
<1> DEFINE order == Ranked(DOMAIN records, InOrder(records))
           n == Len(records)
<1>1. DOMAIN records = 1 .. n /\ n \in Nat
  OBVIOUS
<1>2. IsFiniteSet(DOMAIN records) /\ Cardinality(DOMAIN records) = n
  BY <1>1, FS_Interval
<1>3. Orders(InOrder(records), DOMAIN records)
  BY <1>1, InOrderOrders
<1>4. /\ order \in [1 .. n -> 1 .. n]
      /\ \A i, j \in 1 .. n : i < j => <<order[i], order[j]>> \in InOrder(records)
      /\ \A i, j \in 1 .. n : i # j => order[i] # order[j]
      /\ \A x \in 1 .. n : \E i \in 1 .. n : order[i] = x
  <2>1. /\ order \in [1 .. Cardinality(DOMAIN records) -> DOMAIN records]
        /\ \A i, j \in 1 .. Cardinality(DOMAIN records) :
              i < j => <<order[i], order[j]>> \in InOrder(records)
        /\ \A i, j \in 1 .. Cardinality(DOMAIN records) : i # j => order[i] # order[j]
        /\ \A x \in DOMAIN records : \E i \in 1 .. Cardinality(DOMAIN records) : order[i] = x
    BY <1>2, <1>3, RankedIs
  <2> HIDE DEF order
  <2>2. QED
    BY <1>1, <1>2, <2>1
<1>5. Sorted(records) = [i \in 1 .. n |-> records[order[i]]]
  BY <1>1 DEF Sorted
<1> HIDE DEF order
<1>6. Sorted(records) \in Seq(T)
  BY <1>1, <1>4, <1>5
<1>7. Holds(Sorted(records), records, DOMAIN records)
  <2> HIDE DEF n
  <2>1. /\ DOMAIN Sorted(records) = 1 .. n /\ DOMAIN records = 1 .. n
        /\ \A i \in 1 .. n : order[i] \in 1 .. n /\ Sorted(records)[i] = records[order[i]]
    BY <1>1, <1>4, <1>5
  <2>2. QED
    BY <1>4, <2>1 DEF Holds
<1>8. ASSUME NEW i \in 1 .. n, NEW j \in 1 .. n, i < j
      PROVE  ~Before(Sorted(records)[j], Sorted(records)[i])
  <2>1. order[i] \in DOMAIN records /\ order[j] \in DOMAIN records
        /\ <<order[i], order[j]>> \in InOrder(records)
    BY <1>1, <1>4, <1>8
  <2>2. \/ Before(records[order[i]], records[order[j]])
        \/ ~Before(records[order[j]], records[order[i]])
    BY <2>1 DEF InOrder
  <2>3. ~Before(records[order[j]], records[order[i]])
    BY <2>1, <2>2, BeforeOrders
  <2>4. QED
    BY <1>5, <2>3
<1>9. QED
  BY <1>5, <1>6, <1>7, <1>8

-----------------------------------------------------------------------------
(* Alerts by address *)

Time == Int \cup {None}
Issued == [value : Targets, origin : Origins, told : BOOLEAN, created : Time, until : Int]
Cached == [no : Nat, value : Targets, origin : Origins, created : Time, left : Time]
Infos == [Targets -> [created : Time, alerts : Nat]]

EachOnce(cached) == \A i, j \in DOMAIN cached : i # j => cached[i].no # cached[j].no

\* The recursion of SourceIndex up to an alert, as an equation.
Indexes(f, cached, m) ==
    f = [n \in 0 .. m |->
            IF n = 0 THEN [v \in Targets |-> NoInfo] ELSE WithAlert(f[n - 1], cached[n])]

\* It has a solution: otherwise take the least number of alerts for which it has none.
LEMMA IndexExists ==
    ASSUME NEW cached \in Seq(Cached)
    PROVE  \E f : Indexes(f, cached, Len(cached)) /\ SourceIndex(cached) = f[Len(cached)]
<1> DEFINE Bad == {m \in Nat : ~ \E f : Indexes(f, cached, m)}
           start == [v \in Targets |-> NoInfo]
<1>1. Bad = {}
  <2> SUFFICES ASSUME Bad # {} PROVE FALSE
    OBVIOUS
  <2>1. PICK m \in Bad : \A k \in Bad : m <= k
    BY Least
  <2>2. CASE m = 0
    <3> DEFINE f == [n \in 0 .. 0 |-> start]
    <3>1. Indexes(f, cached, 0)
      BY DEF Indexes
    <3>2. QED
      BY <2>2, <3>1
  <2>3. CASE m # 0
    <3>1. m - 1 \in Nat /\ m - 1 \notin Bad
      BY <2>1, <2>3
    <3>2. PICK f : Indexes(f, cached, m - 1)
      BY <3>1
    <3> DEFINE g == [n \in 0 .. m |-> IF n = m THEN WithAlert(f[m - 1], cached[m]) ELSE f[n]]
    <3>3. \A n \in 0 .. m : g[n] = IF n = 0 THEN start ELSE WithAlert(g[n - 1], cached[n])
      <4>1. SUFFICES ASSUME NEW n \in 0 .. m
                     PROVE  g[n] = IF n = 0 THEN start ELSE WithAlert(g[n - 1], cached[n])
        OBVIOUS
      <4>2. CASE n = m
        BY <2>3, <3>1, <4>2
      <4>3. CASE n # m
        <5>1. n \in 0 .. m - 1 /\ (n # 0 => n - 1 \in 0 .. m /\ n - 1 # m)
          BY <3>1, <4>3
        <5>2. f[n] = IF n = 0 THEN start ELSE WithAlert(f[n - 1], cached[n])
          BY <3>2, <5>1 DEF Indexes
        <5>3. QED
          BY <4>3, <5>1, <5>2
      <4>4. QED
        BY <4>2, <4>3
    <3>4. g = [n \in 0 .. m |-> IF n = 0 THEN start ELSE WithAlert(g[n - 1], cached[n])]
      <4> HIDE DEF start
      <4>1. QED
        BY <3>3
    <3> HIDE DEF g
    <3>5. Indexes(g, cached, m)
      BY <3>4 DEF Indexes
    <3>6. QED
      BY <3>5
  <2>4. QED
    BY <2>2, <2>3
<1>2. \E f : Indexes(f, cached, Len(cached))
  <2>1. Len(cached) \in Nat
    OBVIOUS
  <2>2. Len(cached) \notin Bad
    BY <1>1
  <2>3. QED
    BY <2>1, <2>2
<1>3. SourceIndex(cached) = (CHOOSE f : Indexes(f, cached, Len(cached)))[Len(cached)]
  BY DEF SourceIndex, Indexes
<1>4. QED
  BY <1>2, <1>3

\* What the first n alerts say of an address.
Mine(cached, n, v) == {j \in 1 .. n : cached[j].value = v}
Dated(cached, n, v) == {cached[j].created : j \in Mine(cached, n, v)} \ {None}
Nos(cached, n, v) == {cached[j].no : j \in Mine(cached, n, v)}

Summary(info, cached, n, v) ==
    /\ IF Dated(cached, n, v) = {} THEN info.created = None
       ELSE info.created \in Dated(cached, n, v)
            /\ \A c \in Dated(cached, n, v) : c <= info.created
    /\ IsFiniteSet(Nos(cached, n, v)) /\ info.alerts = Cardinality(Nos(cached, n, v))

\* Another alert keeps the index a summary.
LEMMA AlertSummed ==
    ASSUME NEW cached \in Seq(Cached), EachOnce(cached), NEW n \in 1 .. Len(cached),
           NEW index \in Infos, \A v \in Targets : Summary(index[v], cached, n - 1, v)
    PROVE  /\ WithAlert(index, cached[n]) \in Infos
           /\ \A v \in Targets : Summary(WithAlert(index, cached[n])[v], cached, n, v)
<1> DEFINE a == cached[n]
           old == index[a.value]
           info == [created |-> IF Newer(a.created, old) THEN a.created ELSE old.created,
                    alerts |-> old.alerts + 1]
<1>1. a \in Cached /\ n \in Nat /\ n - 1 \in Nat /\ 1 .. n = (1 .. n - 1) \cup {n}
      /\ n \notin 1 .. n - 1
  OBVIOUS
<1>2. old \in [created : Time, alerts : Nat] /\ a.value \in Targets /\ a.created \in Time
  BY <1>1 DEF Cached, Infos
<1>3. info \in [created : Time, alerts : Nat]
  BY <1>2
<1>4. WithAlert(index, a) = [index EXCEPT ![a.value] = info]
  BY DEF WithAlert
<1>5. \A v \in Targets : v # a.value => Mine(cached, n, v) = Mine(cached, n - 1, v)
  BY <1>1 DEF Mine
<1>6. Mine(cached, n, a.value) = Mine(cached, n - 1, a.value) \cup {n}
  BY <1>1 DEF Mine
<1>7. \A v \in Targets : v # a.value => Summary(index[v], cached, n, v)
  BY <1>5 DEF Summary, Dated, Nos
<1>8. Summary(info, cached, n, a.value)
  <2> DEFINE old_dated == Dated(cached, n - 1, a.value)
             old_nos == Nos(cached, n - 1, a.value)
  <2>1. Dated(cached, n, a.value) = (old_dated \cup {a.created}) \ {None}
    BY <1>6 DEF Dated
  <2>2. Nos(cached, n, a.value) = old_nos \cup {a.no}
    BY <1>6 DEF Nos
  <2>3. a.no \notin old_nos
    BY <1>1 DEF Nos, Mine, EachOnce
  <2>4. old_dated \subseteq Int
    <3>1. \A j \in 1 .. n - 1 : j \in 1 .. Len(cached) /\ cached[j] \in Cached
      BY <1>1
    <3>2. \A j \in 1 .. n - 1 : cached[j].created \in Time
      BY <3>1 DEF Cached
    <3>3. QED
      BY <3>2 DEF Dated, Mine, Time
  <2>5. Summary(old, cached, n - 1, a.value)
    BY <1>2
  <2>6. IsFiniteSet(old_nos) /\ old.alerts = Cardinality(old_nos)
    BY <2>5 DEF Summary
  <2>7. IsFiniteSet(old_nos \cup {a.no}) /\ Cardinality(old_nos \cup {a.no}) = Cardinality(old_nos) + 1
    BY <2>3, <2>6, FS_AddElement
  <2>8. IF old_dated = {} THEN old.created = None
        ELSE old.created \in old_dated /\ \A c \in old_dated : c <= old.created
    BY <2>5 DEF Summary
  <2> HIDE DEF old_dated, old_nos, a, old
  <2>9. IF (old_dated \cup {a.created}) \ {None} = {} THEN info.created = None
        ELSE /\ info.created \in (old_dated \cup {a.created}) \ {None}
             /\ \A c \in (old_dated \cup {a.created}) \ {None} : c <= info.created
    <3>1. CASE a.created = None
      <4>1. info.created = old.created /\ (old_dated \cup {a.created}) \ {None} = old_dated
        BY <2>4, <3>1, NoneAssumption DEF Newer
      <4>2. QED
        BY <2>8, <4>1
    <3>2. CASE a.created # None /\ old_dated = {}
      BY <1>2, <2>8, <3>2 DEF Newer, Time
    <3>3. CASE a.created # None /\ old_dated # {}
      <4>1. old.created \in Int /\ a.created \in Int /\ old.created # None
        BY <1>2, <2>4, <2>8, <3>3, NoneAssumption DEF Time
      <4>2. CASE a.created > old.created
        <5>1. info.created = a.created
          BY <3>3, <4>1, <4>2 DEF Newer
        <5>2. \A c \in old_dated : c <= a.created
          <6>1. \A c \in old_dated : c \in Int /\ c <= old.created
            BY <2>4, <2>8, <3>3
          <6>2. QED
            BY <4>1, <4>2, <6>1
        <5> HIDE DEF info
        <5>3. a.created \in (old_dated \cup {a.created}) \ {None} /\ a.created <= a.created
          BY <3>3, <4>1
        <5>4. QED
          BY <5>1, <5>2, <5>3
      <4>3. CASE ~(a.created > old.created)
        <5>1. info.created = old.created
          BY <3>3, <4>1, <4>3 DEF Newer
        <5>2. QED
          BY <2>8, <3>3, <4>1, <4>3, <5>1
      <4>4. QED
        BY <4>2, <4>3
    <3>4. QED
      BY <3>1, <3>2, <3>3
  <2>10. info.alerts = Cardinality(old_nos) + 1
    BY <2>6
  <2>11. QED
    BY <2>1, <2>2, <2>7, <2>9, <2>10 DEF Summary, a
<1> HIDE DEF a, info
<1>9. WithAlert(index, a) \in Infos
  BY <1>2, <1>3, <1>4 DEF Infos
<1>10. \A v \in Targets : Summary(WithAlert(index, a)[v], cached, n, v)
  BY <1>2, <1>4, <1>7, <1>8 DEF Infos
<1>11. QED
  BY <1>9, <1>10 DEF a

\* The index is the summary of all alerts.
LEMMA IndexIs ==
    ASSUME NEW cached \in Seq(Cached), EachOnce(cached)
    PROVE  /\ SourceIndex(cached) \in Infos
           /\ \A v \in Targets : Summary(SourceIndex(cached)[v], cached, Len(cached), v)
<1>1. PICK f : Indexes(f, cached, Len(cached)) /\ SourceIndex(cached) = f[Len(cached)]
  BY IndexExists
<1> DEFINE Good(n) == f[n] \in Infos /\ \A v \in Targets : Summary(f[n][v], cached, n, v)
           Bad == {n \in 0 .. Len(cached) : ~Good(n)}
<1>2. Len(cached) \in Nat
  OBVIOUS
<1>3. Good(0)
  <2>1. f[0] = [v \in Targets |-> NoInfo]
    BY <1>1, <1>2 DEF Indexes
  <2>2. f[0] \in Infos
    BY <2>1 DEF Infos, NoInfo, Time
  <2>3. ASSUME NEW v \in Targets PROVE Summary(NoInfo, cached, 0, v)
    <3>1. Mine(cached, 0, v) = {}
      BY DEF Mine
    <3>2. Dated(cached, 0, v) = {} /\ Nos(cached, 0, v) = {}
      BY <3>1 DEF Dated, Nos
    <3>3. QED
      BY <3>2, FS_EmptySet DEF Summary, NoInfo
  <2>4. QED
    BY <2>1, <2>2, <2>3
<1>4. ASSUME NEW n \in 1 .. Len(cached), Good(n - 1) PROVE Good(n)
  <2>1. f[n] = WithAlert(f[n - 1], cached[n])
    BY <1>1, <1>2 DEF Indexes
  <2>2. f[n - 1] \in Infos /\ \A v \in Targets : Summary(f[n - 1][v], cached, n - 1, v)
    BY <1>4
  <2>3. QED
    BY <2>1, <2>2, AlertSummed
<1> HIDE DEF Good
<1>5. Bad = {}
  <2> SUFFICES ASSUME Bad # {} PROVE FALSE
    OBVIOUS
  <2>1. PICK n \in Bad : \A m \in Bad : n <= m
    <3>1. Bad \subseteq Nat
      BY <1>2
    <3>2. QED
      BY <3>1, Least
  <2>2. n # 0 /\ n \in 1 .. Len(cached) /\ n - 1 \in 0 .. Len(cached) /\ n - 1 \notin Bad
    BY <1>2, <1>3, <2>1
  <2>3. QED
    BY <1>4, <2>1, <2>2
<1>6. Good(Len(cached))
  BY <1>2, <1>5
<1>7. QED
  BY <1>1, <1>6 DEF Good

-----------------------------------------------------------------------------
(* The rows of a table *)

Listings == [id : Nat, value : Targets, origin : Origins, left : Time]
RowKeys == ({"id"} \X Nat) \cup ({"hist"} \X Targets \X Time)
Row == [key : RowKeys, value : Targets, origin : Origins, left : Time,
        status : {"active", "expired"}, deletable : BOOLEAN, created : Time, alerts : Nat]

DistinctKeys(r) == \A i, j \in DOMAIN r : i # j => r[i].key # r[j].key

\* Rows taken at places with different keys have different keys.
LEMMA HoldsKeys ==
    ASSUME NEW r, NEW s, NEW places, Holds(r, s, places), places \subseteq DOMAIN s,
           DistinctKeys(s)
    PROVE  DistinctKeys(r)
<1> SUFFICES ASSUME NEW i \in DOMAIN r, NEW j \in DOMAIN r, i # j
             PROVE  r[i].key # r[j].key
  BY DEF DistinctKeys
<1>1. PICK k \in places, l \in places : k # l /\ r[i] = s[k] /\ r[j] = s[l]
  BY DEF Holds
<1>2. s[k].key # s[l].key
  BY <1>1 DEF DistinctKeys
<1>3. QED
  BY <1>1, <1>2

LEMMA RecordIs ==
    ASSUME NEW index \in Infos, NEW d \in Listings
    PROVE  /\ Record(index, d) \in Row /\ Record(index, d).key = <<"id", d.id>>
           /\ Record(index, d).value = d.value /\ Record(index, d).origin = d.origin
           /\ Record(index, d).created = index[d.value].created
           /\ Record(index, d).alerts = index[d.value].alerts
<1>1. d.id \in Nat /\ d.value \in Targets /\ d.origin \in Origins /\ d.left \in Time
  BY DEF Listings
<1>2. index[d.value] \in [created : Time, alerts : Nat]
  BY <1>1 DEF Infos
<1>3. <<"id", d.id>> \in RowKeys
  BY <1>1 DEF RowKeys
<1>4. Status(d.left) \in {"active", "expired"}
  BY DEF Status
<1>5. QED
  BY <1>1, <1>2, <1>3, <1>4 DEF Record, Row

LEMMA HistoryRowIs ==
    ASSUME now \in Int, NEW a \in Cached
    PROVE  /\ HistoryRow(a) \in Row /\ HistoryRow(a).key = <<"hist", a.value, a.created>>
           /\ HistoryRow(a).value = a.value /\ HistoryRow(a).origin = a.origin
<1>1. a.value \in Targets /\ a.origin \in Origins /\ a.created \in Time /\ a.left \in Time
  BY DEF Cached
<1>2. <<"hist", a.value, a.created>> \in RowKeys
  BY <1>1 DEF RowKeys
<1>3. Until(a) \in Time
  BY <1>1 DEF Until, Time
<1>4. (IF Until(a) = None THEN None ELSE Until(a) - now) \in Time
  BY <1>3 DEF Time
<1>5. QED
  BY <1>1, <1>2, <1>4 DEF HistoryRow, Row

\* The rows of the list: one for each local decision.
LEMMA ActiveIs ==
    ASSUME NEW raw \in Seq(Listings), NEW index \in Infos,
           \A i, j \in DOMAIN raw : i # j => raw[i].id # raw[j].id
    PROVE  LET active == Local(Records(raw, index))
           IN  /\ active \in Seq(Row) /\ DistinctKeys(active)
               /\ \A i \in DOMAIN active :
                     \E k \in DOMAIN raw : active[i] = Record(index, raw[k])
               /\ \A k \in DOMAIN raw :
                     raw[k].origin = "local" => raw[k].value \in Values(active)
<1> DEFINE records == Records(raw, index)
           places == {i \in DOMAIN records : records[i].origin = "local"}
           active == Local(records)
<1>1. \A k \in DOMAIN raw : raw[k] \in Listings
  OBVIOUS
<1>2. DOMAIN records = DOMAIN raw
      /\ \A k \in DOMAIN raw :
            /\ records[k] = Record(index, raw[k]) /\ records[k] \in Row
            /\ records[k].key = <<"id", raw[k].id>>
            /\ records[k].value = raw[k].value
            /\ records[k].origin = raw[k].origin
  BY <1>1, RecordIs DEF Records
<1>3. records \in Seq(Row)
  BY <1>2 DEF Records
<1>4. DistinctKeys(records)
  <2>1. ASSUME NEW i \in DOMAIN raw, NEW j \in DOMAIN raw,
               records[i].key = records[j].key
        PROVE  raw[i].id = raw[j].id
    BY <1>2, <2>1
  <2> HIDE DEF records
  <2>2. QED
    BY <1>2, <2>1 DEF DistinctKeys
<1> HIDE DEF records
<1>5. places \subseteq DOMAIN records
  OBVIOUS
<1>6. active \in Seq(Row) /\ Holds(active, records, places)
  <2>1. active = At(records, places)
    BY DEF Local
  <2> HIDE DEF active, places
  <2>2. QED
    BY <1>3, <1>5, <2>1, AtHolds
<1> HIDE DEF active, places
<1>7. DistinctKeys(active)
  BY <1>4, <1>5, <1>6, HoldsKeys
<1>8. ASSUME NEW k \in DOMAIN raw, raw[k].origin = "local"
      PROVE  raw[k].value \in Values(active)
  <2>1. k \in places
    BY <1>2, <1>8 DEF places
  <2>2. PICK i \in DOMAIN active : active[i] = records[k]
    BY <1>6, <2>1 DEF Holds
  <2>3. QED
    BY <1>2, <2>2 DEF Values
<1>9. \A i \in DOMAIN active : \E k \in DOMAIN raw : active[i] = Record(index, raw[k])
  BY <1>2, <1>5, <1>6 DEF Holds
<1>10. QED
  BY <1>6, <1>7, <1>8, <1>9 DEF active, records

\* The rows of the history: one for each key that a ban which is over has.
LEMMA HistoryIs ==
    ASSUME now \in Int, NEW cached \in Seq(Cached), NEW covered
    PROVE  LET history == Local(History(cached, covered))
           IN  /\ history \in Seq(Row) /\ DistinctKeys(history)
               /\ \A i \in DOMAIN history :
                     \E k \in DOMAIN cached : history[i] = HistoryRow(cached[k])
               /\ \A k \in DOMAIN cached : Over(cached[k], covered) =>
                     \/ cached[k].value \in Values(history)
                     \/ \E l \in DOMAIN cached :
                           /\ cached[l].origin = "central"
                           /\ HistoryRow(cached[l]).key = HistoryRow(cached[k]).key
<1> DEFINE over == {i \in DOMAIN cached : Over(cached[i], covered)}
           key(i) == HistoryRow(cached[i]).key
           first == {i \in over : \A j \in over : key(j) = key(i) => i <= j}
           all == [i \in DOMAIN cached |-> HistoryRow(cached[i])]
           kept == History(cached, covered)
           places == {i \in DOMAIN kept : kept[i].origin = "local"}
           history == Local(kept)
<1>1. /\ DOMAIN cached = 1 .. Len(cached) /\ Len(cached) \in Nat
      /\ \A k \in DOMAIN cached : cached[k] \in Cached
  OBVIOUS
<1>2. \A k \in DOMAIN cached :
          /\ all[k] = HistoryRow(cached[k]) /\ all[k] \in Row
          /\ all[k].key = <<"hist", cached[k].value, cached[k].created>>
          /\ all[k].value = cached[k].value /\ all[k].origin = cached[k].origin
  BY <1>1, HistoryRowIs
<1>3. all \in Seq(Row) /\ DOMAIN all = DOMAIN cached
  BY <1>1, <1>2
<1>4. first \subseteq DOMAIN all
  BY <1>3
<1>5. kept = At(all, first)
  BY DEF History
<1> HIDE DEF all, kept, first, over
<1>6. kept \in Seq(Row) /\ Holds(kept, all, first)
  BY <1>3, <1>4, <1>5, AtHolds
<1>7. history \in Seq(Row) /\ Holds(history, kept, places)
  <2>1. places \subseteq DOMAIN kept /\ history = At(kept, places)
    BY DEF Local
  <2> HIDE DEF places, history
  <2>2. QED
    BY <1>6, <2>1, AtHolds
<1>8. DistinctKeys(kept)
  <2>1. ASSUME NEW k \in first, NEW l \in first, k # l PROVE all[k].key # all[l].key
    <3>1. k \in over /\ l \in over /\ k \in DOMAIN cached /\ l \in DOMAIN cached
      BY <1>3, <1>4 DEF first
    <3>2. key(k) # key(l)
      <4>1. SUFFICES ASSUME key(k) = key(l) PROVE FALSE
        OBVIOUS
      <4>2. k <= l /\ l <= k
        BY <3>1, <4>1 DEF first
      <4>3. QED
        BY <1>1, <2>1, <3>1, <4>2
    <3>3. all[k].key = key(k) /\ all[l].key = key(l)
      BY <1>2, <3>1
    <3>4. QED
      BY <3>2, <3>3
  <2>2. SUFFICES ASSUME NEW i \in DOMAIN kept, NEW j \in DOMAIN kept, i # j
                 PROVE  kept[i].key # kept[j].key
    BY DEF DistinctKeys
  <2>3. PICK k \in first, l \in first : k # l /\ kept[i] = all[k] /\ kept[j] = all[l]
    BY <1>6, <2>2 DEF Holds
  <2>4. QED
    BY <2>1, <2>3
<1>9. DistinctKeys(history)
  <2>1. places \subseteq DOMAIN kept
    OBVIOUS
  <2> HIDE DEF places, history
  <2>2. QED
    BY <1>7, <1>8, <2>1, HoldsKeys
<1>10. \A i \in DOMAIN history : \E k \in DOMAIN cached : history[i] = HistoryRow(cached[k])
  <2>1. \A i \in DOMAIN kept : \E k \in DOMAIN cached : kept[i] = HistoryRow(cached[k])
    BY <1>2, <1>3, <1>4, <1>6 DEF Holds
  <2> HIDE DEF history
  <2>2. QED
    BY <1>7, <2>1 DEF Holds
<1>11. ASSUME NEW k \in DOMAIN cached, Over(cached[k], covered)
       PROVE  \/ cached[k].value \in Values(history)
              \/ \E l \in DOMAIN cached : cached[l].origin = "central" /\ key(l) = key(k)
  <2> DEFINE same == {l \in over : key(l) = key(k)}
  <2>1. k \in same /\ same \subseteq Nat /\ same \subseteq DOMAIN cached
    BY <1>1, <1>11 DEF over
  <2>2. PICK l \in same : \A m \in same : l <= m
    BY <2>1, Least
  <2>3. l \in DOMAIN cached /\ key(l) = key(k) /\ l \in first
    BY <2>1, <2>2 DEF first
  <2>4. cached[l].value = cached[k].value
    BY <1>2, <2>3
  <2>5. CASE cached[l].origin = "central"
    BY <2>3, <2>5
  <2>6. CASE cached[l].origin # "central"
    <3>1. cached[l].origin = "local"
      BY <1>1, <2>3, <2>6 DEF Cached, Origins
    <3>2. PICK i \in DOMAIN kept : kept[i] = all[l]
      BY <1>6, <2>3 DEF Holds
    <3>3. i \in places
      BY <1>2, <2>3, <3>1, <3>2
    <3> HIDE DEF places, history
    <3>4. PICK j \in DOMAIN history : history[j] = kept[i]
      BY <1>7, <3>3 DEF Holds
    <3>5. history[j].value = cached[k].value
      BY <1>2, <2>3, <2>4, <3>2, <3>4
    <3>6. QED
      BY <3>4, <3>5 DEF Values
  <2>7. QED
    BY <2>5, <2>6
<1>12. QED
  BY <1>7, <1>9, <1>10, <1>11 DEF kept

\* The table: in order, no key twice, all that is listed and all that is over.
LEMMA TableIs ==
    ASSUME now \in Int, NEW raw \in Seq(Listings), NEW cached \in Seq(Cached),
           EachOnce(cached),
           \A i, j \in DOMAIN raw : i # j => raw[i].id # raw[j].id
    PROVE  LET r == BuildTable(raw, cached)
           IN  /\ r \in Seq(Row) /\ DistinctKeys(r)
               /\ \A i, j \in DOMAIN r : i < j => ~Before(r[j], r[i])
               /\ \A i \in DOMAIN r :
                     \/ \E k \in DOMAIN raw : r[i] = Record(SourceIndex(cached), raw[k])
                     \/ \E k \in DOMAIN cached : r[i] = HistoryRow(cached[k])
               /\ \A k \in DOMAIN raw :
                     raw[k].origin = "local" => raw[k].value \in Values(r)
               /\ \A k \in DOMAIN cached :
                     \/ cached[k].value \in Values(r)
                     \/ Until(cached[k]) # None /\ ~(Until(cached[k]) <= now)
                     \/ \E l \in DOMAIN cached :
                           /\ cached[l].origin = "central"
                           /\ HistoryRow(cached[l]).key = HistoryRow(cached[k]).key
<1> DEFINE index == SourceIndex(cached)
           active == Local(Records(raw, index))
           history == Local(History(cached, Values(active)))
           both == active \o history
           r == BuildTable(raw, cached)
<1>1. index \in Infos
  BY IndexIs
<1>2. /\ active \in Seq(Row) /\ DistinctKeys(active)
      /\ \A i \in DOMAIN active :
            \E k \in DOMAIN raw : active[i] = Record(index, raw[k])
      /\ \A k \in DOMAIN raw :
            raw[k].origin = "local" => raw[k].value \in Values(active)
  <2> HIDE DEF index
  <2>1. QED
    BY <1>1, ActiveIs
<1>3. /\ history \in Seq(Row) /\ DistinctKeys(history)
      /\ \A i \in DOMAIN history :
            \E k \in DOMAIN cached : history[i] = HistoryRow(cached[k])
      /\ \A k \in DOMAIN cached : Over(cached[k], Values(active)) =>
            \/ cached[k].value \in Values(history)
            \/ \E l \in DOMAIN cached :
                  /\ cached[l].origin = "central"
                  /\ HistoryRow(cached[l]).key = HistoryRow(cached[k]).key
  <2> HIDE DEF active
  <2>1. QED
    BY HistoryIs
<1>4. r = Sorted(both)
  BY DEF BuildTable
<1> HIDE DEF index, active, history, r
<1>5. /\ both \in Seq(Row) /\ Len(both) = Len(active) + Len(history)
      /\ Len(active) \in Nat /\ Len(history) \in Nat
      /\ DOMAIN active = 1 .. Len(active) /\ DOMAIN history = 1 .. Len(history)
      /\ DOMAIN both = 1 .. Len(active) + Len(history)
  BY <1>2, <1>3
<1>6. /\ \A i \in DOMAIN active : i \in DOMAIN both /\ both[i] = active[i]
      /\ \A i \in DOMAIN history : Len(active) + i \in DOMAIN both
                                   /\ both[Len(active) + i] = history[i]
  BY <1>2, <1>3, <1>5
<1>7. \A i \in DOMAIN both :
          \/ i \in DOMAIN active /\ both[i] = active[i]
          \/ i \notin DOMAIN active /\ i - Len(active) \in DOMAIN history
             /\ both[i] = history[i - Len(active)]
  BY <1>2, <1>3, <1>5
<1> HIDE DEF both
<1>8. \A i \in DOMAIN active, j \in DOMAIN history : active[i].key # history[j].key
  <2>1. SUFFICES ASSUME NEW i \in DOMAIN active, NEW j \in DOMAIN history
                 PROVE  active[i].key # history[j].key
    OBVIOUS
  <2>2. PICK k \in DOMAIN raw : active[i] = Record(index, raw[k])
    BY <1>2
  <2>3. PICK l \in DOMAIN cached : history[j] = HistoryRow(cached[l])
    BY <1>3
  <2>4. active[i].key[1] = "id"
    BY <1>1, <2>2, RecordIs
  <2>5. history[j].key[1] = "hist"
    BY <2>3, HistoryRowIs
  <2>6. QED
    BY <2>4, <2>5
<1>9. DistinctKeys(both)
  <2>1. SUFFICES ASSUME NEW i \in DOMAIN both, NEW j \in DOMAIN both, i # j
                 PROVE  both[i].key # both[j].key
    BY DEF DistinctKeys
  <2>2. CASE i \in DOMAIN active /\ j \in DOMAIN active
    BY <1>2, <1>6, <2>1, <2>2 DEF DistinctKeys
  <2>3. CASE i \notin DOMAIN active /\ j \notin DOMAIN active
    <3>1. i - Len(active) # j - Len(active)
      BY <1>5, <2>1
    <3>2. QED
      BY <1>3, <1>7, <2>3, <3>1 DEF DistinctKeys
  <2>4. CASE i \in DOMAIN active /\ j \notin DOMAIN active
    BY <1>7, <1>8, <2>4
  <2>5. CASE i \notin DOMAIN active /\ j \in DOMAIN active
    BY <1>7, <1>8, <2>5
  <2>6. QED
    BY <2>2, <2>3, <2>4, <2>5
<1>10. \A i \in DOMAIN both : Sortable(both[i])
  <2>1. \A i \in DOMAIN both : both[i] \in Row
    BY <1>5
  <2>2. QED
    BY <2>1 DEF Row, Sortable, Time
<1>11. /\ r \in Seq(Row) /\ Holds(r, both, DOMAIN both)
       /\ \A i, j \in DOMAIN r : i < j => ~Before(r[j], r[i])
  BY <1>4, <1>5, <1>10, SortedHolds
<1>12. DistinctKeys(r)
  BY <1>9, <1>11, HoldsKeys
<1>13. \A i \in DOMAIN r :
           \/ \E k \in DOMAIN raw : r[i] = Record(index, raw[k])
           \/ \E k \in DOMAIN cached : r[i] = HistoryRow(cached[k])
  <2>1. \A i \in DOMAIN both :
            \/ \E k \in DOMAIN raw : both[i] = Record(index, raw[k])
            \/ \E k \in DOMAIN cached : both[i] = HistoryRow(cached[k])
    BY <1>2, <1>3, <1>7
  <2>2. \A i \in DOMAIN r : \E l \in DOMAIN both : r[i] = both[l]
    BY <1>11 DEF Holds
  <2>3. QED
    BY <2>1, <2>2
<1>14. Values(active) \subseteq Values(r) /\ Values(history) \subseteq Values(r)
  <2>1. Values(active) \subseteq Values(both) /\ Values(history) \subseteq Values(both)
    BY <1>6 DEF Values
  <2>2. Values(both) \subseteq Values(r)
    <3>1. \A k \in DOMAIN both : \E i \in DOMAIN r : r[i].value = both[k].value
      BY <1>11 DEF Holds
    <3>2. QED
      BY <3>1 DEF Values
  <2>3. QED
    BY <2>1, <2>2
<1>15. \A k \in DOMAIN raw : raw[k].origin = "local" => raw[k].value \in Values(r)
  BY <1>2, <1>14
<1>16. \A k \in DOMAIN cached :
           \/ cached[k].value \in Values(r)
           \/ Until(cached[k]) # None /\ ~(Until(cached[k]) <= now)
           \/ \E l \in DOMAIN cached :
                 /\ cached[l].origin = "central"
                 /\ HistoryRow(cached[l]).key = HistoryRow(cached[k]).key
  BY <1>3, <1>14 DEF Over
<1>17. QED
  BY <1>11, <1>12, <1>13, <1>15, <1>16 DEF r, index

-----------------------------------------------------------------------------
(* The inductive invariant *)

IssuedInv ==
    /\ now \in Nat /\ issued \in Seq(Issued)
    /\ \A i \in Numbers : issued[i].created # None => issued[i].created <= now

\* A copy of an alert is one that was issued, and the end of its ban that the
\* history reckons is not after the true one, but for a ban that was lifted.
AlertTrue(a) ==
    /\ a \in Cached /\ a.no \in Numbers
    /\ a.value = issued[a.no].value /\ a.origin = issued[a.no].origin
    /\ a.no \notin lifted /\ Until(a) # None => Until(a) <= issued[a.no].until

TrueAlerts(cached) ==
    cached \in Seq(Cached) /\ EachOnce(cached) /\ \A j \in DOMAIN cached : AlertTrue(cached[j])

TrueListings(raw) ==
    /\ raw \in Seq(Listings) /\ \A i, j \in DOMAIN raw : i # j => raw[i].id # raw[j].id
    /\ \A i \in DOMAIN raw : /\ raw[i].id \in Numbers
                             /\ raw[i].value = issued[raw[i].id].value
                             /\ raw[i].origin = issued[raw[i].id].origin

\* Of the bans that were there when the decisions were answered, each that is not
\* among them is over, whatever has happened since.
ListingsInv ==
    /\ TrueListings(decisions) /\ upTo \in 0 .. Len(issued)
    /\ outcome["decisions"] = "ok" =>
          \A i \in 1 .. upTo : \/ issued[i].until <= now
                               \/ \E k \in DOMAIN decisions : decisions[k].id = i

Outcomes == [Queries -> {"open", "failed", "ok"}]

Inv == /\ IssuedInv /\ TrueAlerts(cache) /\ TrueAlerts(alerts) /\ ListingsInv
       /\ outcome \in Outcomes

-----------------------------------------------------------------------------
(* What the LAPI answers *)

LEMMA NumbersAre ==
    ASSUME IssuedInv, NEW S, S \subseteq Numbers
    PROVE  IsFiniteSet(S) /\ S \subseteq Nat
<1>1. Len(issued) \in Nat
  BY DEF IssuedInv
<1>2. IsFiniteSet(Numbers) /\ Numbers \subseteq Nat
  BY <1>1, FS_Interval DEF Numbers
<1>3. QED
  BY <1>2, FS_Subset

LEMMA DecisionIs ==
    ASSUME IssuedInv, NEW i \in Numbers
    PROVE  /\ Decision(i) \in Listings /\ Decision(i).id = i
           /\ Decision(i).value = issued[i].value /\ Decision(i).origin = issued[i].origin
           /\ Decision(i).left = IF issued[i].told THEN issued[i].until - now ELSE None
           /\ issued[i].until - now \in Int
<1>1. issued[i] \in Issued /\ i \in Nat /\ now \in Int
  BY DEF IssuedInv, Numbers
<1>2. /\ issued[i].value \in Targets /\ issued[i].origin \in Origins
      /\ issued[i].until - now \in Int
  BY <1>1 DEF Issued
<1>3. (IF issued[i].told THEN issued[i].until - now ELSE None) \in Time
  BY <1>2 DEF Time
<1>4. QED
  BY <1>1, <1>2, <1>3 DEF Decision, Listings

\* Listed numbers are answered each once.
LEMMA ListIs ==
    ASSUME IssuedInv, NEW listed, listed \subseteq Numbers
    PROVE  LET raw == [i \in 1 .. Cardinality(listed) |-> Decision(Listed(listed)[i])]
           IN  /\ raw \in Seq(Listings)
               /\ \A i, j \in DOMAIN raw : i # j => raw[i].id # raw[j].id
               /\ \A i \in DOMAIN raw : \E k \in listed : raw[i] = Decision(k)
               /\ \A k \in listed : \E i \in DOMAIN raw : raw[i] = Decision(k)
<1> DEFINE n == Cardinality(listed)
           f == Listed(listed)
           raw == [i \in 1 .. n |-> Decision(f[i])]
<1>1. /\ n \in Nat /\ f \in [1 .. n -> listed]
      /\ \A i, j \in 1 .. n : i # j => f[i] # f[j]
      /\ \A k \in listed : \E i \in 1 .. n : f[i] = k
  <2>1. IsFiniteSet(listed) /\ Orders(Ascending(listed), listed)
    BY NumbersAre, AscendingOrders
  <2>2. QED
    BY <2>1, RankedIs DEF Listed
<1> HIDE DEF n, f
<1>2. \A i \in 1 .. n : f[i] \in Numbers
  BY <1>1
<1>3. \A i \in 1 .. n : Decision(f[i]) \in Listings /\ Decision(f[i]).id = f[i]
  BY <1>2, DecisionIs
<1>4. raw \in Seq(Listings)
  BY <1>1, <1>3
<1>5. \A i, j \in DOMAIN raw : i # j => raw[i].id # raw[j].id
  BY <1>1, <1>3
<1>6. /\ \A i \in DOMAIN raw : \E k \in listed : raw[i] = Decision(k)
      /\ \A k \in listed : \E i \in DOMAIN raw : raw[i] = Decision(k)
  BY <1>1
<1>7. QED
  BY <1>4, <1>5, <1>6 DEF n, f

LEMMA AlertIs ==
    ASSUME IssuedInv, NEW i \in Numbers
    PROVE  AlertTrue(Alert(i)) /\ Alert(i).no = i
<1> DEFINE a == Alert(i)
<1>1. issued[i] \in Issued /\ i \in Nat /\ now \in Int
  BY DEF IssuedInv, Numbers
<1>2. /\ issued[i].value \in Targets /\ issued[i].origin \in Origins
      /\ issued[i].created \in Time /\ issued[i].until \in Int
  BY <1>1 DEF Issued
<1>3. (IF issued[i].told THEN issued[i].until - now ELSE None) \in Time
  BY <1>1, <1>2 DEF Time
<1>4. /\ a.no = i /\ a.value = issued[i].value /\ a.origin = issued[i].origin
      /\ a.created = issued[i].created
      /\ a.left = IF issued[i].told THEN issued[i].until - now ELSE None
  BY DEF Alert
<1>5. a \in Cached
  BY <1>1, <1>2, <1>3 DEF Alert, Cached
<1>6. ASSUME Until(a) # None PROVE Until(a) <= issued[i].until
  <2>1. a.created # None /\ a.left # None /\ Until(a) = a.created + a.left
    BY <1>6 DEF Until
  <2>2. a.created \in Int /\ a.created <= now /\ a.left = issued[i].until - now
    BY <1>2, <1>4, <2>1 DEF IssuedInv, Time
  <2>3. QED
    BY <1>1, <1>2, <2>1, <2>2
<1>7. QED
  BY <1>4, <1>5, <1>6 DEF AlertTrue

LEMMA FetchIs ==
    ASSUME IssuedInv, NEW found, found \subseteq Numbers
    PROVE  LET order == Ranked(found, {p \in found \X found : p[1] > p[2]})
           IN  TrueAlerts([i \in 1 .. Cardinality(found) |-> Alert(order[i])])
<1> DEFINE R == {p \in found \X found : p[1] > p[2]}
           n == Cardinality(found)
           f == Ranked(found, R)
<1>1. IsFiniteSet(found) /\ found \subseteq Nat
  BY NumbersAre
<1>2. Orders(R, found)
  <2>1. \A x, y \in found : <<x, y>> \in R <=> x > y
    OBVIOUS
  <2> HIDE DEF R
  <2>2. QED
    BY <1>1, <2>1 DEF Orders
<1> HIDE DEF R
<1>3. /\ n \in Nat /\ f \in [1 .. n -> found]
      /\ \A i, j \in 1 .. n : i # j => f[i] # f[j]
  BY <1>1, <1>2, RankedIs
<1> HIDE DEF n, f
<1>4. \A i \in 1 .. n : AlertTrue(Alert(f[i])) /\ Alert(f[i]).no = f[i]
  BY <1>3, AlertIs
<1>5. \A i \in 1 .. n : Alert(f[i]) \in Cached
  BY <1>4 DEF AlertTrue
<1>6. TrueAlerts([i \in 1 .. n |-> Alert(f[i])])
  BY <1>3, <1>4, <1>5 DEF TrueAlerts, EachOnce
<1>7. QED
  BY <1>6 DEF n, f, R

\* What is left of true alerts is true.
LEMMA PlacesTrue ==
    ASSUME NEW cached, TrueAlerts(cached), NEW places, places \subseteq DOMAIN cached
    PROVE  TrueAlerts(At(cached, places))
<1> DEFINE r == At(cached, places)
<1>1. r \in Seq(Cached) /\ Holds(r, cached, places)
  BY AtHolds DEF TrueAlerts
<1> HIDE DEF r
<1>2. \A i \in DOMAIN r : AlertTrue(r[i])
  BY <1>1 DEF Holds, TrueAlerts
<1>3. EachOnce(r)
  <2> SUFFICES ASSUME NEW i \in DOMAIN r, NEW j \in DOMAIN r, i # j PROVE r[i].no # r[j].no
    BY DEF EachOnce
  <2>1. PICK k \in places, l \in places : k # l /\ r[i] = cached[k] /\ r[j] = cached[l]
    BY <1>1 DEF Holds
  <2>2. cached[k].no # cached[l].no
    BY <2>1 DEF TrueAlerts, EachOnce
  <2>3. QED
    BY <2>1, <2>2
<1>4. QED
  BY <1>1, <1>2, <1>3 DEF TrueAlerts, r

\* A merge of true alerts is true: the known ones keep their places.
LEMMA AbsorbIs ==
    ASSUME TrueAlerts(cache), NEW new, TrueAlerts(new)
    PROVE  TrueAlerts(Absorb(new))
<1> DEFINE known(a) == {i \in DOMAIN new : new[i].no = a.no}
           kept == [j \in DOMAIN cache |->
                       IF known(cache[j]) = {} THEN cache[j]
                       ELSE new[CHOOSE i \in known(cache[j]) : TRUE]]
           places == {i \in DOMAIN new : \A j \in DOMAIN cache : cache[j].no # new[i].no}
           added == At(new, places)
           both == kept \o added
<1>1. cache \in Seq(Cached) /\ EachOnce(cache) /\ \A j \in DOMAIN cache : AlertTrue(cache[j])
  BY DEF TrueAlerts
<1>2. \A j \in DOMAIN cache : AlertTrue(kept[j]) /\ kept[j].no = cache[j].no
  <2> SUFFICES ASSUME NEW j \in DOMAIN cache PROVE AlertTrue(kept[j]) /\ kept[j].no = cache[j].no
    OBVIOUS
  <2>1. CASE known(cache[j]) = {}
    BY <1>1, <2>1
  <2>2. CASE known(cache[j]) # {}
    <3>1. PICK i \in known(cache[j]) : kept[j] = new[i]
      BY <2>2
    <3>2. i \in DOMAIN new /\ new[i].no = cache[j].no
      OBVIOUS
    <3>3. QED
      BY <3>1, <3>2 DEF TrueAlerts
  <2>3. QED
    BY <2>1, <2>2
<1>3. DOMAIN cache = 1 .. Len(cache) /\ Len(cache) \in Nat /\ DOMAIN kept = DOMAIN cache
  BY <1>1
<1> HIDE DEF kept
<1>4. kept \in Seq(Cached)
  <2>1. \A j \in 1 .. Len(cache) : kept[j] \in Cached
    BY <1>2, <1>3 DEF AlertTrue
  <2>2. kept = [j \in 1 .. Len(cache) |-> kept[j]]
    BY <1>3 DEF kept
  <2>3. QED
    BY <1>3, <2>1, <2>2
<1>5. TrueAlerts(added) /\ Holds(added, new, places)
  <2>1. places \subseteq DOMAIN new
    OBVIOUS
  <2> HIDE DEF places
  <2>2. TrueAlerts(added)
    BY <2>1, PlacesTrue
  <2>3. Holds(added, new, places)
    BY <2>1, AtHolds DEF TrueAlerts
  <2>4. QED
    BY <2>2, <2>3
<1>6. \A i \in DOMAIN added, j \in DOMAIN cache : cache[j].no # added[i].no
  BY <1>5 DEF Holds
<1> HIDE DEF added
<1>7. /\ both \in Seq(Cached) /\ Len(kept) \in Nat /\ DOMAIN kept = 1 .. Len(kept)
      /\ \A i \in DOMAIN both :
            \/ i \in DOMAIN kept /\ both[i] = kept[i]
            \/ i \notin DOMAIN kept /\ i - Len(kept) \in DOMAIN added
               /\ both[i] = added[i - Len(kept)]
      /\ DOMAIN both \subseteq Int
  <2>1. added \in Seq(Cached)
    BY <1>5 DEF TrueAlerts
  <2>2. QED
    BY <1>4, <2>1
<1> HIDE DEF both
<1>8. \A i \in DOMAIN both : AlertTrue(both[i])
  <2>1. \A i \in DOMAIN added : AlertTrue(added[i])
    BY <1>5 DEF TrueAlerts
  <2>2. QED
    BY <1>2, <1>3, <1>7, <2>1
<1>9. EachOnce(both)
  <2> SUFFICES ASSUME NEW i \in DOMAIN both, NEW j \in DOMAIN both, i # j
               PROVE  both[i].no # both[j].no
    BY DEF EachOnce
  <2>1. CASE i \in DOMAIN kept /\ j \in DOMAIN kept
    <3>1. cache[i].no # cache[j].no
      BY <1>1, <1>3, <2>1 DEF EachOnce
    <3>2. QED
      BY <1>2, <1>3, <1>7, <2>1, <3>1
  <2>2. CASE i \notin DOMAIN kept /\ j \notin DOMAIN kept
    <3>1. i - Len(kept) # j - Len(kept)
      BY <1>7
    <3>2. added[i - Len(kept)].no # added[j - Len(kept)].no
      BY <1>5, <1>7, <2>2, <3>1 DEF TrueAlerts, EachOnce
    <3>3. QED
      BY <1>7, <2>2, <3>2
  <2>3. CASE i \in DOMAIN kept /\ j \notin DOMAIN kept
    BY <1>2, <1>3, <1>6, <1>7, <2>3
  <2>4. CASE i \notin DOMAIN kept /\ j \in DOMAIN kept
    BY <1>2, <1>3, <1>6, <1>7, <2>4
  <2>5. QED
    BY <2>1, <2>2, <2>3, <2>4
<1>10. Absorb(new) = both
  BY DEF Absorb, both, kept, added
<1>11. QED
  BY <1>7, <1>8, <1>9, <1>10 DEF TrueAlerts

-----------------------------------------------------------------------------
(* The report *)

\* Of rows that are not empty there is one that no other outlasts.
LEMMA LongestExists ==
    ASSUME NEW active \in Seq(Row), active # <<>>
    PROVE  \E i \in DOMAIN active : \A j \in DOMAIN active : ~Longer(active[j], active[i])
<1> DEFINE S == DOMAIN active
           L(i, j) == Longer(active[i], active[j])
           R == {p \in S \X S : L(p[1], p[2]) \/ (~L(p[2], p[1]) /\ p[1] < p[2])}
<1>1. S = 1 .. Len(active) /\ Len(active) \in Nat /\ S # {}
  OBVIOUS
<1>2. IsFiniteSet(S)
  BY <1>1, FS_Interval
<1>3. \A i \in S : active[i].left \in Int \cup {None}
  <2>1. \A i \in S : active[i] \in Row
    OBVIOUS
  <2>2. QED
    BY <2>1 DEF Row, Time
<1>4. \A i, j, k \in S : /\ ~L(i, i) /\ (L(i, j) => ~L(j, i))
                         /\ (~L(i, j) /\ ~L(j, k) => ~L(i, k))
  BY <1>3, NoneAssumption DEF Longer
<1>5. \A i, j \in S : <<i, j>> \in R <=> L(i, j) \/ (~L(j, i) /\ i < j)
  OBVIOUS
<1> HIDE DEF L, R
<1>6. Orders(R, S)
  <2>1. S \subseteq Int
    BY <1>1
  <2> HIDE DEF S
  <2>2. ASSUME NEW i \in S, NEW j \in S
        PROVE  /\ i = j \/ <<i, j>> \in R \/ <<j, i>> \in R
               /\ <<i, j>> \in R => <<j, i>> \notin R
    BY <1>4, <1>5, <2>1
  <2>3. ASSUME NEW i \in S, NEW j \in S, NEW k \in S, <<i, j>> \in R, <<j, k>> \in R
        PROVE  <<i, k>> \in R
    <3>1. ~L(j, i) /\ ~L(k, j) /\ (L(i, j) \/ i < j) /\ (L(j, k) \/ j < k)
      BY <1>4, <1>5, <2>3
    <3>2. ~L(k, i) /\ (L(i, j) => L(i, k)) /\ (L(j, k) => L(i, k))
      BY <1>4, <3>1
    <3>3. QED
      BY <1>5, <2>1, <3>1, <3>2
  <2>4. QED
    BY <2>2, <2>3 DEF Orders
<1>7. PICK i \in S : \A j \in S : j = i \/ <<i, j>> \in R
  <2>1. S # {}
    BY <1>1
  <2> HIDE DEF S
  <2>2. QED
    BY <1>2, <1>6, <2>1, FirstExists
<1>8. \A j \in S : ~L(j, i)
  BY <1>4, <1>5, <1>7
<1>9. QED
  BY <1>8 DEF L

LEMMA AboutIs ==
    ASSUME IssuedInv, NEW t, NEW live, live \subseteq Numbers
    PROVE  LET covering == {i \in live : Covers(issued[i].value, t)}
           IN  /\ About(t, live) \in Seq(Listings)
               /\ \A i \in DOMAIN About(t, live) :
                     \E k \in covering : About(t, live)[i] = Decision(k)
               /\ \A k \in covering :
                     \E i \in DOMAIN About(t, live) : About(t, live)[i] = Decision(k)
<1> DEFINE covering == {i \in live : Covers(issued[i].value, t)}
           found == Listed(covering)
           d == About(t, live)
<1>1. covering \subseteq Numbers
  OBVIOUS
<1>2. d = [i \in DOMAIN found |-> Decision(found[i])]
  BY DEF About
<1> HIDE DEF covering, d
<1>3. DOMAIN found = 1 .. Cardinality(covering)
  <2>1. IsFiniteSet(covering) /\ Orders(Ascending(covering), covering)
    BY <1>1, NumbersAre, AscendingOrders
  <2>2. QED
    BY <2>1, RankedIs DEF Listed
<1>4. d = [i \in 1 .. Cardinality(covering) |-> Decision(Listed(covering)[i])]
  BY <1>2, <1>3
<1> HIDE DEF found
<1>5. /\ d \in Seq(Listings)
      /\ \A i \in DOMAIN d : \E k \in covering : d[i] = Decision(k)
      /\ \A k \in covering : \E i \in DOMAIN d : d[i] = Decision(k)
  BY <1>1, <1>4, ListIs
<1>6. QED
  BY <1>5 DEF covering, d

Covering(t, live) == {i \in live : Covers(issued[i].value, t)}
Running(k) == Decision(k).left = None \/ Decision(k).left > 0
ReportActive(t, live) ==
    LET records == Records(About(t, live), SourceIndex(<<>>))
    IN  At(records, {i \in DOMAIN records : records[i].status = "active"})

\* The rows of the report: the decisions on the address that seem to be running.
LEMMA ReportRows ==
    ASSUME IssuedInv, NEW t, NEW live, live \subseteq Numbers
    PROVE  LET active == ReportActive(t, live)
           IN  /\ active \in Seq(Row)
               /\ \A i \in DOMAIN active : \E k \in Covering(t, live) :
                     Running(k) /\ active[i].left = Decision(k).left
               /\ \A k \in Covering(t, live) : Running(k) =>
                     \E i \in DOMAIN active : active[i].left = Decision(k).left
<1> DEFINE d == About(t, live)
           index == SourceIndex(<<>>)
           records == Records(d, index)
           places == {i \in DOMAIN records : records[i].status = "active"}
           active == At(records, places)
           covering == Covering(t, live)
<1>1. /\ d \in Seq(Listings)
      /\ \A i \in DOMAIN d : \E k \in covering : d[i] = Decision(k)
      /\ \A k \in covering : \E i \in DOMAIN d : d[i] = Decision(k)
  BY AboutIs DEF Covering
<1>2. covering \subseteq Numbers
  BY DEF Covering
<1>3. index \in Infos
  <2>1. <<>> \in Seq(Cached) /\ EachOnce(<<>>)
    BY DEF EachOnce
  <2>2. QED
    BY <2>1, IndexIs
<1> HIDE DEF d, index, covering
<1>4. \A i \in DOMAIN d : d[i] \in Listings
  BY <1>1
<1>5. /\ DOMAIN records = DOMAIN d
      /\ \A i \in DOMAIN d : /\ records[i] \in Row /\ records[i].left = d[i].left
                             /\ records[i].status = Status(d[i].left)
  BY <1>3, <1>4, RecordIs DEF Records, Record
<1>6. records \in Seq(Row)
  BY <1>1, <1>5 DEF Records
<1> HIDE DEF records
<1>7. \A k \in covering : Running(k) <=> Status(Decision(k).left) = "active"
  <2>1. ASSUME NEW k \in covering PROVE Decision(k).left = None \/ Decision(k).left \in Int
    BY <1>2, DecisionIs
  <2>2. QED
    BY <2>1, NoneAssumption DEF Status, Running
<1>8. active \in Seq(Row) /\ Holds(active, records, places)
  <2>1. places \subseteq DOMAIN records
    OBVIOUS
  <2> HIDE DEF places
  <2>2. QED
    BY <1>6, <2>1, AtHolds
<1> HIDE DEF active
<1>9. ASSUME NEW i \in DOMAIN active
      PROVE  \E k \in covering : Running(k) /\ active[i].left = Decision(k).left
  <2>1. PICK l \in places : active[i] = records[l]
    BY <1>8 DEF Holds
  <2>2. PICK k \in covering : d[l] = Decision(k)
    BY <1>1, <1>5, <2>1
  <2>3. QED
    BY <1>5, <1>7, <2>1, <2>2
<1>10. ASSUME NEW k \in covering, Running(k)
       PROVE  \E i \in DOMAIN active : active[i].left = Decision(k).left
  <2>1. PICK l \in DOMAIN d : d[l] = Decision(k)
    BY <1>1
  <2>2. l \in places /\ records[l].left = Decision(k).left
    BY <1>5, <1>7, <1>10, <2>1
  <2>3. QED
    BY <1>8, <2>2 DEF Holds
<1> HIDE DEF places
<1>11. QED
  BY <1>8, <1>9, <1>10 DEF active, places, records, d, index, covering, ReportActive

-----------------------------------------------------------------------------
(* The steps *)

\* What happens at the LAPI changes of an alert its end at most, to an earlier one.
Grows ==
    /\ Numbers \subseteq Numbers' /\ lifted \subseteq lifted' /\ now <= now' /\ now' \in Nat
    /\ \A i \in Numbers :
          /\ issued'[i].value = issued[i].value /\ issued'[i].origin = issued[i].origin
          /\ \/ issued'[i].until = issued[i].until
             \/ i \in lifted' /\ issued'[i].until <= now'

LEMMA InitInv == Init => Inv
<1> SUFFICES ASSUME Init PROVE Inv
  OBVIOUS
<1>1. /\ now = 0 /\ issued = <<>> /\ cache = <<>> /\ alerts = <<>> /\ decisions = <<>>
      /\ upTo = 0 /\ outcome = AllOpen
  BY DEF Init
<1>2. IssuedInv
  BY <1>1 DEF IssuedInv, Numbers
<1>3. TrueAlerts(cache) /\ TrueAlerts(alerts)
  BY <1>1 DEF TrueAlerts, EachOnce
<1>4. outcome \in Outcomes /\ outcome["decisions"] = "open"
  BY <1>1 DEF Outcomes, AllOpen, Queries
<1>5. ListingsInv
  BY <1>1, <1>4 DEF ListingsInv, TrueListings
<1>6. QED
  BY <1>2, <1>3, <1>4, <1>5 DEF Inv

LEMMA WorldStep ==
    ASSUME IssuedInv, World \/ UNCHANGED lapiVars
    PROVE  IssuedInv' /\ Grows
<1>1. /\ now \in Nat /\ issued \in Seq(Issued) /\ Numbers = 1 .. Len(issued)
      /\ Len(issued) \in Nat
      /\ \A i \in Numbers : /\ issued[i] \in Issued
                            /\ issued[i].created # None => issued[i].created <= now
  BY DEF IssuedInv, Numbers
<1>2. CASE Tick
  <2>1. now' = now + 1 /\ UNCHANGED <<issued, lifted>>
    BY <1>2 DEF Tick
  <2>2. \A i \in Numbers : issued[i].created # None => issued[i].created <= now + 1
    BY <1>1 DEF Issued, Time
  <2>3. IssuedInv'
    BY <1>1, <2>1, <2>2 DEF IssuedInv, Numbers
  <2>4. QED
    BY <1>1, <2>1, <2>3 DEF Grows, Numbers
<1>3. ASSUME NEW ban \in Bans, Issue(ban)
      PROVE  IssuedInv' /\ Grows
  <2> DEFINE a == [value |-> ban.value, origin |-> ban.origin, told |-> ban.told,
                   created |-> IF ban.dated THEN now ELSE None, until |-> now + ban.length]
  <2>1. issued' = Append(issued, a) /\ UNCHANGED <<now, lifted>>
    BY <1>3 DEF Issue
  <2>2. a \in Issued /\ (a.created # None => a.created <= now)
    BY <1>1, BansAssumption DEF Issued, Time
  <2> HIDE DEF a
  <2>3. /\ issued' \in Seq(Issued) /\ Numbers \subseteq Numbers'
        /\ \A i \in Numbers : issued'[i] = issued[i]
        /\ \A i \in Numbers' : i \in Numbers \/ issued'[i] = a
    BY <1>1, <2>1, <2>2 DEF Numbers
  <2>4. IssuedInv'
    BY <1>1, <2>1, <2>2, <2>3 DEF IssuedInv
  <2>5. QED
    BY <1>1, <2>1, <2>3, <2>4 DEF Grows
<1>4. ASSUME NEW i \in Numbers, Lift(i) PROVE IssuedInv' /\ Grows
  <2>1. /\ issued' = [issued EXCEPT ![i].until = now] /\ lifted' = lifted \cup {i}
        /\ now' = now
    BY <1>4 DEF Lift
  <2>2. [issued[i] EXCEPT !.until = now] \in Issued
    <3>1. issued[i] \in Issued /\ now \in Int
      BY <1>1
    <3>2. QED
      BY <3>1 DEF Issued
  <2>3. /\ issued' \in Seq(Issued) /\ Numbers' = Numbers
        /\ \A k \in Numbers : k # i => issued'[k] = issued[k]
        /\ issued'[i] = [issued[i] EXCEPT !.until = now]
    BY <1>1, <2>1, <2>2 DEF Numbers
  <2>4. issued'[i].until = now
    BY <1>1, <2>3 DEF Issued
  <2>5. \A k \in Numbers : /\ issued'[k].value = issued[k].value
                           /\ issued'[k].origin = issued[k].origin
                           /\ issued'[k].created = issued[k].created
    BY <1>1, <2>3 DEF Issued
  <2>6. IssuedInv'
    BY <1>1, <2>1, <2>3, <2>5 DEF IssuedInv
  <2>7. QED
    BY <1>1, <2>1, <2>3, <2>4, <2>5, <2>6 DEF Grows
<1>5. CASE UNCHANGED lapiVars
  <2>1. UNCHANGED <<now, issued, lifted>>
    BY <1>5 DEF lapiVars
  <2>2. QED
    BY <1>1, <2>1 DEF IssuedInv, Numbers, Grows
<1>6. QED
  BY <1>2, <1>3, <1>4, <1>5 DEF World

\* What is true of a copy of an alert stays true of it.
LEMMA AlertStays ==
    ASSUME IssuedInv, Grows, NEW a, AlertTrue(a)
    PROVE  /\ a \in Cached /\ a.no \in Numbers'
           /\ a.value = issued'[a.no].value /\ a.origin = issued'[a.no].origin
           /\ a.no \notin lifted' /\ Until(a) # None => Until(a) <= issued'[a.no].until
  BY DEF Grows, AlertTrue

LEMMA CacheStays ==
    ASSUME IssuedInv, Grows, TrueAlerts(cache), cache' = cache
    PROVE  TrueAlerts(cache)'
<1>1. cache \in Seq(Cached) /\ EachOnce(cache)
  BY DEF TrueAlerts
<1>2. \A j \in DOMAIN cache : AlertTrue(cache[j])'
  BY AlertStays DEF TrueAlerts, AlertTrue, Until
<1>3. QED
  BY <1>1, <1>2 DEF TrueAlerts, EachOnce

LEMMA AlertsStay ==
    ASSUME IssuedInv, Grows, TrueAlerts(alerts), alerts' = alerts
    PROVE  TrueAlerts(alerts)'
<1>1. alerts \in Seq(Cached) /\ EachOnce(alerts)
  BY DEF TrueAlerts
<1>2. \A j \in DOMAIN alerts : AlertTrue(alerts[j])'
  BY AlertStays DEF TrueAlerts, AlertTrue, Until
<1>3. QED
  BY <1>1, <1>2 DEF TrueAlerts, EachOnce

LEMMA ListingsStay ==
    ASSUME IssuedInv, IssuedInv', Grows, ListingsInv, UNCHANGED <<decisions, upTo>>,
           outcome'["decisions"] = "ok" => outcome["decisions"] = "ok"
    PROVE  ListingsInv'
<1>1. /\ Len(issued) \in Nat /\ Len(issued') \in Nat
      /\ Numbers = 1 .. Len(issued) /\ Numbers' = 1 .. Len(issued')
  BY DEF IssuedInv, Numbers
<1>2. Len(issued) <= Len(issued') /\ upTo' \in 0 .. Len(issued')
  <2>1. upTo \in 0 .. Len(issued) /\ (Len(issued) = 0 \/ Len(issued) \in Numbers)
    BY <1>1 DEF ListingsInv
  <2>2. Len(issued) = 0 \/ Len(issued) \in Numbers'
    BY <2>1 DEF Grows
  <2>3. QED
    BY <1>1, <2>1, <2>2
<1>3. TrueListings(decisions)'
  <2>1. \A i \in DOMAIN decisions : /\ decisions[i].id \in Numbers'
                                    /\ decisions[i].value = issued'[decisions[i].id].value
                                    /\ decisions[i].origin = issued'[decisions[i].id].origin
    BY DEF ListingsInv, TrueListings, Grows
  <2>2. QED
    BY <2>1 DEF ListingsInv, TrueListings
<1>4. ASSUME outcome'["decisions"] = "ok", NEW i \in 1 .. upTo'
      PROVE  \/ issued'[i].until <= now'
             \/ \E k \in DOMAIN decisions : decisions[k].id = i
  <2>1. i \in Numbers /\ i \in 1 .. upTo
    BY <1>1, <1>4 DEF ListingsInv
  <2>2. CASE \E k \in DOMAIN decisions : decisions[k].id = i
    BY <2>2
  <2>3. CASE issued[i].until <= now
    <3>1. issued[i].until \in Int /\ now \in Nat /\ now' \in Nat /\ now <= now'
      <4>1. issued[i] \in Issued
        BY <2>1 DEF IssuedInv, Numbers
      <4>2. QED
        BY <4>1 DEF IssuedInv, Issued, Grows
    <3>2. issued'[i].until = issued[i].until \/ issued'[i].until <= now'
      BY <2>1 DEF Grows
    <3>3. QED
      BY <2>3, <3>1, <3>2
  <2>4. QED
    BY <1>4, <2>1, <2>2, <2>3 DEF ListingsInv
<1>5. QED
  BY <1>2, <1>3, <1>4 DEF ListingsInv

LEMMA AlertsAnsweredStep ==
    ASSUME Inv, NEW found \in SUBSET InWindow, AlertsAnswered(found)
    PROVE  Inv'
<1>1. UNCHANGED lapiVars /\ UNCHANGED <<decisions, upTo, cache>>
  BY DEF AlertsAnswered, tableVars
<1>2. IssuedInv' /\ Grows
  BY <1>1, WorldStep DEF Inv
<1>3. found \subseteq Numbers
  BY DEF InWindow
<1>4. TrueAlerts(alerts')
  BY <1>3, FetchIs DEF AlertsAnswered, Inv
<1>5. TrueAlerts(alerts)'
  BY <1>1, <1>4 DEF TrueAlerts, AlertTrue, EachOnce, Until, Numbers, lapiVars
<1>6. TrueAlerts(cache)'
  BY <1>1, <1>2, CacheStays DEF Inv
<1>7. outcome' \in Outcomes /\ outcome'["decisions"] = outcome["decisions"]
  BY DEF AlertsAnswered, Inv, Outcomes, Queries
<1>8. ListingsInv'
  BY <1>1, <1>2, <1>7, ListingsStay DEF Inv
<1>9. QED
  BY <1>2, <1>5, <1>6, <1>7, <1>8 DEF Inv

LEMMA DecisionsAnsweredStep ==
    ASSUME Inv, NEW live \in LiveSets, DecisionsAnswered(live)
    PROVE  Inv'
<1>1. /\ UNCHANGED lapiVars /\ UNCHANGED <<alerts, cache>> /\ upTo' = Len(issued)
      /\ decisions' = [i \in 1 .. Cardinality(live) |-> Decision(Listed(live)[i])]
  BY DEF DecisionsAnswered, tableVars
<1>2. IssuedInv' /\ Grows
  BY <1>1, WorldStep DEF Inv
<1>3. IssuedInv /\ Len(issued) \in Nat /\ Numbers = 1 .. Len(issued)
  BY DEF Inv, IssuedInv, Numbers
<1>4. live \subseteq Numbers /\ \A i \in Numbers : issued[i].until <= now \/ i \in live
  <2>1. PICK late \in 0 .. Lag : live = {i \in Numbers : issued[i].until > now - late}
    BY DEF LiveSets
  <2>2. ASSUME NEW i \in Numbers PROVE issued[i].until <= now \/ i \in live
    <3>1. issued[i].until \in Int /\ now \in Int
      <4>1. issued[i] \in Issued /\ now \in Int
        BY <1>3 DEF IssuedInv, Numbers
      <4>2. QED
        BY <4>1 DEF Issued
    <3>2. QED
      BY <2>1, <3>1, SpanAssumption
  <2>3. QED
    BY <2>1, <2>2
<1>5. /\ decisions' \in Seq(Listings)
      /\ \A i, j \in DOMAIN decisions' : i # j => decisions'[i].id # decisions'[j].id
      /\ \A i \in DOMAIN decisions' : \E k \in live : decisions'[i] = Decision(k)
      /\ \A k \in live : \E i \in DOMAIN decisions' : decisions'[i] = Decision(k)
  <2> DEFINE d == [i \in 1 .. Cardinality(live) |-> Decision(Listed(live)[i])]
  <2>1. /\ d \in Seq(Listings) /\ \A i, j \in DOMAIN d : i # j => d[i].id # d[j].id
        /\ \A i \in DOMAIN d : \E k \in live : d[i] = Decision(k)
        /\ \A k \in live : \E i \in DOMAIN d : d[i] = Decision(k)
    BY <1>3, <1>4, ListIs
  <2>2. decisions' = d
    BY <1>1
  <2> HIDE DEF d
  <2>3. QED
    BY <2>1, <2>2
<1>6. \A k \in live : /\ k \in Numbers /\ Decision(k).id = k
                      /\ Decision(k).value = issued[k].value
                      /\ Decision(k).origin = issued[k].origin
  BY <1>3, <1>4, DecisionIs
<1>7. \A i \in DOMAIN decisions' : /\ decisions'[i].id \in Numbers
                                   /\ decisions'[i].value = issued[decisions'[i].id].value
                                   /\ decisions'[i].origin = issued[decisions'[i].id].origin
  BY <1>5, <1>6
<1>8. \A i \in 1 .. upTo' : \/ issued[i].until <= now
                            \/ \E k \in DOMAIN decisions' : decisions'[k].id = i
  BY <1>1, <1>3, <1>4, <1>5, <1>6
<1>9. ListingsInv'
  <2>1. issued' = issued /\ now' = now /\ Numbers' = Numbers /\ upTo' \in 0 .. Len(issued')
    BY <1>1, <1>3 DEF lapiVars, Numbers
  <2>2. TrueListings(decisions)'
    BY <1>5, <1>7, <2>1 DEF TrueListings
  <2>3. QED
    BY <1>8, <2>1, <2>2 DEF ListingsInv
<1>10. TrueAlerts(cache)' /\ TrueAlerts(alerts)'
  BY <1>1, <1>2, CacheStays, AlertsStay DEF Inv
<1>11. outcome' \in Outcomes
  BY DEF DecisionsAnswered, Inv, Outcomes, Queries
<1>12. QED
  BY <1>2, <1>9, <1>10, <1>11 DEF Inv

LEMMA QueryFailsStep ==
    ASSUME Inv, NEW q \in Queries, QueryFails(q)
    PROVE  Inv'
<1>1. UNCHANGED lapiVars /\ UNCHANGED <<alerts, decisions, upTo, cache>>
  BY DEF QueryFails, tableVars
<1>2. IssuedInv' /\ Grows
  BY <1>1, WorldStep DEF Inv
<1>3. /\ outcome' \in Outcomes
      /\ outcome'["decisions"] = "ok" => outcome["decisions"] = "ok"
  BY DEF QueryFails, Inv, Outcomes, Queries
<1>4. TrueAlerts(cache)' /\ TrueAlerts(alerts)'
  BY <1>1, <1>2, CacheStays, AlertsStay DEF Inv
<1>5. ListingsInv'
  BY <1>1, <1>2, <1>3, ListingsStay DEF Inv
<1>6. QED
  BY <1>2, <1>3, <1>4, <1>5 DEF Inv

\* The cache a cycle leaves holds true copies.
LEMMA CacheNextIs ==
    ASSUME TrueAlerts(cache), TrueAlerts(alerts), NEW full \in BOOLEAN
    PROVE  TrueAlerts(CacheNext(full))
<1> DEFINE all == IF full THEN alerts ELSE Absorb(alerts)
<1>1. TrueAlerts(all)
  BY AbsorbIs
<1> HIDE DEF all
<1>2. TrueAlerts(Kept(all))
  BY <1>1, PlacesTrue DEF Kept
<1>3. QED
  BY <1>2 DEF CacheNext, all

LEMMA CycleEndsStep ==
    ASSUME Inv, NEW full \in BOOLEAN, CycleEnds(full)
    PROVE  Inv'
<1>1. /\ UNCHANGED lapiVars /\ cache' = CacheNext(full)
      /\ outcome' = AllOpen /\ alerts' = <<>> /\ decisions' = <<>> /\ upTo' = 0
  BY DEF CycleEnds
<1>2. IssuedInv' /\ Grows
  BY <1>1, WorldStep DEF Inv
<1>3. TrueAlerts(cache')
  BY <1>1, CacheNextIs DEF Inv
<1>4. TrueAlerts(cache)'
  BY <1>1, <1>3 DEF TrueAlerts, AlertTrue, EachOnce, Until, Numbers, lapiVars
<1>5. TrueAlerts(alerts)'
  BY <1>1 DEF TrueAlerts, EachOnce
<1>6. outcome' \in Outcomes /\ outcome'["decisions"] = "open"
  BY <1>1 DEF Outcomes, AllOpen, Queries
<1>7. ListingsInv'
  <2>1. Len(issued') \in Nat
    BY <1>2 DEF IssuedInv
  <2>2. TrueListings(decisions)'
    BY <1>1 DEF TrueListings
  <2>3. QED
    BY <1>1, <1>6, <2>1, <2>2 DEF ListingsInv
<1>8. QED
  BY <1>2, <1>4, <1>5, <1>6, <1>7 DEF Inv

LEMMA InvStep == Inv /\ [Next]_vars => Inv'
<1> SUFFICES ASSUME Inv, [Next]_vars PROVE Inv'
  OBVIOUS
<1>1. CASE World \/ UNCHANGED vars
  <2>1. (World \/ UNCHANGED lapiVars) /\ UNCHANGED <<outcome, alerts, decisions, upTo, cache>>
    BY <1>1 DEF World, Tick, Issue, Lift, vars, cycleVars, tableVars
  <2>2. IssuedInv' /\ Grows
    BY <2>1, WorldStep DEF Inv
  <2>3. TrueAlerts(cache)' /\ TrueAlerts(alerts)' /\ ListingsInv'
    BY <2>1, <2>2, CacheStays, AlertsStay, ListingsStay DEF Inv
  <2>4. QED
    BY <2>1, <2>2, <2>3 DEF Inv
<1>2. CASE \E found \in SUBSET InWindow : AlertsAnswered(found)
  BY <1>2, AlertsAnsweredStep
<1>3. CASE \E live \in LiveSets : DecisionsAnswered(live)
  BY <1>3, DecisionsAnsweredStep
<1>4. CASE \E q \in Queries : QueryFails(q)
  BY <1>4, QueryFailsStep
<1>5. CASE \E full \in BOOLEAN : CycleEnds(full)
  BY <1>5, CycleEndsStep
<1>6. QED
  BY <1>1, <1>2, <1>3, <1>4, <1>5 DEF Next

LEMMA InvHolds == Spec => []Inv
  BY InitInv, InvStep, PTL DEF Spec

-----------------------------------------------------------------------------
(* What holds of a table that is built *)

\* Only the end of a cycle builds the table.
LEMMA RebuiltIs ==
    ASSUME Inv, Next, Rebuilt
    PROVE  \E full \in BOOLEAN : CycleEnds(full)
<1>1. outcome \in Outcomes /\ outcome["decisions"] = "ok" /\ outcome'["decisions"] = "open"
  BY DEF Inv, Rebuilt
<1>2. ASSUME World PROVE FALSE
  BY <1>1, <1>2 DEF World, Tick, Issue, Lift, cycleVars
<1>3. ASSUME NEW found \in SUBSET InWindow, AlertsAnswered(found) PROVE FALSE
  BY <1>1, <1>3 DEF AlertsAnswered, Outcomes, Queries
<1>4. ASSUME NEW live \in LiveSets, DecisionsAnswered(live) PROVE FALSE
  BY <1>1, <1>4 DEF DecisionsAnswered
<1>5. ASSUME NEW q \in Queries, QueryFails(q) PROVE FALSE
  BY <1>1, <1>5 DEF QueryFails, Outcomes, Queries
<1>6. QED
  BY <1>2, <1>3, <1>4, <1>5 DEF Next

\* What the rows are then built from.
LEMMA RowsAre ==
    ASSUME Inv, Next, Rebuilt
    PROVE  /\ TrueAlerts(cache') /\ table' = Cut(rows')
           /\ rows' \in Seq(Row) /\ DistinctKeys(rows')
           /\ \A i, j \in DOMAIN rows' : i < j => ~Before(rows'[j], rows'[i])
           /\ \A i \in DOMAIN rows' :
                 \/ \E k \in DOMAIN decisions :
                       rows'[i] = Record(SourceIndex(cache'), decisions[k])
                 \/ \E k \in DOMAIN cache' : rows'[i] = HistoryRow(cache'[k])
           /\ \A k \in DOMAIN decisions :
                 decisions[k].origin = "local" => decisions[k].value \in Values(rows')
           /\ \A k \in DOMAIN cache' :
                 \/ cache'[k].value \in Values(rows')
                 \/ Until(cache'[k]) # None /\ ~(Until(cache'[k]) <= now)
                 \/ \E l \in DOMAIN cache' :
                       /\ cache'[l].origin = "central"
                       /\ HistoryRow(cache'[l]).key = HistoryRow(cache'[k]).key
<1>1. PICK full \in BOOLEAN : CycleEnds(full)
  BY RebuiltIs
<1>2. /\ cache' = CacheNext(full) /\ rows' = BuildTable(decisions, cache')
      /\ table' = Cut(rows')
  BY <1>1 DEF CycleEnds, Rebuilt
<1>3. TrueAlerts(cache')
  BY <1>2, CacheNextIs DEF Inv
<1>4. cache' \in Seq(Cached) /\ EachOnce(cache') /\ now \in Int
  BY <1>3 DEF TrueAlerts, Inv, IssuedInv
<1>5. /\ decisions \in Seq(Listings)
      /\ \A i, j \in DOMAIN decisions : i # j => decisions[i].id # decisions[j].id
  BY DEF Inv, ListingsInv, TrueListings
<1> DEFINE r == BuildTable(decisions, cache')
<1>6. /\ r \in Seq(Row) /\ DistinctKeys(r)
      /\ \A i, j \in DOMAIN r : i < j => ~Before(r[j], r[i])
      /\ \A i \in DOMAIN r :
            \/ \E k \in DOMAIN decisions : r[i] = Record(SourceIndex(cache'), decisions[k])
            \/ \E k \in DOMAIN cache' : r[i] = HistoryRow(cache'[k])
      /\ \A k \in DOMAIN decisions :
            decisions[k].origin = "local" => decisions[k].value \in Values(r)
      /\ \A k \in DOMAIN cache' :
            \/ cache'[k].value \in Values(r)
            \/ Until(cache'[k]) # None /\ ~(Until(cache'[k]) <= now)
            \/ \E l \in DOMAIN cache' :
                  /\ cache'[l].origin = "central"
                  /\ HistoryRow(cache'[l]).key = HistoryRow(cache'[k]).key
  BY <1>4, <1>5, TableIs
<1>7. rows' = r
  BY <1>2
<1> HIDE DEF r
<1>8. QED
  BY <1>2, <1>3, <1>6, <1>7

LEMMA CutStep ==
    ASSUME Inv, Next, Rebuilt, NEW i \in DOMAIN rows', NEW j \in DOMAIN rows',
           rows'[i].key \in Keys(table'), rows'[j].key \notin Keys(table')
    PROVE  LET r == rows'[i]
               s == rows'[j]
           IN  /\ s.status = "active" => r.status = "active"
               /\ s.status = r.status /\ None \notin {r.left, s.left} => r.left >= s.left
               /\ s.status = r.status /\ s.left = None
                     => r.left = None \/ r.status = "expired"
<1> DEFINE all == rows'
           cut == table'
           m == IF Len(all) < MaxRows THEN Len(all) ELSE MaxRows
<1>1. /\ all \in Seq(Row) /\ DistinctKeys(all) /\ cut = Cut(all)
      /\ \A k, l \in DOMAIN all : k < l => ~Before(all[l], all[k])
  BY RowsAre
<1> HIDE DEF all, cut
<1>2. Len(all) \in Nat /\ DOMAIN all = 1 .. Len(all) /\ m \in Nat /\ m <= Len(all)
  BY <1>1, RowsAssumption
<1>3. cut = SubSeq(all, 1, m)
  BY <1>1 DEF Cut
<1> HIDE DEF m
<1>4. DOMAIN cut = 1 .. m /\ \A k \in 1 .. m : cut[k] = all[k]
  BY <1>1, <1>2, <1>3
<1>5. i \in DOMAIN all /\ j \in DOMAIN all /\ all[i].key \in Keys(cut) /\ all[j].key \notin Keys(cut)
  BY DEF all, cut
<1>6. i \in 1 .. m
  <2>1. PICK k \in 1 .. m : all[k].key = all[i].key
    BY <1>4, <1>5 DEF Keys
  <2>2. k = i
    BY <1>1, <1>2, <1>5, <2>1 DEF DistinctKeys
  <2>3. QED
    BY <2>1, <2>2
<1>7. j \notin 1 .. m
  BY <1>4, <1>5 DEF Keys
<1>8. i < j
  BY <1>2, <1>5, <1>6, <1>7
<1>9. ~Before(all[j], all[i])
  BY <1>1, <1>5, <1>8
<1>10. Sortable(all[i]) /\ Sortable(all[j])
  <2>1. all[i] \in Row /\ all[j] \in Row
    BY <1>1, <1>2, <1>5
  <2>2. QED
    BY <2>1 DEF Row, Time, Sortable
<1>11. QED
  BY <1>9, <1>10, NoneAssumption DEF Before, Sortable, all

\* A ban the cache knows of is listed, or over, or its row has the key of another.
LEMMA BansStep ==
    ASSUME Inv, Next, Rebuilt, NEW j \in DOMAIN cache'
    PROVE  \/ cache'[j].value \in Values(rows')
           \/ cache'[j].origin = "central"
           \/ cache'[j].no \in lifted
           \/ cache'[j].no > upTo
           \/ \E k \in DOMAIN cache' :
                 cache'[k].origin = "central"
                 /\ HistoryRow(cache'[k]).key = HistoryRow(cache'[j]).key
<1>1. /\ TrueAlerts(cache')
      /\ \A k \in DOMAIN decisions :
            decisions[k].origin = "local" => decisions[k].value \in Values(rows')
      /\ \A k \in DOMAIN cache' :
            \/ cache'[k].value \in Values(rows')
            \/ Until(cache'[k]) # None /\ ~(Until(cache'[k]) <= now)
            \/ \E l \in DOMAIN cache' :
                  /\ cache'[l].origin = "central"
                  /\ HistoryRow(cache'[l]).key = HistoryRow(cache'[k]).key
  BY RowsAre
<1> DEFINE a == cache'[j]
           n == a.no
<1>2. AlertTrue(a)
  BY <1>1 DEF TrueAlerts
<1>3. CASE /\ Until(a) # None /\ ~(Until(a) <= now)
           /\ n \notin lifted /\ ~(n > upTo) /\ a.origin # "central"
  <2> HIDE DEF a
  <2>1. /\ n \in Numbers /\ Until(a) <= issued[n].until
        /\ a.value = issued[n].value /\ a.origin = issued[n].origin /\ a \in Cached
    BY <1>2, <1>3 DEF AlertTrue
  <2>2. issued[n].until \in Int /\ now \in Int /\ Until(a) \in Int
    <3>1. issued[n] \in Issued /\ now \in Int
      BY <2>1 DEF Inv, IssuedInv, Numbers
    <3>2. QED
      BY <1>3, <2>1, <3>1 DEF Issued, Until, Cached, Time
  <2>3. ~(issued[n].until <= now)
    BY <1>3, <2>1, <2>2
  <2>4. n \in 1 .. upTo
    <3>1. n \in 1 .. Len(issued) /\ Len(issued) \in Nat /\ upTo \in 0 .. Len(issued)
      BY <2>1 DEF Inv, IssuedInv, ListingsInv, Numbers
    <3>2. QED
      BY <1>3, <3>1
  <2>5. PICK k \in DOMAIN decisions : decisions[k].id = n
    BY <2>3, <2>4 DEF Inv, ListingsInv, Rebuilt
  <2>6. decisions[k].value = a.value /\ decisions[k].origin = "local"
    <3>1. decisions[k].value = issued[n].value /\ decisions[k].origin = issued[n].origin
      BY <2>5 DEF Inv, ListingsInv, TrueListings
    <3>2. a.origin \in Origins
      BY <2>1 DEF Cached
    <3>3. QED
      BY <1>3, <2>1, <3>1, <3>2 DEF Origins
  <2>7. a.value \in Values(rows')
    BY <1>1, <2>6
  <2>8. QED
    BY <2>7 DEF a
<1>4. QED
  BY <1>1, <1>3

LEMMA DescribedStep ==
    ASSUME Inv, Next, Rebuilt, NEW i \in DOMAIN rows', rows'[i].key[1] = "id"
    PROVE  LET mine == {j \in DOMAIN cache' : cache'[j].value = rows'[i].value}
               dated == {cache'[j].created : j \in mine} \ {None}
           IN  /\ IF dated = {} THEN rows'[i].created = None
                  ELSE rows'[i].created \in dated /\ \A c \in dated : c <= rows'[i].created
               /\ rows'[i].alerts = Cardinality({cache'[j].no : j \in mine})
<1> DEFINE cached == cache'
           row == rows'[i]
           index == SourceIndex(cached)
<1>1. /\ cached \in Seq(Cached) /\ EachOnce(cached)
      /\ \/ \E k \in DOMAIN decisions : row = Record(index, decisions[k])
         \/ \E k \in DOMAIN cached : row = HistoryRow(cached[k])
  BY RowsAre DEF TrueAlerts
<1>2. decisions \in Seq(Listings)
  BY DEF Inv, ListingsInv, TrueListings
<1>3. row.key[1] = "id"
  OBVIOUS
<1> HIDE DEF cached, row
<1>4. PICK k \in DOMAIN decisions : row = Record(index, decisions[k])
  <2>1. ASSUME NEW k \in DOMAIN cached, row = HistoryRow(cached[k]) PROVE FALSE
    <3>1. row.key = <<"hist", cached[k].value, cached[k].created>>
      BY <2>1 DEF HistoryRow
    <3>2. QED
      BY <1>3, <3>1
  <2>2. QED
    BY <1>1, <2>1
<1> DEFINE v == decisions[k].value
<1>5. decisions[k] \in Listings /\ v \in Targets
  <2>1. decisions[k] \in Listings
    BY <1>2
  <2>2. QED
    BY <2>1 DEF Listings
<1>6. index \in Infos /\ Summary(index[v], cached, Len(cached), v)
  BY <1>1, <1>5, IndexIs
<1>7. row.value = v /\ row.created = index[v].created /\ row.alerts = index[v].alerts
  BY <1>4, <1>5, <1>6, RecordIs
<1>8. {j \in DOMAIN cached : cached[j].value = v} = Mine(cached, Len(cached), v)
  BY <1>1 DEF Mine
<1> HIDE DEF v, index
<1>9. LET mine == {j \in DOMAIN cached : cached[j].value = row.value}
          dated == {cached[j].created : j \in mine} \ {None}
      IN  /\ IF dated = {} THEN row.created = None
             ELSE row.created \in dated /\ \A c \in dated : c <= row.created
          /\ row.alerts = Cardinality({cached[j].no : j \in mine})
  BY <1>6, <1>7, <1>8 DEF Summary, Dated, Nos
<1>10. QED
  BY <1>9 DEF cached, row

LEMMA ReportIs ==
    ASSUME IssuedInv, NEW t, NEW live, live \subseteq Numbers
    PROVE  LET covering == {i \in live : Covers(issued[i].value, t)}
               ends == {issued[i].until - now : i \in {c \in covering : issued[c].told}}
           IN  /\ Report(t, live).blocked
                     <=> \E i \in covering : issued[i].until > now \/ ~issued[i].told
               /\ \A e \in ends : e > 0 =>
                     Report(t, live).left # None /\ e <= Report(t, live).left
<1> DEFINE active == ReportActive(t, live)
           covering == Covering(t, live)
           longest == CHOOSE i \in DOMAIN active :
                         \A j \in DOMAIN active : ~Longer(active[j], active[i])
<1>1. /\ active \in Seq(Row)
      /\ \A i \in DOMAIN active : \E k \in covering :
            Running(k) /\ active[i].left = Decision(k).left
      /\ \A k \in covering : Running(k) => \E i \in DOMAIN active : active[i].left = Decision(k).left
  BY ReportRows
<1>2. /\ Report(t, live).blocked = (active # <<>>)
      /\ Report(t, live).left = IF active = <<>> THEN None ELSE active[longest].left
  BY DEF Report, ReportOrder, ReportActive
<1>3. covering \subseteq Numbers
  BY DEF Covering
<1> HIDE DEF active, covering
<1>4. ASSUME NEW k \in covering
      PROVE  /\ issued[k].told \in BOOLEAN /\ issued[k].until \in Int /\ now \in Int
             /\ Decision(k).left = IF issued[k].told THEN issued[k].until - now ELSE None
  <2>1. k \in Numbers
    BY <1>3
  <2>2. issued[k] \in Issued /\ now \in Int
    BY <2>1 DEF IssuedInv, Numbers
  <2>3. QED
    BY <2>1, <2>2, DecisionIs DEF Issued
<1>5. \A k \in covering : Running(k) <=> issued[k].until > now \/ ~issued[k].told
  BY <1>4, NoneAssumption DEF Running
<1>6. active # <<>> <=> \E k \in covering : Running(k)
  <2>1. active # <<>> <=> DOMAIN active # {}
    BY <1>1
  <2>2. QED
    BY <1>1, <2>1
<1>7. Report(t, live).blocked <=> \E k \in covering : issued[k].until > now \/ ~issued[k].told
  BY <1>2, <1>5, <1>6
<1>8. ASSUME NEW k \in covering, issued[k].told, issued[k].until - now > 0
      PROVE  Report(t, live).left # None /\ issued[k].until - now <= Report(t, live).left
  <2>1. issued[k].until > now /\ Decision(k).left = issued[k].until - now
    BY <1>4, <1>8
  <2>2. PICK a \in DOMAIN active : active[a].left = issued[k].until - now
    BY <1>1, <1>5, <2>1
  <2>3. active # <<>>
    BY <2>2
  <2>4. longest \in DOMAIN active /\ ~Longer(active[a], active[longest])
    <3>1. \E i \in DOMAIN active : \A j \in DOMAIN active : ~Longer(active[j], active[i])
      BY <1>1, <2>3, LongestExists
    <3>2. QED
      BY <3>1
  <2>5. active[longest].left \in Int \cup {None}
    <3>1. active[longest] \in Row
      BY <1>1, <2>4
    <3>2. QED
      BY <3>1 DEF Row, Time
  <2>6. Report(t, live).left = active[longest].left
    BY <1>2, <2>3
  <2> HIDE DEF longest
  <2>7. issued[k].until - now \in Int /\ issued[k].until - now # None
    BY <1>4, NoneAssumption
  <2>8. QED
    BY <2>2, <2>4, <2>5, <2>6, <2>7 DEF Longer
<1>9. QED
  BY <1>7, <1>8 DEF covering, Covering

LEMMA ReportHolds == IssuedInv => ReportAnswers
<1>1. \A live \in LiveSets : live \subseteq Numbers
  BY DEF LiveSets
<1>2. QED
  BY <1>1, ReportIs DEF ReportAnswers

\* Whatever the alerts, the answers and the size of the table: what the cut takes
\* away has not longer to go than what is shown, and is not enforced while an
\* expired row is shown (decisions.py, build_table's sort; coordinator.py, the cut
\* to MAX_DECISION_ROWS).
THEOREM CutKeepsTheLongest == Spec => CutTakesThePast
<1>1. Inv /\ [Next]_vars => [Rebuilt => \A i, j \in DOMAIN rows' :
          LET r == rows'[i]
              s == rows'[j]
          IN  r.key \in Keys(table') /\ s.key \notin Keys(table') =>
                  /\ s.status = "active" => r.status = "active"
                  /\ s.status = r.status /\ None \notin {r.left, s.left} => r.left >= s.left
                  /\ s.status = r.status /\ s.left = None
                        => r.left = None \/ r.status = "expired"]_vars
  BY CutStep
<1>2. QED
  BY <1>1, InvHolds, PTL DEF Spec, CutTakesThePast

\* When the table is built, a local ban of which the cache has an alert has a row
\* for its address, in the list or in the history, unless it was lifted, a central
\* one took its key, or it was issued after the decisions were answered
\* (coordinator.py, the gather; decisions.py, build_table and history_from_alerts).
\* A copy of an alert never puts the end of a ban after the true one, so a ban that
\* seems to be running was listed if it was there, however the alerts, the
\* decisions and the end of the cycle follow each other.
THEOREM NoBanIsLost == Spec => EveryBanShown
<1>1. Inv /\ [Next]_vars => [Rebuilt => \A j \in DOMAIN cache' :
          \/ cache'[j].value \in Values(rows')
          \/ cache'[j].origin = "central"
          \/ cache'[j].no \in lifted
          \/ cache'[j].no > upTo
          \/ \E k \in DOMAIN cache' :
                cache'[k].origin = "central"
                /\ HistoryRow(cache'[k]).key = HistoryRow(cache'[j]).key]_vars
  BY BansStep
<1>2. QED
  BY <1>1, InvHolds, PTL DEF Spec, EveryBanShown

\* When the table is built, a row of the list has the newest timestamp of the alerts
\* of its address, and counts each of them once, in whatever order
\* build_source_index goes over them.
THEOREM RowsAreDescribed == Spec => NewestAlertDescribes
<1>1. Inv /\ [Next]_vars => [Rebuilt => \A i \in DOMAIN rows' : rows'[i].key[1] = "id" =>
          LET mine == {j \in DOMAIN cache' : cache'[j].value = rows'[i].value}
              dated == {cache'[j].created : j \in mine} \ {None}
          IN  /\ IF dated = {} THEN rows'[i].created = None
                 ELSE rows'[i].created \in dated /\ \A c \in dated : c <= rows'[i].created
              /\ rows'[i].alerts = Cardinality({cache'[j].no : j \in mine})]_vars
  BY DescribedStep
<1>2. QED
  BY <1>1, InvHolds, PTL DEF Spec, NewestAlertDescribes

\* build_ip_report says blocked exactly if a decision covers the address, and none
\* of a known end outlasts the time it tells.
THEOREM ReportTellsTheEnd == Spec => []ReportAnswers
  BY InvHolds, ReportHolds, PTL DEF Inv

=============================================================================
