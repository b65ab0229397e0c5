-------------------------- MODULE FocusPlan_proofs --------------------------
(***************************************************************************)
(* What holds of the day plan for any calendar, tasks, commitments and        *)
(* bounds. Of the stored one: the table is never asked for a row it refuses,  *)
(* a write changes the days it is about, a reorder trades slots, a monthly    *)
(* series keeps to its months. Of the one worked out from it: no task is      *)
(* lost, no minute is given twice, and the rank is honoured.                  *)
(***************************************************************************)
EXTENDS FocusPacker, FiniteSetTheorems, WellFoundedInduction, TLAPS

-----------------------------------------------------------------------------
(* Finite sets in order *)

\* Elements before another in a strict order are fewer.
LEMMA FewerBefore ==
  ASSUME NEW S, IsFiniteSet(S), NEW R,
         \A x \in S : <<x, x>> \notin R,
         \A x, y, z \in S : <<x, y>> \in R /\ <<y, z>> \in R => <<x, z>> \in R,
         NEW x \in S, NEW y \in S, <<x, y>> \in R
  PROVE  Cardinality({z \in S : <<z, x>> \in R}) < Cardinality({z \in S : <<z, y>> \in R})
<1> DEFINE X == {z \in S : <<z, x>> \in R}
           Y == {z \in S : <<z, y>> \in R}
<1>1. X \subseteq Y /\ x \in Y /\ x \notin X
  OBVIOUS
<1>2. IsFiniteSet(X) /\ IsFiniteSet(Y)
  BY FS_Subset
<1>3. Cardinality(X) <= Cardinality(Y) /\ Cardinality(X) # Cardinality(Y)
  BY <1>1, <1>2, FS_Subset
<1>4. Cardinality(X) \in Nat /\ Cardinality(Y) \in Nat
  BY <1>2, FS_CardinalityType
<1> QED
  BY <1>3, <1>4

Ordered(S, R) ==
  /\ \A x \in S : <<x, x>> \notin R
  /\ \A x, y, z \in S : <<x, y>> \in R /\ <<y, z>> \in R => <<x, z>> \in R
  /\ \A x, y \in S : x # y => <<x, y>> \in R \/ <<y, x>> \in R

SortedBy(s, R) == \A k, l \in DOMAIN s : k < l => <<s[k], s[l]>> \in R

\* A strict total order puts a finite set in a sequence.
LEMMA OrderExists ==
  ASSUME NEW S, IsFiniteSet(S), NEW R, Ordered(S, R)
  PROVE  \E s \in SetToSeqs(S) : SortedBy(s, R)
<1> DEFINE n == Cardinality(S)
           before(x) == {z \in S : <<z, x>> \in R}
           rank == [x \in S |-> 1 + Cardinality(before(x))]
<1>0. /\ \A x \in S : <<x, x>> \notin R
      /\ \A x, y, z \in S : <<x, y>> \in R /\ <<y, z>> \in R => <<x, z>> \in R
      /\ \A x, y \in S : x # y => <<x, y>> \in R \/ <<y, x>> \in R
  BY DEF Ordered
<1>1. n \in Nat
  BY FS_CardinalityType
<1>2. \A x \in S : Cardinality(before(x)) \in Nat /\ Cardinality(before(x)) < n
  <2> TAKE x \in S
  <2>1. before(x) \subseteq S /\ x \notin before(x)
    BY <1>0
  <2>2. IsFiniteSet(before(x)) /\ Cardinality(before(x)) <= n /\ Cardinality(before(x)) # n
    BY <2>1, FS_Subset
  <2> QED
    BY <1>1, <2>2, FS_CardinalityType
<1>3. \A x, y \in S : <<x, y>> \in R => rank[x] < rank[y]
  <2> SUFFICES ASSUME NEW x \in S, NEW y \in S, <<x, y>> \in R
               PROVE  rank[x] < rank[y]
    OBVIOUS
  <2>1. Cardinality(before(x)) < Cardinality(before(y))
    BY <1>0, FewerBefore
  <2>2. rank[x] = 1 + Cardinality(before(x)) /\ rank[y] = 1 + Cardinality(before(y))
    OBVIOUS
  <2> HIDE DEF rank, before
  <2> QED
    BY <1>2, <2>1, <2>2
<1>4. rank \in [S -> 1..n]
  BY <1>1, <1>2
<1>5. \A x \in S : rank[x] \in Nat
  BY <1>1, <1>4
<1> HIDE DEF rank, before
<1>6. rank \in Injection(S, 1..n)
  <2>1. \A x, y \in S : x # y => rank[x] # rank[y]
    <3> SUFFICES ASSUME NEW x \in S, NEW y \in S, x # y
                 PROVE  rank[x] # rank[y]
      OBVIOUS
    <3>1. <<x, y>> \in R \/ <<y, x>> \in R
      BY <1>0
    <3>2. rank[x] < rank[y] \/ rank[y] < rank[x]
      BY <1>3, <3>1
    <3> QED
      BY <1>5, <3>2
  <2> QED
    BY <1>4, <2>1 DEF Injection, IsInjective
<1>7. IsFiniteSet(1..n) /\ Cardinality(1..n) = n
  BY <1>1, FS_Interval
<1>8. rank \in Surjection(S, 1..n)
  BY <1>6, <1>7, FS_Injection
<1>9. \A k \in 1..n : \E x \in S : rank[x] = k
  BY <1>8 DEF Surjection
<1> DEFINE s == [k \in 1..n |-> CHOOSE x \in S : rank[x] = k]
<1>10. \A k \in 1..n : s[k] \in S /\ rank[s[k]] = k
  BY <1>9
<1>11. s \in [1..n -> S] /\ DOMAIN s = 1..n
  BY <1>10
<1> HIDE DEF s
<1>12. s \in SetToSeqs(S)
  BY <1>10, <1>11 DEF SetToSeqs
<1>13. \A k, l \in DOMAIN s : k < l => <<s[k], s[l]>> \in R
  <2> SUFFICES ASSUME NEW k \in 1..n, NEW l \in 1..n, k < l
               PROVE  <<s[k], s[l]>> \in R
    BY <1>11
  <2>1. s[k] # s[l]
    BY <1>10
  <2>2. <<s[l], s[k]>> \notin R
    BY <1>1, <1>3, <1>10
  <2> QED
    BY <1>0, <1>10, <2>1, <2>2
<1> QED
  BY <1>12, <1>13 DEF SortedBy

\* A sequence of each element once has them all.
LEMMA SequenceOfAll ==
  ASSUME NEW S, IsFiniteSet(S), NEW s \in SetToSeqs(S)
  PROVE  /\ Cardinality(S) \in Nat /\ s \in [1..Cardinality(S) -> S]
         /\ IsInjective(s)
         /\ \A x \in S : \E k \in 1..Cardinality(S) : s[k] = x
<1> DEFINE n == Cardinality(S)
<1>1. n \in Nat
  BY FS_CardinalityType
<1>2. IsFiniteSet(1..n) /\ Cardinality(1..n) = n
  BY <1>1, FS_Interval
<1>3. s \in [1..n -> S] /\ IsInjective(s)
  BY DEF SetToSeqs, IsInjective
<1>4. s \in Injection(1..n, S)
  BY <1>3 DEF Injection
<1>5. s \in Surjection(1..n, S)
  BY <1>2, <1>4, FS_Injection
<1> QED
  BY <1>1, <1>3, <1>5 DEF Surjection

\* How many of a sequence's first elements are in a set, and where they stand.
CountIn(pins, n, N) == [k \in 1..n |-> Cardinality({j \in 1..k : pins[j] \in N})]
PlacesIn(pins, n, N) == {k \in 1..n : pins[k] \in N}

Enumerates(s, n, S) ==
  /\ n \in Nat /\ s \in [1..n -> S] /\ IsInjective(s)
  /\ \A x \in S : \E k \in 1..n : s[k] = x

SlotsMatch(pins, n, m, N) ==
  /\ \A k \in PlacesIn(pins, n, N) : CountIn(pins, n, N)[k] \in 1..m
  /\ \A k, l \in PlacesIn(pins, n, N) :
       k < l => CountIn(pins, n, N)[k] < CountIn(pins, n, N)[l]
  /\ \A i \in 1..m : \E k \in PlacesIn(pins, n, N) : CountIn(pins, n, N)[k] = i

\* The places of some of a sequence's elements, when these are given in an order of
\* their own: the k-th place is for the k-th given.
LEMMA SlotsCounted ==
  ASSUME NEW L, NEW n, NEW pins, Enumerates(pins, n, L),
         NEW N \in SUBSET L, NEW m, NEW ids, Enumerates(ids, m, N)
  PROVE  SlotsMatch(pins, n, m, N)
<1>a. n \in Nat /\ pins \in [1..n -> L] /\ IsInjective(pins) /\ \A x \in L : \E k \in 1..n : pins[k] = x
  BY DEF Enumerates
<1>b. /\ m \in Nat /\ ids \in [1..m -> L] /\ IsInjective(ids)
      /\ (\A i \in 1..m : ids[i] \in N) /\ \A x \in N : \E i \in 1..m : ids[i] = x
  BY DEF Enumerates
<1> DEFINE count == CountIn(pins, n, N)
           P == PlacesIn(pins, n, N)
<1>0. P = {k \in 1..n : pins[k] \in N}
  BY DEF PlacesIn
<1> HIDE DEF P
<1> DEFINE upTo(k) == {j \in 1..k : pins[j] \in N}
<1>1. IsFiniteSet(1..n) /\ IsFiniteSet(1..m) /\ Cardinality(1..m) = m
  BY <1>a, <1>b, FS_Interval
<1>2. IsFiniteSet(P) /\ Cardinality(P) \in Nat
  BY <1>0, <1>1, FS_Subset, FS_CardinalityType
<1>3. Cardinality(P) <= m
  <2> DEFINE at == [k \in P |-> CHOOSE i \in 1..m : ids[i] = pins[k]]
  <2>1. \A k \in P : \E i \in 1..m : ids[i] = pins[k]
    BY <1>0, <1>b
  <2>2. \A k \in P : at[k] \in 1..m /\ ids[at[k]] = pins[k]
    BY <2>1
  <2>3. at \in Injection(P, 1..m)
    <3>1. at \in [P -> 1..m] /\ P \subseteq 1..n
      BY <1>0, <2>2
    <3> HIDE DEF at
    <3>2. \A k, l \in P : at[k] = at[l] => k = l
      BY <1>a, <2>2, <3>1 DEF IsInjective
    <3> QED
      BY <3>1, <3>2 DEF Injection, IsInjective
  <2> QED
    BY <1>1, <2>3, FS_Injection
<1>4. m <= Cardinality(P)
  <2> DEFINE at == [i \in 1..m |-> CHOOSE k \in P : pins[k] = ids[i]]
  <2>1. \A i \in 1..m : \E k \in P : pins[k] = ids[i]
    BY <1>0, <1>a, <1>b
  <2>2. \A i \in 1..m : at[i] \in P /\ pins[at[i]] = ids[i]
    BY <2>1
  <2>3. at \in [1..m -> P]
    BY <2>2
  <2> HIDE DEF at
  <2>4. \A i, j \in 1..m : at[i] = at[j] => i = j
    BY <1>b, <2>2 DEF IsInjective
  <2>5. at \in Injection(1..m, P)
    BY <2>3, <2>4 DEF Injection, IsInjective
  <2> QED
    BY <1>1, <1>2, <2>5, FS_Injection
<1>5. Cardinality(P) = m
  BY <1>2, <1>3, <1>4, <1>b
<1>6. \A k \in 1..n : IsFiniteSet(upTo(k)) /\ Cardinality(upTo(k)) \in Nat
                      /\ Cardinality(upTo(k)) <= m /\ upTo(k) \subseteq P
  <2> TAKE k \in 1..n
  <2>1. upTo(k) \subseteq P
    BY <1>0, <1>a
  <2> QED
    BY <1>2, <1>5, <2>1, FS_Subset, FS_CardinalityType
<1>7. \A k \in P : k \in 1..n /\ k \in upTo(k)
  BY <1>0
<1>8. \A k \in P : Cardinality(upTo(k)) # 0
  BY <1>6, <1>7, FS_EmptySet
<1>9. ASSUME NEW k \in P, NEW l \in P, k < l
      PROVE  Cardinality(upTo(k)) < Cardinality(upTo(l))
  <2>1. upTo(k) \subseteq upTo(l) /\ l \in upTo(l) /\ l \notin upTo(k)
    BY <1>7, <1>9
  <2>2. Cardinality(upTo(k)) <= Cardinality(upTo(l)) /\ Cardinality(upTo(k)) # Cardinality(upTo(l))
    BY <1>6, <1>7, <2>1, FS_Subset
  <2>3. k \in 1..n /\ l \in 1..n
    BY <1>7
  <2>4. Cardinality(upTo(k)) \in Nat /\ Cardinality(upTo(l)) \in Nat
    BY <1>6, <2>3
  <2> HIDE DEF upTo
  <2> QED
    BY <2>2, <2>4
<1>10. \A k \in P : count[k] = Cardinality(upTo(k))
  BY <1>7 DEF CountIn
<1> HIDE DEF upTo, count
<1>11. ASSUME NEW k \in P
       PROVE  count[k] \in 1..m
  <2>1. Cardinality(upTo(k)) \in Nat /\ Cardinality(upTo(k)) <= m
    BY <1>6, <1>7
  <2>2. Cardinality(upTo(k)) # 0 /\ count[k] = Cardinality(upTo(k))
    BY <1>8, <1>10
  <2> QED
    BY <1>b, <2>1, <2>2
<1>12. \A k, l \in P : k < l => count[k] < count[l]
  BY <1>9, <1>10
<1>13. \A i \in 1..m : \E k \in P : count[k] = i
  <2> DEFINE c == [k \in P |-> count[k]]
  <2>1. c \in [P -> 1..m]
    BY <1>11
  <2>2. \A k, l \in P : k # l => c[k] # c[l]
    <3> SUFFICES ASSUME NEW k \in P, NEW l \in P, k # l
                 PROVE  count[k] # count[l]
      OBVIOUS
    <3>1. k \in Int /\ l \in Int /\ (k < l \/ l < k)
      BY <1>7
    <3>2. count[k] \in 1..m /\ count[l] \in 1..m
      BY <1>11
    <3>3. count[k] < count[l] \/ count[l] < count[k]
      BY <1>12, <3>1
    <3> QED
      BY <3>2, <3>3
  <2> HIDE DEF c
  <2>3. c \in Injection(P, 1..m)
    BY <2>1, <2>2 DEF Injection, IsInjective
  <2>4. c \in Surjection(P, 1..m)
    BY <1>1, <1>5, <2>3, FS_Injection
  <2> QED
    BY <2>4 DEF Surjection, c
<1> QED
  BY <1>11, <1>12, <1>13 DEF count, P, SlotsMatch

\* A finite set of integers has a greatest and a least element.
LEMMA Extremes ==
  ASSUME NEW S \in SUBSET Int, IsFiniteSet(S), S # {}
  PROVE  /\ Max(S) \in S /\ \A x \in S : x <= Max(S)
         /\ Min(S) \in S /\ \A x \in S : Min(S) <= x
<1> DEFINE R == {p \in S \X S : p[1] < p[2]}
           n == Cardinality(S)
<1>1. \A x, y \in S : <<x, y>> \in R <=> x < y
  OBVIOUS
<1> HIDE DEF R
<1>2. Ordered(S, R)
  BY <1>1 DEF Ordered
<1>2a. PICK s \in SetToSeqs(S) : SortedBy(s, R)
  BY <1>2, OrderExists
<1>3. n \in Nat /\ s \in [1..n -> S] /\ \A x \in S : \E k \in 1..n : s[k] = x
  BY SequenceOfAll
<1>4. 1 \in 1..n /\ n \in 1..n
  BY <1>3, FS_EmptySet
<1>5. \A k, l \in 1..n : k < l => s[k] < s[l]
  BY <1>1, <1>2a, <1>3 DEF SortedBy
<1>6. \A x \in S : x <= s[n] /\ s[1] <= x
  <2> TAKE x \in S
  <2>1. PICK k \in 1..n : s[k] = x
    BY <1>3
  <2>2. s[k] \in Int /\ s[1] \in Int /\ s[n] \in Int
    BY <1>3, <1>4
  <2>3. (k = n \/ k < n) /\ (k = 1 \/ 1 < k)
    BY <1>3
  <2> QED
    BY <1>4, <1>5, <2>1, <2>2, <2>3
<1>7. s[1] \in S /\ s[n] \in S
  BY <1>3, <1>4
<1>8. (\E x \in S : \A y \in S : x >= y) /\ (\E x \in S : \A y \in S : x =< y)
  BY <1>6, <1>7
<1>9. Max(S) \in S /\ \A y \in S : Max(S) >= y
  BY <1>8 DEF Max
<1>10. Min(S) \in S /\ \A y \in S : Min(S) =< y
  BY <1>8 DEF Min
<1> QED
  BY <1>9, <1>10

-----------------------------------------------------------------------------
(* The table's types *)

EInv == EntriesTypeOK /\ TableAccepts

LEMMA EntryFields ==
  ASSUME NEW e \in Entries
  PROVE  /\ e # None /\ e.day \in Days /\ e.day \in Nat /\ e.task \in Tasks \cup {None}
         /\ e.series \in Ids \cup {None} /\ e.titled \in BOOLEAN /\ e.start \in Nat \cup {None}
         /\ e.length \in Nat \cup {None} /\ e.position \in Nat
         /\ e.cadence \in Cadences \cup {None} /\ e.stop \in Days \cup {None} /\ e.live \in BOOLEAN
BY EntriesAssumption DEF Entries

LEMMA RowsTyped ==
  ASSUME EntriesTypeOK
  PROVE  /\ \A i \in Stored : i \in Ids /\ rows[i] \in Entries
         /\ \A i \in LiveRows : i \in Stored /\ rows[i].live
         /\ IsFiniteSet(Ids) /\ IsFiniteSet(Stored) /\ IsFiniteSet(LiveRows)
<1>1. \A i \in Stored : i \in Ids /\ rows[i] \in Entries
  BY DEF EntriesTypeOK, Stored
<1>2. IsFiniteSet(Ids)
  BY EntriesAssumption, FS_Interval DEF Ids
<1>3. Stored \subseteq Ids /\ LiveRows \subseteq Ids
  BY DEF Stored, LiveRows
<1> QED
  BY <1>1, <1>2, <1>3, FS_Subset DEF LiveRows

\* An insert takes a place that is free.
LEMMA NextIdFree ==
  ASSUME EntriesTypeOK, NextId \in Ids
  PROVE  rows[NextId] = None
<1> DEFINE S == Stored \cup {0}
<1>1. S \in SUBSET Int /\ S # {} /\ IsFiniteSet(S)
  <2>1. S \subseteq Int
    BY EntriesAssumption DEF Stored, Ids
  <2> QED
    BY <2>1, RowsTyped, FS_AddElement
<1>2. Max(S) \in S /\ \A i \in S : i <= Max(S)
  BY <1>1, Extremes
<1> HIDE DEF S
<1>3. Max(S) \in Int /\ NextId = 1 + Max(S)
  BY <1>1, <1>2 DEF NextId, S
<1>4. NextId \notin S
  BY <1>1, <1>2, <1>3
<1> QED
  BY <1>4 DEF S, Stored

LEMMA NextPositionTyped ==
  ASSUME EntriesTypeOK, NEW day
  PROVE  NextPosition(day) \in Nat
<1> DEFINE at == {j \in LiveRows : rows[j].day = day}
           used == {rows[i].position : i \in at}
           f == [i \in at |-> rows[i].position]
<1>0. NextPosition(day) = IF used = {} THEN 0 ELSE Max(used) + 1
  BY DEF NextPosition
<1>1. IsFiniteSet(at)
  BY RowsTyped, FS_Subset
<1>2. f \in Surjection(at, used)
  BY DEF Surjection
<1>3. IsFiniteSet(used)
  BY <1>1, <1>2, FS_Surjection
<1>4. used \subseteq Nat
  <2> SUFFICES ASSUME NEW i \in LiveRows
               PROVE  rows[i].position \in Nat
    OBVIOUS
  <2>1. rows[i] \in Entries
    BY RowsTyped
  <2> QED
    BY <2>1, EntryFields
<1> HIDE DEF used
<1>6. CASE used # {}
  <2>1. used \in SUBSET Int
    BY <1>4
  <2>2. Max(used) \in used
    BY <1>3, <1>6, <2>1, Extremes
  <2> QED
    <3>1. Max(used) \in Nat
      BY <1>4, <2>2
    <3>2. NextPosition(day) = Max(used) + 1
      BY <1>0, <1>6
    <3> QED
      BY <3>1, <3>2
<1>7. CASE used = {}
  BY <1>0, <1>7
<1> QED
  BY <1>6, <1>7

-----------------------------------------------------------------------------
(* The order of a day's pins *)

LEMMA PinsSorted ==
  ASSUME EntriesTypeOK, NEW day
  PROVE  /\ IsFiniteSet(LivePins(day)) /\ LivePins(day) \subseteq LiveRows
         /\ PinsInOrder(day) \in SetToSeqs(LivePins(day))
         /\ \A k, l \in DOMAIN PinsInOrder(day) :
              k < l => EntryOrder(PinsInOrder(day)[k], PinsInOrder(day)[l])
<1> DEFINE S == LivePins(day)
           R == {p \in Ids \X Ids : EntryOrder(p[1], p[2])}
<1>1. S \subseteq LiveRows
  BY DEF LivePins
<1>2. IsFiniteSet(S)
  BY <1>1, RowsTyped, FS_Subset
<1>3. \A i \in S : i \in Ids /\ i \in Nat /\ rows[i].position \in Nat
  <2> TAKE i \in S
  <2>1. i \in Ids /\ rows[i] \in Entries
    BY <1>1, RowsTyped
  <2> QED
    BY <2>1, EntryFields, EntriesAssumption DEF Ids
<1>4. \A i, j \in S : <<i, j>> \in R <=> EntryOrder(i, j)
  BY <1>3
<1>5. \A i \in S : <<i, i>> \notin R
  BY <1>3, <1>4 DEF EntryOrder
<1>6. \A i, j, k \in S : <<i, j>> \in R /\ <<j, k>> \in R => <<i, k>> \in R
  <2> SUFFICES ASSUME NEW i \in S, NEW j \in S, NEW k \in S, EntryOrder(i, j), EntryOrder(j, k)
               PROVE  EntryOrder(i, k)
    BY <1>4
  <2> QED
    BY <1>3 DEF EntryOrder
<1>7. \A i, j \in S : i # j => <<i, j>> \in R \/ <<j, i>> \in R
  <2> SUFFICES ASSUME NEW i \in S, NEW j \in S, i # j
               PROVE  EntryOrder(i, j) \/ EntryOrder(j, i)
    BY <1>4
  <2> QED
    BY <1>3 DEF EntryOrder
<1> HIDE DEF R
<1>7a. Ordered(S, R)
  BY <1>5, <1>6, <1>7 DEF Ordered
<1>8. PICK s \in SetToSeqs(S) : SortedBy(s, R)
  BY <1>2, <1>7a, OrderExists
<1>9. \A k \in DOMAIN s : s[k] \in S
  BY <1>8 DEF SetToSeqs
<1>10. \A k, l \in DOMAIN s : k < l => EntryOrder(s[k], s[l])
  BY <1>4, <1>8, <1>9 DEF SortedBy
<1>11. \E t \in SetToSeqs(S) : \A k, l \in DOMAIN t : k < l => EntryOrder(t[k], t[l])
  BY <1>8, <1>10
<1> HIDE DEF S
<1>12. /\ PinsInOrder(day) \in SetToSeqs(S)
       /\ \A k, l \in DOMAIN PinsInOrder(day) :
            k < l => EntryOrder(PinsInOrder(day)[k], PinsInOrder(day)[l])
  <2> DEFINE P(t) == \A k, l \in DOMAIN t : k < l => EntryOrder(t[k], t[l])
  <2>1. PinsInOrder(day) = CHOOSE t \in SetToSeqs(S) : P(t)
    BY DEF PinsInOrder, S
  <2>2. \E t \in SetToSeqs(S) : P(t)
    BY <1>11
  <2> HIDE DEF P
  <2>3. PinsInOrder(day) \in SetToSeqs(S) /\ P(PinsInOrder(day))
    BY <2>1, <2>2
  <2> QED
    BY <2>3 DEF P
<1> QED
  BY <1>1, <1>2, <1>12 DEF S

\* A reorder of a day's pins is one of its enumerations: each slot of a named pin goes
\* to a named pin, in the order given, and the others stay.
LEMMA SlotsTraded ==
  ASSUME EntriesTypeOK, NEW day, NEW A \in SUBSET LivePins(day), NEW ids \in SetToSeqs(A)
  PROVE  LET n == Cardinality(LivePins(day))
             pins == PinsInOrder(day)
             after == Reordered(day, ids)
         IN  /\ n \in Nat /\ DOMAIN pins = 1..n /\ after \in [1..n -> LivePins(day)]
             /\ IsInjective(after)
             /\ \A x \in LivePins(day) : \E k \in 1..n : after[k] = x
             /\ \A k \in 1..n : pins[k] \notin A => after[k] = pins[k]
             /\ \A p, q \in DOMAIN ids, k, l \in 1..n :
                  p < q /\ after[k] = ids[p] /\ after[l] = ids[q] => k < l
             /\ A = ToSet(ids)
<1> DEFINE L == LivePins(day)
           n == Cardinality(L)
           m == Cardinality(A)
           pins == PinsInOrder(day)
           after == Reordered(day, ids)
           count == CountIn(pins, n, A)
           P == PlacesIn(pins, n, A)
<1>1. IsFiniteSet(L) /\ pins \in SetToSeqs(L)
  BY PinsSorted
<1>2. IsFiniteSet(A)
  BY <1>1, FS_Subset
<1>3. n \in Nat /\ pins \in [1..n -> L] /\ IsInjective(pins) /\ \A x \in L : \E k \in 1..n : pins[k] = x
  BY <1>1, SequenceOfAll
<1>4. m \in Nat /\ ids \in [1..m -> A] /\ IsInjective(ids) /\ \A x \in A : \E k \in 1..m : ids[k] = x
  BY <1>2, SequenceOfAll
<1>5. A = {ids[i] : i \in 1..m} /\ A = ToSet(ids) /\ DOMAIN ids = 1..m /\ DOMAIN pins = 1..n
  BY <1>3, <1>4 DEF ToSet
<1>6. ids \in [1..m -> L]
  BY <1>4
<1>7. after = [k \in 1..n |-> IF k \in P THEN ids[count[k]] ELSE pins[k]]
  BY <1>3, <1>5 DEF Reordered, CountIn, PlacesIn
<1> HIDE DEF L, n, m, pins, after, count, P
<1>8. /\ \A k \in P : count[k] \in 1..m
      /\ \A k, l \in P : k < l => count[k] < count[l]
      /\ \A i \in 1..m : \E k \in P : count[k] = i
  <2>1. Enumerates(pins, n, L) /\ Enumerates(ids, m, A)
    BY <1>3, <1>4 DEF Enumerates
  <2>2. A \in SUBSET L
    BY DEF L
  <2>3. SlotsMatch(pins, n, m, A)
    BY <2>1, <2>2, SlotsCounted
  <2> QED
    BY <2>3 DEF SlotsMatch, count, P
<1>9. \A k \in 1..n : /\ k \in P => after[k] = ids[count[k]] /\ after[k] \in A
                      /\ k \notin P => after[k] = pins[k] /\ after[k] \notin A
                      /\ k \in P <=> pins[k] \in A
  BY <1>4, <1>7, <1>8 DEF P, PlacesIn
<1>10. A \subseteq L /\ P \subseteq 1..n
  BY DEF L, P, PlacesIn
<1>11. after \in [1..n -> L]
  BY <1>3, <1>7, <1>9, <1>10
<1>12. \A k, l \in P : after[k] = after[l] => k = l
  <2> SUFFICES ASSUME NEW k \in P, NEW l \in P, after[k] = after[l], k # l
               PROVE  FALSE
    OBVIOUS
  <2>1. count[k] = count[l]
    <3>1. count[k] \in 1..m /\ count[l] \in 1..m
      BY <1>8
    <3>2. ids[count[k]] = ids[count[l]]
      BY <1>9, <1>10
    <3>3. DOMAIN ids = 1..m
      BY <1>4
    <3> QED
      BY <1>4, <3>1, <3>2, <3>3 DEF IsInjective
  <2>2. k \in Int /\ l \in Int /\ count[k] \in Int
    BY <1>8, <1>10
  <2> QED
    BY <1>8, <2>1, <2>2
<1>13. \A k, l \in 1..n : after[k] = after[l] => k = l
  <2> SUFFICES ASSUME NEW k \in 1..n, NEW l \in 1..n, after[k] = after[l]
               PROVE  k = l
    OBVIOUS
  <2>1. k \in P <=> l \in P
    BY <1>9
  <2>2. CASE k \in P
    BY <1>12, <2>1, <2>2
  <2>3. CASE k \notin P
    BY <1>3, <1>9, <2>1, <2>3 DEF IsInjective
  <2> QED
    BY <2>2, <2>3
<1>14. ASSUME NEW x \in L
       PROVE  \E k \in 1..n : after[k] = x
  <2>1. CASE x \in A
    <3>1. PICK i \in 1..m : ids[i] = x
      BY <1>4, <2>1
    <3>2. PICK k \in P : count[k] = i
      BY <1>8
    <3> QED
      BY <1>9, <1>10, <3>1, <3>2
  <2>2. CASE x \notin A
    <3>1. PICK k \in 1..n : pins[k] = x
      BY <1>3
    <3> QED
      BY <1>9, <2>2, <3>1
  <2> QED
    BY <2>1, <2>2
<1>15. ASSUME NEW p \in 1..m, NEW q \in 1..m, NEW k \in 1..n, NEW l \in 1..n,
              p < q, after[k] = ids[p], after[l] = ids[q]
       PROVE  k < l
  <2>1. k \in P /\ l \in P
    BY <1>4, <1>9, <1>15
  <2>2. count[k] = p /\ count[l] = q
    <3>1. count[k] \in 1..m /\ ids[count[k]] = ids[p]
      BY <1>8, <1>9, <1>15, <2>1
    <3>2. count[l] \in 1..m /\ ids[count[l]] = ids[q]
      BY <1>8, <1>9, <1>15, <2>1
    <3> QED
      BY <1>4, <3>1, <3>2 DEF IsInjective
  <2>3. ~(l < k) /\ l # k
    BY <1>8, <1>15, <2>1, <2>2
  <2> QED
    BY <2>3
<1>16. IsInjective(after)
  BY <1>11, <1>13 DEF IsInjective
<1>17. \A p, q \in DOMAIN ids, k, l \in 1..n :
         p < q /\ after[k] = ids[p] /\ after[l] = ids[q] => k < l
  BY <1>5, <1>15
<1> QED
  BY <1>3, <1>5, <1>9, <1>11, <1>14, <1>16, <1>17 DEF L, n, pins, after

-----------------------------------------------------------------------------
(* What the table accepts *)

\* One of the kinds of row, an end only on a series and after its first day.
KindOf(e) ==
  LET block == e.titled /\ e.start # None /\ e.length # None
      bare  == ~e.titled /\ e.length = None /\ e.cadence = None
  IN  /\ \/ e.task # None /\ e.series = None /\ bare
         \/ e.task = None /\ e.series = None /\ block
         \/ e.series # None /\ e.task = None /\ bare /\ e.start = None
         \/ e.series # None /\ e.task = None /\ block /\ e.cadence = None
      /\ e.stop # None => e.cadence # None /\ e.stop > e.day

\* No two rows for one pin or one occurrence.
Apart(e, f) ==
  e.day = f.day => /\ e.task = f.task => e.task = None
                   /\ e.series = f.series => e.series = None

LEMMA AcceptsMeans ==
  TableAccepts <=>
    /\ \A i, j \in LiveRows : i # j => Apart(rows[i], rows[j])
    /\ \A i \in Stored : KindOf(rows[i])
    /\ \A i \in Stored : rows[i].series # None =>
         rows[i].series \in Stored /\ IsSeries(rows[rows[i].series])
    /\ \A i \in Stored : rows[i].task # None => tasks[rows[i].task].life # "gone"
BY DEF TableAccepts, Apart, KindOf

LEMMA AcceptsMeansNext ==
  TableAccepts' <=>
    /\ \A i, j \in LiveRows' : i # j => Apart(rows'[i], rows'[j])
    /\ \A i \in Stored' : KindOf(rows'[i])
    /\ \A i \in Stored' : rows'[i].series # None =>
         rows'[i].series \in Stored' /\ IsSeries(rows'[rows'[i].series])
    /\ \A i \in Stored' : rows'[i].task # None => tasks'[rows'[i].task].life # "gone"
BY DEF TableAccepts, Apart, KindOf

\* One row written, for an accepted one.
LEMMA RowWritten ==
  ASSUME EInv, NEW i \in Ids, NEW e \in Entries, rows' = [rows EXCEPT ![i] = e],
         tasks' = tasks, writes' \in 0..MaxWrites, KindOf(e),
         e.series # None => e.series \in Stored \ {i} /\ IsSeries(rows[e.series]),
         i \in Stored /\ IsSeries(rows[i]) => IsSeries(e),
         e.task # None => tasks[e.task].life # "gone",
         e.live => \A j \in LiveRows \ {i} : Apart(e, rows[j])
  PROVE  EInv'
<1>1. EntriesTypeOK /\ TableAccepts
  BY DEF EInv
<1>2. rows \in [Ids -> Entries \cup {None}] /\ e # None
  BY <1>1, EntryFields DEF EntriesTypeOK
<1>3. /\ rows' \in [Ids -> Entries \cup {None}] /\ rows'[i] = e
      /\ \A j \in Ids : j # i => rows'[j] = rows[j]
  BY <1>2
<1>4. EntriesTypeOK'
  BY <1>1, <1>3 DEF EntriesTypeOK
<1>5. Stored' = Stored \cup {i}
  BY <1>2, <1>3 DEF Stored
<1>6. \A j \in LiveRows' : j # i => j \in LiveRows
  BY <1>3 DEF LiveRows, Stored
<1>7. i \in LiveRows' => e.live
  BY <1>3 DEF LiveRows
<1>8. Stored \subseteq Ids /\ LiveRows \subseteq Ids
  BY DEF Stored, LiveRows
<1>9. \A j, k \in LiveRows' : j # k => Apart(rows'[j], rows'[k])
  <2> SUFFICES ASSUME NEW j \in LiveRows', NEW k \in LiveRows', j # k
               PROVE  Apart(rows'[j], rows'[k])
    OBVIOUS
  <2>1. CASE j # i /\ k # i
    BY <1>1, <1>3, <1>6, <1>8, <2>1, AcceptsMeans
  <2>2. CASE j = i
    <3>1. k \in LiveRows \ {i} /\ rows'[k] = rows[k] /\ e.live
      BY <1>3, <1>6, <1>7, <1>8, <2>2
    <3> QED
      BY <1>3, <2>2, <3>1
  <2>3. CASE k = i
    <3>1. j \in LiveRows \ {i} /\ rows'[j] = rows[j] /\ e.live
      BY <1>3, <1>6, <1>7, <1>8, <2>3
    <3>2. Apart(e, rows[j])
      BY <3>1
    <3> QED
      BY <1>3, <2>3, <3>1, <3>2 DEF Apart
  <2> QED
    BY <2>1, <2>2, <2>3
<1>10. \A j \in Stored : IsSeries(rows[j]) => IsSeries(rows'[j])
  BY <1>3, <1>8
<1>11. \A j \in Stored' : /\ KindOf(rows'[j])
                          /\ rows'[j].series # None =>
                               rows'[j].series \in Stored' /\ IsSeries(rows'[rows'[j].series])
                          /\ rows'[j].task # None => tasks'[rows'[j].task].life # "gone"
  <2> SUFFICES ASSUME NEW j \in Stored'
               PROVE  /\ KindOf(rows'[j])
                      /\ rows'[j].series # None =>
                           rows'[j].series \in Stored' /\ IsSeries(rows'[rows'[j].series])
                      /\ rows'[j].task # None => tasks'[rows'[j].task].life # "gone"
    OBVIOUS
  <2>1. CASE j = i
    BY <1>3, <1>5, <1>10, <2>1
  <2>2. CASE j # i
    <3>1. j \in Stored /\ rows'[j] = rows[j]
      BY <1>3, <1>5, <1>8, <2>2
    <3> QED
      BY <1>1, <1>5, <1>10, <3>1, AcceptsMeans
  <2> QED
    BY <2>1, <2>2
<1>12. TableAccepts'
  BY <1>9, <1>11, AcceptsMeansNext
<1> QED
  BY <1>4, <1>12 DEF EInv

\* A row inserted where there was none.
LEMMA Inserted ==
  ASSUME EInv, NEW e \in Entries, Insert(e), KindOf(e),
         e.series # None => e.series \in Stored /\ IsSeries(rows[e.series]),
         e.task # None => tasks[e.task].life # "gone",
         \A j \in LiveRows : Apart(e, rows[j])
  PROVE  EInv'
<1>1. /\ NextId \in Ids /\ rows[NextId] = None
      /\ rows' = [rows EXCEPT ![NextId] = e] /\ tasks' = tasks /\ writes' \in 0..MaxWrites
  BY NextIdFree DEF EInv, Insert, EntriesTypeOK
<1>2. NextId \notin Stored
  BY <1>1 DEF Stored
<1> HIDE DEF NextId
<1>3. /\ e.series # None => e.series \in Stored \ {NextId} /\ IsSeries(rows[e.series])
      /\ ~(NextId \in Stored /\ IsSeries(rows[NextId]))
      /\ \A j \in LiveRows \ {NextId} : Apart(e, rows[j])
  BY <1>2
<1> QED
  BY <1>1, <1>3, RowWritten

\* A row rewritten in place: the same pin or occurrence, and alive if it was.
LEMMA Rewritten ==
  ASSUME EInv, NEW i \in Stored, NEW e \in Entries, rows' = [rows EXCEPT ![i] = e],
         tasks' = tasks, writes' \in 0..MaxWrites, KindOf(e),
         e.day = rows[i].day, e.task = rows[i].task, e.series = rows[i].series,
         e.cadence = rows[i].cadence, e.live => i \in LiveRows
  PROVE  EInv'
<1>1. EntriesTypeOK /\ TableAccepts /\ i \in Ids /\ rows[i] \in Entries
  BY RowsTyped DEF EInv
<1>2. KindOf(rows[i])
  BY <1>1, AcceptsMeans
<1>3. e.series # None => e.series \in Stored \ {i} /\ IsSeries(rows[e.series])
  BY <1>1, <1>2, AcceptsMeans DEF KindOf, IsSeries
<1>4. IsSeries(rows[i]) => IsSeries(e)
  BY DEF IsSeries
<1>5. e.task # None => tasks[e.task].life # "gone"
  BY <1>1, AcceptsMeans
<1>6. e.live => \A j \in LiveRows \ {i} : Apart(e, rows[j])
  BY <1>1, AcceptsMeans DEF Apart
<1> QED
  BY <1>1, <1>3, <1>4, <1>5, <1>6, RowWritten

LEMMA WriteCounted ==
  ASSUME EntriesTypeOK, Write
  PROVE  writes' \in 0..MaxWrites
BY EntriesAssumption DEF EntriesTypeOK, Write

-----------------------------------------------------------------------------
(* The writes keep it *)

LEMMA PinTaskKeeps ==
  ASSUME EInv, NEW day \in PinDays, NEW t \in Tasks, NEW start \in PinTimes, PinTask(day, t, start)
  PROVE  EInv'
<1>1. /\ day \in Days /\ start \in Nat \cup {None} /\ t # None /\ t \in Nat
      /\ tasks[t].life # "gone"
  BY EntriesAssumption DEF PinTask, Pinnable, TopLevel, Active
<1>2. EntriesTypeOK
  BY DEF EInv
<1>3. CASE /\ LivePin(day, t) = {}
           /\ Insert([Entry(day) EXCEPT !.task = t, !.start = start, !.position = NextPosition(day)])
  <2> DEFINE p == NextPosition(day)
             e == [Entry(day) EXCEPT !.task = t, !.start = start, !.position = p]
  <2>1. p \in Nat
    BY <1>2, NextPositionTyped
  <2> HIDE DEF p
  <2>2. /\ e \in Entries /\ e.task = t /\ e.series = None /\ ~e.titled /\ e.day = day
        /\ e.length = None /\ e.cadence = None /\ e.stop = None
    BY <1>1, <2>1 DEF Entry, Entries
  <2>3. Insert(e)
    BY <1>3 DEF p
  <2> HIDE DEF e
  <2>4. KindOf(e)
    BY <1>1, <2>2 DEF KindOf
  <2>5. \A j \in LiveRows : Apart(e, rows[j])
    BY <1>3, <2>2 DEF Apart, LivePin
  <2> QED
    BY <1>1, <2>2, <2>3, <2>4, <2>5, Inserted
<1>4. CASE /\ Write
           /\ \E i \in LivePin(day, t) :
                rows[i].start # start /\ rows' = [rows EXCEPT ![i].start = start]
           /\ UNCHANGED tasks
  <2>1. PICK i \in LivePin(day, t) : rows' = [rows EXCEPT ![i].start = start]
    BY <1>4
  <2>2. i \in LiveRows /\ i \in Stored /\ rows[i] \in Entries /\ rows[i].task = t
    BY <1>2, RowsTyped DEF LivePin
  <2> DEFINE e == [rows[i] EXCEPT !.start = start]
  <2>3. /\ e \in Entries /\ e.task = t /\ e.day = rows[i].day /\ e.series = rows[i].series
        /\ e.titled = rows[i].titled /\ e.length = rows[i].length /\ e.cadence = rows[i].cadence
        /\ e.stop = rows[i].stop
    BY <1>1, <2>2 DEF Entries
  <2>4. rows' = [rows EXCEPT ![i] = e]
    BY <2>1
  <2> HIDE DEF e
  <2>5. KindOf(rows[i])
    BY <2>2, AcceptsMeans DEF EInv
  <2>6. KindOf(e)
    BY <1>1, <2>2, <2>3, <2>5 DEF KindOf
  <2> QED
    BY <1>2, <1>4, <2>2, <2>3, <2>4, <2>6, WriteCounted, Rewritten
<1> QED
  BY <1>3, <1>4 DEF PinTask

LEMMA AddCommitmentKeeps ==
  ASSUME EInv, NEW b \in Bookings, AddCommitment(b)
  PROVE  EInv'
<1> DEFINE p == NextPosition(b.day)
           e == [Entry(b.day) EXCEPT !.titled = TRUE, !.start = b.start, !.length = b.length,
                                     !.position = p, !.cadence = b.cadence]
<1>1. /\ b.day \in Days /\ b.start \in Nat /\ b.length \in Nat
      /\ b.cadence \in Cadences \cup {None} /\ b.start # None /\ b.length # None
  BY EntriesAssumption
<1>2. p \in Nat
  BY NextPositionTyped DEF EInv
<1>3. Insert(e)
  BY DEF AddCommitment
<1> HIDE DEF p
<1>4. /\ e \in Entries /\ e.task = None /\ e.series = None /\ e.titled /\ e.stop = None
      /\ e.start # None /\ e.length # None
  BY <1>1, <1>2 DEF Entry, Entries
<1> HIDE DEF e
<1>5. KindOf(e) /\ \A j \in LiveRows : Apart(e, rows[j])
  BY <1>4 DEF KindOf, Apart
<1> QED
  BY <1>3, <1>4, <1>5, Inserted

LEMMA SkipOccurrenceKeeps ==
  ASSUME EInv, NEW s \in Ids, NEW day \in TouchedDays, SkipOccurrence(s, day)
  PROVE  EInv'
<1> DEFINE e == [Entry(day) EXCEPT !.series = s]
<1>1. day \in Days /\ s # None /\ s \in Stored /\ IsSeries(rows[s])
  BY EntriesAssumption DEF SkipOccurrence, Occurrence, LiveRows, Ids
<1>2. /\ e \in Entries /\ e.task = None /\ e.series = s /\ ~e.titled /\ e.stop = None
      /\ e.start = None /\ e.length = None /\ e.cadence = None /\ e.day = day
  BY <1>1 DEF Entry, Entries
<1>3. Insert(e)
  BY DEF SkipOccurrence
<1> HIDE DEF e
<1>4. KindOf(e)
  BY <1>1, <1>2 DEF KindOf
<1>5. \A j \in LiveRows : Apart(e, rows[j])
  BY <1>2 DEF Apart, SkipOccurrence, LiveExceptions
<1> QED
  BY <1>1, <1>2, <1>3, <1>4, <1>5, Inserted

LEMMA PatchedTyped ==
  ASSUME NEW e \in Entries, NEW fields \in Edits
  PROVE  /\ Patched(e, fields) \in Entries
         /\ Patched(e, fields).day = e.day /\ Patched(e, fields).task = e.task
         /\ Patched(e, fields).series = e.series /\ Patched(e, fields).titled = e.titled
         /\ Patched(e, fields).position = e.position /\ Patched(e, fields).cadence = e.cadence
         /\ Patched(e, fields).stop = e.stop /\ Patched(e, fields).live = e.live
         /\ Patched(e, fields).start =
              IF "start" \in DOMAIN fields THEN fields.start ELSE e.start
         /\ Patched(e, fields).length =
              IF "length" \in DOMAIN fields THEN fields.length ELSE e.length
<1> DEFINE a == IF "start" \in DOMAIN fields THEN fields.start ELSE e.start
           l == IF "length" \in DOMAIN fields THEN fields.length ELSE e.length
<1>1. a \in Nat \cup {None} /\ l \in Nat \cup {None}
  BY EntriesAssumption, EntryFields
<1>2. Patched(e, fields) = [e EXCEPT !.start = a, !.length = l]
  BY DEF Patched, Entries
<1> HIDE DEF a, l
<1>3. /\ Patched(e, fields) \in Entries
      /\ Patched(e, fields).start = a /\ Patched(e, fields).length = l
  BY <1>1, <1>2 DEF Entries
<1>4. /\ Patched(e, fields).day = e.day /\ Patched(e, fields).task = e.task
      /\ Patched(e, fields).series = e.series /\ Patched(e, fields).titled = e.titled
      /\ Patched(e, fields).position = e.position /\ Patched(e, fields).cadence = e.cadence
      /\ Patched(e, fields).stop = e.stop /\ Patched(e, fields).live = e.live
  BY <1>2 DEF Entries
<1> QED
  BY <1>3, <1>4 DEF a, l

LEMMA UpdateEntryKeeps ==
  ASSUME EInv, NEW i \in Ids, NEW fields \in Edits, UpdateEntry(i, fields)
  PROVE  EInv'
<1> DEFINE e == Patched(rows[i], fields)
<1>1. EntriesTypeOK /\ i \in LiveRows /\ i \in Stored /\ rows[i] \in Entries /\ KindOf(rows[i])
  BY RowsTyped, AcceptsMeans DEF EInv, UpdateEntry
<1>2. rows' = [rows EXCEPT ![i] = e] /\ tasks' = tasks /\ Editable(rows[i], fields)
  BY DEF UpdateEntry
<1>3. /\ e \in Entries /\ e.day = rows[i].day /\ e.task = rows[i].task
      /\ e.series = rows[i].series /\ e.titled = rows[i].titled
      /\ e.cadence = rows[i].cadence /\ e.stop = rows[i].stop
      /\ e.start = IF "start" \in DOMAIN fields THEN fields.start ELSE rows[i].start
      /\ e.length = IF "length" \in DOMAIN fields THEN fields.length ELSE rows[i].length
  BY <1>1, PatchedTyped
<1> HIDE DEF e
<1>4. KindOf(e)
  <2>1. CASE rows[i].task # None
    <3>1. "length" \notin DOMAIN fields
      BY <1>2, <2>1 DEF Editable, IsPin
    <3> QED
      BY <1>1, <1>3, <2>1, <3>1 DEF KindOf
  <2>2. CASE rows[i].task = None
    <3>1. \A f \in DOMAIN fields : fields[f] # None
      BY <1>2, <2>2 DEF Editable, IsPin
    <3>2. rows[i].titled
      BY <1>1, <1>2, <2>2 DEF Editable, IsSkip, KindOf
    <3>3. rows[i].start # None => e.start # None
      BY <1>3, <3>1
    <3>4. rows[i].length # None => e.length # None
      BY <1>3, <3>1
    <3> QED
      BY <1>1, <1>3, <2>2, <3>2, <3>3, <3>4 DEF KindOf
  <2> QED
    BY <2>1, <2>2
<1>5. writes' \in 0..MaxWrites
  BY <1>1, WriteCounted DEF UpdateEntry
<1> QED
  BY <1>1, <1>2, <1>3, <1>4, <1>5, Rewritten

LEMMA EditOccurrenceKeeps ==
  ASSUME EInv, NEW s \in Ids, NEW day \in TouchedDays, NEW fields \in Edits,
         EditOccurrence(s, day, fields)
  PROVE  EInv'
<1>1. /\ EntriesTypeOK /\ day \in Days /\ s # None /\ s \in Stored
      /\ rows[s].series = None /\ IsSeries(rows[s]) /\ rows[s] \in Entries /\ KindOf(rows[s])
  BY EntriesAssumption, RowsTyped, AcceptsMeans DEF EInv, EditOccurrence, Occurrence, LiveRows, Ids
<1>2. \A f \in DOMAIN fields : fields[f] # None
  BY DEF EditOccurrence
<1> DEFINE b == [Entry(day) EXCEPT !.series = s, !.titled = TRUE,
                                   !.start = rows[s].start, !.length = rows[s].length]
           e == Patched(b, fields)
<1>3. CASE LiveExceptions(s, day) = {} /\ Insert(e)
  <2>1. /\ b \in Entries /\ b.task = None /\ b.series = s /\ b.titled /\ b.day = day
        /\ b.cadence = None /\ b.stop = None /\ b.start = rows[s].start
        /\ b.length = rows[s].length
    <3>1. rows[s].start \in Nat \cup {None} /\ rows[s].length \in Nat \cup {None}
      BY <1>1, EntryFields
    <3>2. day \in Days
      BY <1>1
    <3> QED
      BY <3>1, <3>2 DEF Entry, Entries
  <2> HIDE DEF b
  <2>2. /\ e \in Entries /\ e.task = None /\ e.series = s /\ e.titled /\ e.day = day
        /\ e.cadence = None /\ e.stop = None
        /\ e.start = IF "start" \in DOMAIN fields THEN fields.start ELSE rows[s].start
        /\ e.length = IF "length" \in DOMAIN fields THEN fields.length ELSE rows[s].length
    BY <2>1, PatchedTyped
  <2> HIDE DEF e
  <2>3. rows[s].start # None /\ rows[s].length # None
    BY <1>1 DEF KindOf, IsSeries
  <2>4. e.start # None /\ e.length # None
    BY <1>2, <2>2, <2>3
  <2>5. KindOf(e)
    BY <1>1, <2>2, <2>4 DEF KindOf
  <2>6. \A j \in LiveRows : Apart(e, rows[j])
    BY <1>3, <2>2 DEF Apart, LiveExceptions
  <2> QED
    BY <1>1, <1>3, <2>2, <2>5, <2>6, Inserted
<1>4. CASE \E x \in LiveExceptions(s, day) : UpdateEntry(x, fields)
  <2>1. PICK x \in LiveExceptions(s, day) : UpdateEntry(x, fields)
    BY <1>4
  <2>2. x \in Ids
    BY DEF LiveExceptions, LiveRows, Stored
  <2> QED
    BY <2>1, <2>2, UpdateEntryKeeps
<1> QED
  BY <1>3, <1>4 DEF EditOccurrence

LEMMA StopSeriesKeeps ==
  ASSUME EInv, NEW s \in Ids, NEW stop \in TouchedDays \cup {None}, StopSeries(s, stop)
  PROVE  EInv'
<1> DEFINE e == [rows[s] EXCEPT !.stop = stop]
<1>1. /\ EntriesTypeOK /\ s \in LiveRows /\ s \in Stored /\ rows[s] \in Entries /\ KindOf(rows[s])
      /\ IsSeries(rows[s]) /\ (stop # None => stop > rows[s].day) /\ stop \in Days \cup {None}
  BY EntriesAssumption, RowsTyped, AcceptsMeans DEF EInv, StopSeries
<1>2. /\ e \in Entries /\ e.day = rows[s].day /\ e.task = rows[s].task
      /\ e.series = rows[s].series /\ e.titled = rows[s].titled /\ e.stop = stop
      /\ e.cadence = rows[s].cadence /\ e.start = rows[s].start /\ e.length = rows[s].length
  BY <1>1 DEF Entries
<1>3. rows' = [rows EXCEPT ![s] = e] /\ tasks' = tasks
  BY DEF StopSeries
<1> HIDE DEF e
<1>4. KindOf(e)
  BY <1>1, <1>2 DEF KindOf, IsSeries
<1>5. writes' \in 0..MaxWrites
  BY <1>1, WriteCounted DEF StopSeries
<1> QED
  BY <1>1, <1>2, <1>3, <1>4, <1>5, Rewritten

LEMMA RemoveEntryKeeps ==
  ASSUME EInv, NEW i \in Ids, RemoveEntry(i)
  PROVE  EInv'
<1> DEFINE e == [rows[i] EXCEPT !.live = FALSE]
<1>1. EntriesTypeOK /\ i \in Stored /\ rows[i] \in Entries /\ KindOf(rows[i])
  BY RowsTyped, AcceptsMeans DEF EInv, RemoveEntry
<1>2. /\ e \in Entries /\ e.day = rows[i].day /\ e.task = rows[i].task
      /\ e.series = rows[i].series /\ e.titled = rows[i].titled /\ e.stop = rows[i].stop
      /\ e.cadence = rows[i].cadence /\ e.start = rows[i].start /\ e.length = rows[i].length
      /\ ~e.live
  BY <1>1 DEF Entries
<1>3. rows' = [rows EXCEPT ![i] = e] /\ tasks' = tasks
  BY DEF RemoveEntry
<1> HIDE DEF e
<1>4. KindOf(e)
  BY <1>1, <1>2 DEF KindOf
<1>5. writes' \in 0..MaxWrites
  BY <1>1, WriteCounted DEF RemoveEntry
<1> QED
  BY <1>1, <1>2, <1>3, <1>4, <1>5, Rewritten

LEMMA RestoreEntryKeeps ==
  ASSUME EInv, NEW i \in Ids, RestoreEntry(i)
  PROVE  EInv'
<1> DEFINE e == [rows[i] EXCEPT !.live = TRUE]
<1>1. /\ EntriesTypeOK /\ TableAccepts /\ i \in Stored /\ i \notin LiveRows
      /\ rows[i] \in Entries /\ KindOf(rows[i])
  BY RowsTyped, AcceptsMeans DEF EInv, RestoreEntry
<1>2. /\ e \in Entries /\ e.day = rows[i].day /\ e.task = rows[i].task
      /\ e.series = rows[i].series /\ e.titled = rows[i].titled /\ e.stop = rows[i].stop
      /\ e.cadence = rows[i].cadence /\ e.start = rows[i].start /\ e.length = rows[i].length
  BY <1>1 DEF Entries
<1>3. rows' = [rows EXCEPT ![i] = e] /\ tasks' = tasks
  BY DEF RestoreEntry
<1> HIDE DEF e
<1>4. KindOf(e)
  BY <1>1, <1>2 DEF KindOf
<1>5. writes' \in 0..MaxWrites
  BY <1>1, WriteCounted DEF RestoreEntry
<1>6. e.series # None => e.series \in Stored \ {i} /\ IsSeries(rows[e.series])
  BY <1>1, <1>2, AcceptsMeans DEF KindOf, IsSeries
<1>7. IsSeries(rows[i]) => IsSeries(e)
  BY <1>2 DEF IsSeries
<1>8. e.task # None => tasks[e.task].life # "gone"
  BY <1>1, <1>2, AcceptsMeans
<1>9. \A j \in LiveRows \ {i} : Apart(e, rows[j])
  BY <1>2 DEF Apart, RestoreEntry, LiveExceptions, LivePin
<1> QED
  BY <1>1, <1>2, <1>3, <1>4, <1>5, <1>6, <1>7, <1>8, <1>9, RowWritten

\* A reorder moves pins about their day and changes nothing else of them.
LEMMA OnlyPositions ==
  ASSUME EntriesTypeOK, NEW day, NEW A \in SUBSET LivePins(day), NEW ids \in SetToSeqs(A),
         ReorderPins(day, ids)
  PROVE  /\ rows' \in [Ids -> Entries \cup {None}] /\ Stored' = Stored /\ LiveRows' = LiveRows
         /\ \A i \in Stored :
              /\ rows'[i].day = rows[i].day /\ rows'[i].task = rows[i].task
              /\ rows'[i].series = rows[i].series /\ rows'[i].titled = rows[i].titled
              /\ rows'[i].start = rows[i].start /\ rows'[i].length = rows[i].length
              /\ rows'[i].cadence = rows[i].cadence /\ rows'[i].stop = rows[i].stop
              /\ rows'[i].live = rows[i].live
         /\ \A i \in Stored : i \notin LivePins(day) => rows'[i] = rows[i]
<1> DEFINE order == Reordered(day, ids)
           n == Cardinality(LivePins(day))
           place(i) == (CHOOSE k \in DOMAIN order : order[k] = i) - 1
<1>1. n \in Nat /\ order \in [1..n -> LivePins(day)]
  BY SlotsTraded
<1>2. rows' = [i \in Ids |-> IF i \in ToSet(order) THEN [rows[i] EXCEPT !.position = place(i)]
                                                   ELSE rows[i]]
  BY DEF ReorderPins
<1> HIDE DEF n, order
<1>3. \A i \in ToSet(order) : i \in LivePins(day) /\ i \in Stored /\ place(i) \in Nat
  <2> TAKE i \in ToSet(order)
  <2>1. \E k \in DOMAIN order : order[k] = i
    BY DEF ToSet
  <2>2. /\ (CHOOSE k \in DOMAIN order : order[k] = i) \in 1..n
        /\ order[CHOOSE k \in DOMAIN order : order[k] = i] = i
    BY <1>1, <2>1
  <2>3. place(i) \in Nat
    BY <1>1, <2>2
  <2>4. i \in LivePins(day)
    BY <1>1, <2>2
  <2> QED
    BY <2>3, <2>4 DEF LivePins, LiveRows
<1> HIDE DEF place
<1>4. \A i \in Stored : i \in Ids /\ rows[i] \in Entries /\ rows[i] # None
  BY RowsTyped DEF Stored
<1>5. ASSUME NEW i \in Stored
      PROVE  /\ rows'[i] \in Entries /\ rows'[i] # None
             /\ rows'[i].day = rows[i].day /\ rows'[i].task = rows[i].task
             /\ rows'[i].series = rows[i].series /\ rows'[i].titled = rows[i].titled
             /\ rows'[i].start = rows[i].start /\ rows'[i].length = rows[i].length
             /\ rows'[i].cadence = rows[i].cadence /\ rows'[i].stop = rows[i].stop
             /\ rows'[i].live = rows[i].live
             /\ i \notin LivePins(day) => rows'[i] = rows[i]
  <2>1. i \in Ids /\ rows[i] \in Entries /\ rows[i] # None
    BY <1>4
  <2>2. CASE i \in ToSet(order)
    <3> DEFINE p == place(i)
               e == [rows[i] EXCEPT !.position = p]
    <3>1. rows'[i] = e /\ p \in Nat /\ i \in LivePins(day)
      BY <1>2, <1>3, <2>1, <2>2
    <3> HIDE DEF p
    <3>2. /\ e \in Entries
          /\ e.day = rows[i].day /\ e.task = rows[i].task
          /\ e.series = rows[i].series /\ e.titled = rows[i].titled
          /\ e.start = rows[i].start /\ e.length = rows[i].length
          /\ e.cadence = rows[i].cadence /\ e.stop = rows[i].stop
          /\ e.live = rows[i].live
      BY <2>1, <3>1 DEF Entries
    <3> HIDE DEF e
    <3> QED
      BY <3>1, <3>2, EntryFields
  <2>3. CASE i \notin ToSet(order)
    <3>1. rows'[i] = rows[i]
      BY <1>2, <2>1, <2>3
    <3> QED
      BY <2>1, <3>1
  <2> QED
    BY <2>2, <2>3
<1>6. \A i \in Ids \ Stored : rows'[i] = None
  <2> TAKE i \in Ids \ Stored
  <2>1. i \notin ToSet(order) /\ rows[i] = None
    BY <1>3 DEF Stored
  <2> QED
    BY <1>2, <2>1
<1>7. Stored' = Stored
  BY <1>4, <1>5, <1>6 DEF Stored
<1>8. \A i \in Ids : rows'[i] \in Entries \cup {None}
  BY <1>5, <1>6
<1>10. rows' \in [Ids -> Entries \cup {None}]
  BY <1>2, <1>8
<1>11. LiveRows' = LiveRows
  BY <1>5, <1>7 DEF LiveRows
<1> QED
  BY <1>5, <1>7, <1>10, <1>11

LEMMA ReorderPinsKeeps ==
  ASSUME EInv, NEW day, NEW A \in SUBSET LivePins(day), NEW ids \in SetToSeqs(A),
         ReorderPins(day, ids)
  PROVE  EInv'
<1>1. EntriesTypeOK /\ TableAccepts
  BY DEF EInv
<1>2. writes' \in 0..MaxWrites /\ tasks' = tasks
  BY <1>1, WriteCounted DEF ReorderPins
<1>3. /\ rows' \in [Ids -> Entries \cup {None}] /\ Stored' = Stored /\ LiveRows' = LiveRows
      /\ \A i \in Stored :
           /\ rows'[i].day = rows[i].day /\ rows'[i].task = rows[i].task
           /\ rows'[i].series = rows[i].series /\ rows'[i].titled = rows[i].titled
           /\ rows'[i].start = rows[i].start /\ rows'[i].length = rows[i].length
           /\ rows'[i].cadence = rows[i].cadence /\ rows'[i].stop = rows[i].stop
  BY <1>1, OnlyPositions
<1>4. EntriesTypeOK'
  BY <1>1, <1>2, <1>3 DEF EntriesTypeOK
<1>5. LiveRows \subseteq Stored
  BY DEF LiveRows
<1>6. \A i, j \in LiveRows' : i # j => Apart(rows'[i], rows'[j])
  BY <1>1, <1>3, <1>5, AcceptsMeans DEF Apart
<1>7. \A i \in Stored' : KindOf(rows'[i])
  BY <1>1, <1>3, AcceptsMeans DEF KindOf
<1>8. \A i \in Stored' : rows'[i].series # None =>
        rows'[i].series \in Stored' /\ IsSeries(rows'[rows'[i].series])
  BY <1>1, <1>3, AcceptsMeans DEF IsSeries
<1>9. \A i \in Stored' : rows'[i].task # None => tasks'[rows'[i].task].life # "gone"
  BY <1>1, <1>2, <1>3, AcceptsMeans
<1> QED
  BY <1>4, <1>6, <1>7, <1>8, <1>9, AcceptsMeansNext DEF EInv

LEMMA ChangeTaskKeeps ==
  ASSUME EInv, NEW t \in Tasks, NEW row \in Lives[t], ChangeTask(t, row)
  PROVE  EInv'
<1>1. EntriesTypeOK /\ TableAccepts /\ tasks \in [Tasks -> TaskRow]
  BY DEF EInv, EntriesTypeOK
<1>2. row \in TaskRow
  BY EntriesAssumption
<1>3. writes' \in 0..MaxWrites /\ rows' = rows /\ tasks' = [tasks EXCEPT ![t] = row] /\ row.life # "gone"
  BY <1>1, WriteCounted DEF ChangeTask
<1>4. EntriesTypeOK'
  BY <1>1, <1>2, <1>3 DEF EntriesTypeOK
<1>5. \A u \in Tasks : tasks[u].life # "gone" => tasks'[u].life # "gone"
  BY <1>1, <1>3
<1>6. Stored' = Stored /\ LiveRows' = LiveRows
  BY <1>3 DEF Stored, LiveRows
<1>7. \A i \in Stored : rows[i].task # None => rows[i].task \in Tasks
  BY <1>1, RowsTyped, EntryFields
<1>8. TableAccepts'
  BY <1>1, <1>3, <1>5, <1>6, <1>7, AcceptsMeans, AcceptsMeansNext
<1> QED
  BY <1>4, <1>8 DEF EInv

LEMMA PurgeTaskKeeps ==
  ASSUME EInv, NEW t \in Tasks, PurgeTask(t)
  PROVE  EInv'
<1>1. EntriesTypeOK /\ TableAccepts /\ tasks \in [Tasks -> TaskRow]
      /\ rows \in [Ids -> Entries \cup {None}]
  BY DEF EInv, EntriesTypeOK
<1> DEFINE row == [tasks[t] EXCEPT !.life = "gone"]
<1>2. row \in TaskRow
  BY <1>1 DEF TaskRow
<1>3. /\ writes' \in 0..MaxWrites /\ tasks' = [tasks EXCEPT ![t] = row]
      /\ rows' = [i \in Ids |-> IF rows[i] # None /\ rows[i].task = t THEN None ELSE rows[i]]
  BY <1>1, WriteCounted DEF PurgeTask
<1> HIDE DEF row
<1>4. EntriesTypeOK'
  BY <1>1, <1>2, <1>3 DEF EntriesTypeOK
<1>5. \A i \in Stored' : i \in Stored /\ rows'[i] = rows[i] /\ rows[i].task # t
  BY <1>3 DEF Stored
<1>6. \A i \in Stored : rows[i].task # t => i \in Stored' /\ rows'[i] = rows[i]
  BY <1>3 DEF Stored
<1>7. \A i \in LiveRows' : i \in LiveRows /\ rows'[i] = rows[i]
  BY <1>5 DEF LiveRows
<1>8. \A i, j \in LiveRows' : i # j => Apart(rows'[i], rows'[j])
  BY <1>1, <1>7, AcceptsMeans
<1>9. \A i \in Stored' : KindOf(rows'[i])
  BY <1>1, <1>5, AcceptsMeans
<1>10. t # None
  BY EntriesAssumption
<1>11. \A i \in Stored' : rows'[i].series # None =>
         rows'[i].series \in Stored' /\ IsSeries(rows'[rows'[i].series])
  <2> SUFFICES ASSUME NEW i \in Stored', rows[i].series # None
               PROVE  rows[i].series \in Stored' /\ IsSeries(rows'[rows[i].series])
    BY <1>5
  <2>1. rows[i].series \in Stored /\ IsSeries(rows[rows[i].series])
    BY <1>1, <1>5, AcceptsMeans
  <2>2. rows[rows[i].series].task # t
    BY <1>10, <2>1 DEF IsSeries
  <2> QED
    BY <1>6, <2>1, <2>2
<1>12. \A i \in Stored : rows[i].task # None => rows[i].task \in Tasks
  BY <1>1, RowsTyped, EntryFields
<1>13. \A i \in Stored' : rows'[i].task # None => tasks'[rows'[i].task].life # "gone"
  BY <1>1, <1>3, <1>5, <1>12, AcceptsMeans
<1> QED
  BY <1>4, <1>8, <1>9, <1>11, <1>13, AcceptsMeansNext DEF EInv

LEMMA StartKeeps == Init => EInv
<1> SUFFICES ASSUME Init
             PROVE  EInv
  OBVIOUS
<1>1. \A t \in Tasks : tasks[t] \in TaskRow
  BY EntriesAssumption DEF Init
<1>2. tasks \in [Tasks -> TaskRow]
  BY <1>1 DEF Init
<1>3. EntriesTypeOK
  BY <1>2, EntriesAssumption DEF EntriesTypeOK, Init
<1>4. Stored = {} /\ LiveRows = {}
  BY DEF Init, Stored, LiveRows
<1> QED
  BY <1>3, <1>4, AcceptsMeans DEF EInv

LEMMA StepKeeps == EInv /\ [Next]_vars => EInv'
<1> SUFFICES ASSUME EInv, [Next]_vars
             PROVE  EInv'
  OBVIOUS
<1>1. CASE UNCHANGED vars
  BY <1>1 DEF EInv, vars, EntriesTypeOK, TableAccepts, LiveRows, Stored
<1>2. ASSUME NEW day \in PinDays, NEW t \in Tasks, NEW start \in PinTimes, PinTask(day, t, start)
      PROVE  EInv'
  BY <1>2, PinTaskKeeps
<1>3. ASSUME NEW b \in Bookings, AddCommitment(b)
      PROVE  EInv'
  BY <1>3, AddCommitmentKeeps
<1>4. ASSUME NEW s \in Ids, NEW day \in TouchedDays,
             \/ SkipOccurrence(s, day)
             \/ \E fields \in Edits : EditOccurrence(s, day, fields)
      PROVE  EInv'
  BY <1>4, SkipOccurrenceKeeps, EditOccurrenceKeeps
<1>5. ASSUME NEW s \in Ids, NEW stop \in TouchedDays \cup {None}, StopSeries(s, stop)
      PROVE  EInv'
  BY <1>5, StopSeriesKeeps
<1>6. ASSUME NEW i \in Ids,
             \/ RemoveEntry(i) \/ RestoreEntry(i)
             \/ \E fields \in Edits : UpdateEntry(i, fields)
      PROVE  EInv'
  BY <1>6, RemoveEntryKeeps, RestoreEntryKeeps, UpdateEntryKeeps
<1>7. ASSUME NEW day \in PinDays,
             NEW ids \in UNION {SetToSeqs(S) : S \in SUBSET LivePins(day)}, ReorderPins(day, ids)
      PROVE  EInv'
  BY <1>7, ReorderPinsKeeps
<1>8. ASSUME NEW t \in Tasks, PurgeTask(t) \/ \E row \in Lives[t] : ChangeTask(t, row)
      PROVE  EInv'
  BY <1>8, PurgeTaskKeeps, ChangeTaskKeeps
<1> QED
  BY <1>1, <1>2, <1>3, <1>4, <1>5, <1>6, <1>7, <1>8 DEF Next

\* Every column of the stored plan holds a value of its type, and no sequence of pins,
\* skips, edits, removals and restores asks the table for a row that its constraints
\* refuse: the unique indexes, the kind of row, the series of an exception, a purged task.
THEOREM Invariant == Spec => []EInv
BY StartKeeps, StepKeeps, PTL DEF Spec

\* The columns hold values of their types.
THEOREM TypesHold == Spec => []EntriesTypeOK
<1>1. EInv => EntriesTypeOK
  BY DEF EInv
<1> QED
  BY <1>1, Invariant, PTL

\* The table is never asked for a row that it refuses.
THEOREM RowsAccepted == Spec => []TableAccepts
<1>1. EInv => TableAccepts
  BY DEF EInv
<1> QED
  BY <1>1, Invariant, PTL

-----------------------------------------------------------------------------
(* A reorder *)

\* Naming some of a day's pins reorders those and no other.
THEOREM SlotsAreTraded == Spec => []ReorderTradesSlots
<1>1. EInv => ReorderTradesSlots
  <2> SUFFICES ASSUME EntriesTypeOK, NEW day \in PinDays,
                      NEW A \in SUBSET LivePins(day), NEW ids \in SetToSeqs(A)
               PROVE  LET before == PinsInOrder(day)
                          after  == Reordered(day, ids)
                      IN  /\ ToSet(after) = LivePins(day) /\ IsInjective(after)
                          /\ \A k \in DOMAIN before : ~Contains(ids, before[k]) => after[k] = before[k]
                          /\ \A m, n \in DOMAIN ids, k, l \in DOMAIN after :
                               m < n /\ after[k] = ids[m] /\ after[l] = ids[n] => k < l
    BY DEF EInv, ReorderTradesSlots
  <2> DEFINE n == Cardinality(LivePins(day))
             pins == PinsInOrder(day)
             after == Reordered(day, ids)
  <2>1. /\ n \in Nat /\ DOMAIN pins = 1..n /\ after \in [1..n -> LivePins(day)]
        /\ IsInjective(after)
        /\ \A x \in LivePins(day) : \E k \in 1..n : after[k] = x
        /\ \A k \in 1..n : pins[k] \notin A => after[k] = pins[k]
        /\ \A p, q \in DOMAIN ids, k, l \in 1..n :
             p < q /\ after[k] = ids[p] /\ after[l] = ids[q] => k < l
        /\ A = ToSet(ids)
    BY SlotsTraded
  <2> HIDE DEF n, pins, after
  <2>2. DOMAIN after = 1..n
    BY <2>1
  <2>3. ToSet(after) = LivePins(day)
    BY <2>1, <2>2 DEF ToSet
  <2>4. \A k \in DOMAIN pins : ~Contains(ids, pins[k]) => after[k] = pins[k]
    BY <2>1 DEF Contains, ToSet
  <2> QED
    BY <2>1, <2>2, <2>3, <2>4 DEF pins, after
<1> QED
  BY <1>1, Invariant, PTL

-----------------------------------------------------------------------------
(* Monthly series *)

\* The day of a month that a series begun on a day falls on.
LEMMA DueDay ==
  ASSUME NEW from \in Days, NEW d \in Days
  PROVE  LET m == MonthOf[d]
             dom == DayOfMonth[from]
             upTo == {x \in Days : MonthOf[x] = m /\ DayOfMonth[x] <= dom}
         IN  \E due \in Days :
               /\ MonthOf[due] = m /\ DayOfMonth[due] = Min({dom, MonthLength[m]})
               /\ \A x \in Days : MonthOf[x] = m /\ DayOfMonth[x] = DayOfMonth[due] => x = due
               /\ Max(upTo) = due
<1> DEFINE m == MonthOf[d]
           dom == DayOfMonth[from]
           last == MonthLength[m]
           upTo == {x \in Days : MonthOf[x] = m /\ DayOfMonth[x] <= dom}
           target == IF dom <= last THEN dom ELSE last
<1>1. /\ \A x \in Days : x \in Nat /\ MonthOf[x] \in Int /\ DayOfMonth[x] \in Nat
      /\ dom \in Nat /\ 1 <= dom /\ last \in Nat /\ DayOfMonth[d] \in 1..last
  BY EntriesAssumption, CalendarAssumption
<1>2. target \in 1..last /\ target <= dom
  BY <1>1
<1>3. target = Min({dom, last})
  BY <1>1 DEF Min
<1>4. \A x, y \in Days : x < y =>
        MonthOf[x] < MonthOf[y] \/ (MonthOf[x] = MonthOf[y] /\ DayOfMonth[x] < DayOfMonth[y])
  BY CalendarAssumption
<1>5. PICK due \in Days : MonthOf[due] = m /\ DayOfMonth[due] = target
  BY <1>2, CalendarAssumption
<1>6. \A x \in Days : MonthOf[x] = m => DayOfMonth[x] <= last
  BY <1>1, CalendarAssumption
<1> HIDE DEF m, dom, last, target
<1>7. ASSUME NEW x \in Days, MonthOf[x] = m, DayOfMonth[x] <= target
      PROVE  x <= due
  <2>1. ~(due < x)
    <3>1. ~(DayOfMonth[due] < DayOfMonth[x]) /\ ~(MonthOf[due] < MonthOf[x])
      BY <1>1, <1>2, <1>5, <1>7
    <3> QED
      BY <1>4, <1>5, <3>1
  <2> QED
    BY <1>1, <1>5, <2>1
<1>8. ASSUME NEW x \in Days, MonthOf[x] = m, DayOfMonth[x] = target
      PROVE  x = due
  <2>1. ~(x < due)
    <3>1. ~(DayOfMonth[x] < DayOfMonth[due]) /\ ~(MonthOf[x] < MonthOf[due])
      BY <1>1, <1>5, <1>8
    <3> QED
      BY <1>4, <1>5, <3>1
  <2>2. x <= due
    BY <1>1, <1>2, <1>7, <1>8
  <2> QED
    BY <1>1, <1>5, <2>1, <2>2
<1>9. due \in upTo
  BY <1>2, <1>5
<1>10. \A x \in upTo : DayOfMonth[x] <= target
  BY <1>1, <1>6 DEF target
<1>11. \A x \in upTo : due >= x
  BY <1>1, <1>5, <1>7, <1>10
<1>12. \A x \in upTo : (\A y \in upTo : x >= y) => x = due
  <2> SUFFICES ASSUME NEW x \in upTo, \A y \in upTo : x >= y
               PROVE  x = due
    OBVIOUS
  <2>1. x >= due /\ due >= x /\ x \in Nat /\ due \in Nat
    BY <1>1, <1>9, <1>11
  <2> QED
    BY <2>1
<1> HIDE DEF upTo
<1>13. Max(upTo) = due
  BY <1>9, <1>11, <1>12 DEF Max
<1> QED
  BY <1>3, <1>5, <1>8, <1>13 DEF upTo, m, dom, last

\* A monthly series visits each month it is due in, once, and no other.
THEOREM MonthsAreKept == Spec => []MonthlyNeverDrifts
<1>1. EInv => MonthlyNeverDrifts
  <2> SUFFICES ASSUME EntriesTypeOK, NEW s \in LiveRows, IsSeries(rows[s]),
                      rows[s].cadence.unit = "month", rows[s].stop = None,
                      NEW d \in Days, MonthOf[d] > MonthOf[rows[s].day]
               PROVE  LET m == MonthOf[d]
                          upTo == {x \in Days : MonthOf[x] = m /\ DayOfMonth[x] <= DayOfMonth[rows[s].day]}
                          on   == {x \in Days : MonthOf[x] = m /\ OccursOn(rows[s], x)}
                      IN  on = IF (m - MonthOf[rows[s].day]) % rows[s].cadence.every = 0
                               THEN {Max(upTo)} ELSE {}
    BY DEF EInv, MonthlyNeverDrifts
  <2> DEFINE from == rows[s].day
             m == MonthOf[d]
             upTo == {x \in Days : MonthOf[x] = m /\ DayOfMonth[x] <= DayOfMonth[from]}
             on   == {x \in Days : MonthOf[x] = m /\ OccursOn(rows[s], x)}
             due  == (m - MonthOf[from]) % rows[s].cadence.every = 0
  <2>1. from \in Days
    BY RowsTyped, EntryFields
  <2>2. \A x \in Days : MonthOf[x] = m => x >= from
    <3> SUFFICES ASSUME NEW x \in Days, MonthOf[x] = m, ~(x >= from)
                 PROVE  FALSE
      OBVIOUS
    <3>1. x \in Nat /\ from \in Nat /\ MonthOf[x] \in Int /\ MonthOf[from] \in Int
      <4>1. Days \subseteq Nat /\ MonthOf \in [Days -> Int]
        BY ONLY EntriesAssumption, CalendarAssumption
      <4> QED
        BY <2>1, <4>1
    <3>2. x < from
      BY <3>1
    <3>3. MonthOf[x] < MonthOf[from] \/ MonthOf[x] = MonthOf[from]
      BY <2>1, <3>2, CalendarAssumption
    <3> QED
      BY <3>1, <3>3
  <2>3. \A x \in Days : MonthOf[x] = m =>
          (OccursOn(rows[s], x) <=> due /\ DayOfMonth[x] = Min({DayOfMonth[from], MonthLength[m]}))
    BY <2>2 DEF OccursOn, OnMonthDay, IsSeries
  <2>4. PICK day \in Days :
          /\ MonthOf[day] = m /\ DayOfMonth[day] = Min({DayOfMonth[from], MonthLength[m]})
          /\ \A x \in Days : MonthOf[x] = m /\ DayOfMonth[x] = DayOfMonth[day] => x = day
          /\ Max(upTo) = day
    BY <2>1, DueDay
  <2> HIDE DEF from, m, upTo, due
  <2>5. on = IF due THEN {day} ELSE {}
    BY <2>3, <2>4
  <2> QED
    BY <2>4, <2>5 DEF from, m, upTo, due
<1> QED
  BY <1>1, Invariant, PTL

-----------------------------------------------------------------------------
(* What a write reaches *)

\* A row that is no edit, skip or one-off of a day, and occurs on it as before, leaves
\* what the day shows, unless it is shown there and shown otherwise.
LEMMA ShownKept ==
  ASSUME NEW i \in Ids, NEW day, \A j \in Ids \ {i} : rows'[j] = rows[j],
         \A s \in Ids : i \notin LiveExceptions(s, day),
         \A s \in Ids : i \notin LiveExceptions(s, day)',
         ~(i \in LiveRows /\ IsOneOff(rows[i]) /\ rows[i].day = day),
         ~(i \in LiveRows' /\ IsOneOff(rows'[i]) /\ rows'[i].day = day),
         i \in DaySeries(day)' <=> i \in DaySeries(day),
         i \in DaySeries(day) /\ LiveExceptions(i, day) = {} =>
           rows'[i].start = rows[i].start /\ rows'[i].length = rows[i].length
  PROVE  Shown(day)' = Shown(day)
<1>1. /\ LiveRows \subseteq Ids /\ LiveRows' \subseteq Ids
      /\ \A j \in Ids \ {i} : j \in LiveRows' <=> j \in LiveRows
  BY DEF LiveRows, Stored
<1>2. DaySeries(day)' = DaySeries(day) /\ DaySeries(day) \subseteq Ids
  <2>1. DaySeries(day) \subseteq Ids /\ DaySeries(day)' \subseteq Ids
    BY <1>1 DEF DaySeries
  <2>2. \A s \in Ids \ {i} : s \in DaySeries(day)' <=> s \in DaySeries(day)
    BY <1>1 DEF DaySeries
  <2> QED
    BY <2>1, <2>2
<1>3. \A s \in Ids : LiveExceptions(s, day)' = LiveExceptions(s, day)
  <2> TAKE s \in Ids
  <2>1. LiveExceptions(s, day) \subseteq Ids /\ LiveExceptions(s, day)' \subseteq Ids
    BY <1>1 DEF LiveExceptions
  <2>2. \A x \in Ids \ {i} : x \in LiveExceptions(s, day)' <=> x \in LiveExceptions(s, day)
    BY <1>1 DEF LiveExceptions
  <2>3. i \notin LiveExceptions(s, day) /\ i \notin LiveExceptions(s, day)'
    OBVIOUS
  <2> QED
    BY <2>1, <2>2, <2>3
<1>4. {j \in LiveRows' : IsOneOff(rows'[j]) /\ rows'[j].day = day}
        = {j \in LiveRows : IsOneOff(rows[j]) /\ rows[j].day = day}
  BY <1>1
<1>5. \A s \in Ids : {x \in LiveExceptions(s, day)' : IsOverride(rows'[x])}
                       = {x \in LiveExceptions(s, day) : IsOverride(rows[x])}
  <2> TAKE s \in Ids
  <2>1. \A x \in LiveExceptions(s, day) : rows'[x] = rows[x]
    BY <1>1 DEF LiveExceptions
  <2> QED
    BY <1>3, <2>1
<1> DEFINE S == DaySeries(day)
           one == {j \in LiveRows : IsOneOff(rows[j]) /\ rows[j].day = day}
           bare == {s \in S : LiveExceptions(s, day) = {}}
           edits(s) == {x \in LiveExceptions(s, day) : IsOverride(rows[x])}
           C == {[id |-> j, shown |-> j] : j \in one} \cup {[id |-> s, shown |-> s] : s \in bare}
                \cup UNION {{[id |-> s, shown |-> x] : x \in edits(s)} : s \in S}
<1>6. DayCommitments(day) = C
  BY DEF DayCommitments
<1>7. DayCommitments(day)' = C
  <2>1. {s \in DaySeries(day)' : LiveExceptions(s, day)' = {}} = bare
    BY <1>2, <1>3
  <2>2. UNION {{[id |-> s, shown |-> x] : x \in {x \in LiveExceptions(s, day)' : IsOverride(rows'[x])}}
                 : s \in DaySeries(day)'}
          = UNION {{[id |-> s, shown |-> x] : x \in edits(s)} : s \in S}
    BY <1>2, <1>5
  <2> QED
    BY <1>4, <2>1, <2>2 DEF DayCommitments
<1>8. \A c \in C : rows'[c.shown].start = rows[c.shown].start
                   /\ rows'[c.shown].length = rows[c.shown].length
  <2> SUFFICES ASSUME NEW c \in C, c.shown # i \/ i \in bare
               PROVE  rows'[c.shown].start = rows[c.shown].start
                      /\ rows'[c.shown].length = rows[c.shown].length
    <3>1. i \notin one
      OBVIOUS
    <3>2. \A s \in S : i \notin edits(s)
      BY <1>2
    <3> QED
      BY <3>1, <3>2
  <2>1. c.shown \in Ids
    <3>1. one \subseteq Ids /\ bare \subseteq Ids
      BY <1>1, <1>2
    <3>2. \A s \in S : edits(s) \subseteq Ids
      BY <1>1 DEF LiveExceptions
    <3> QED
      BY <3>1, <3>2
  <2> QED
    BY <2>1
<1> HIDE DEF C
<1>9. Shown(day) = {<<c.id, rows[c.shown].start, rows[c.shown].length>> : c \in C}
  BY <1>6 DEF Shown
<1>10. Shown(day)' = {<<c.id, rows'[c.shown].start, rows'[c.shown].length>> : c \in C}
  BY <1>7 DEF Shown
<1> QED
  BY <1>8, <1>9, <1>10

\* One row inserted or changed, its pin or occurrence kept.
Touches(i) ==
  /\ i \in Stored'
  /\ \A j \in Ids \ {i} : rows'[j] = rows[j]
  /\ i \in Stored =>
       /\ rows'[i].day = rows[i].day /\ rows'[i].task = rows[i].task
       /\ rows'[i].series = rows[i].series /\ rows'[i].cadence = rows[i].cadence
       /\ rows'[i].stop # rows[i].stop =>
            rows'[i].start = rows[i].start /\ rows'[i].length = rows[i].length

Reaches(i, day) ==
  IF ~IsSeries(rows'[i]) THEN day = rows'[i].day
  ELSE IF i \in LiveRows /\ i \in LiveRows'
       THEN IF rows'[i].stop # rows[i].stop
            THEN day >= Min({rows[i].stop, rows'[i].stop} \ {None})
            ELSE LiveExceptions(i, day) = {}
       ELSE day >= rows'[i].day

LEMMA TouchedReaches ==
  ASSUME EInv, EInv', NEW i, Touches(i), NEW day \in Days, Shown(day)' # Shown(day)
  PROVE  Reaches(i, day)
<1>1. /\ i \in Ids /\ i \in Stored' /\ rows'[i] \in Entries
      /\ LiveRows \subseteq Stored /\ LiveRows' \subseteq Stored' /\ Stored \subseteq Ids
      /\ \A j \in Stored : rows[j] \in Entries
  BY DEF Touches, EInv, EntriesTypeOK, LiveRows, Stored
<1>2. KindOf(rows'[i]) /\ (i \in Stored => KindOf(rows[i]))
  BY <1>1, AcceptsMeans, AcceptsMeansNext DEF EInv
<1>3. i \in Stored =>
        /\ rows'[i].day = rows[i].day /\ rows'[i].task = rows[i].task
        /\ rows'[i].series = rows[i].series /\ rows'[i].cadence = rows[i].cadence
  BY DEF Touches
<1>4. day \in Nat /\ rows'[i].day \in Nat /\ None \notin Ids /\ None \notin Nat
  BY <1>1, EntryFields, EntriesAssumption DEF Ids
<1>5. \A j \in Ids \ {i} : rows'[j] = rows[j]
  BY DEF Touches
<1>6. CASE ~IsSeries(rows'[i])
  <2> SUFFICES ASSUME day # rows'[i].day
               PROVE  FALSE
    BY <1>6 DEF Reaches
  <2>1. i \in Stored => ~IsSeries(rows[i])
    BY <1>3, <1>6 DEF IsSeries
  <2>2. i \notin DaySeries(day)' /\ i \notin DaySeries(day)
    BY <1>1, <1>6, <2>1 DEF DaySeries
  <2>3. \A s \in Ids : i \notin LiveExceptions(s, day) /\ i \notin LiveExceptions(s, day)'
    BY <1>1, <1>3 DEF LiveExceptions
  <2> QED
    BY <1>1, <1>3, <1>5, <2>2, <2>3, ShownKept
<1>7. CASE IsSeries(rows'[i])
  <2>1. /\ rows'[i].series = None /\ ~IsOneOff(rows'[i])
        /\ i \in Stored => rows[i].series = None /\ ~IsOneOff(rows[i]) /\ IsSeries(rows[i])
    BY <1>2, <1>3, <1>7 DEF KindOf, IsSeries, IsOneOff
  <2>2. \A s \in Ids : i \notin LiveExceptions(s, day) /\ i \notin LiveExceptions(s, day)'
    BY <1>1, <1>4, <2>1 DEF LiveExceptions
  <2>3. \/ ~(i \in DaySeries(day)' <=> i \in DaySeries(day))
        \/ /\ i \in DaySeries(day) /\ LiveExceptions(i, day) = {}
           /\ ~(rows'[i].start = rows[i].start /\ rows'[i].length = rows[i].length)
    BY <1>1, <1>5, <2>1, <2>2, ShownKept
  <2>4. CASE i \in LiveRows /\ i \in LiveRows' /\ rows'[i].stop # rows[i].stop
    <3> DEFINE stops == {rows[i].stop, rows'[i].stop} \ {None}
    <3>1. rows'[i].start = rows[i].start /\ rows'[i].length = rows[i].length
      BY <1>1, <2>4 DEF Touches
    <3>2. ~(OccursOn(rows'[i], day) <=> OccursOn(rows[i], day))
      BY <1>7, <2>1, <2>3, <2>4, <3>1, <1>1 DEF DaySeries
    <3> DEFINE a == rows[i]
               b == rows'[i]
    <3>a. a.day = b.day /\ a.cadence = b.cadence
      BY <1>1, <1>3, <2>4
    <3>b. ~(OccursOn(b, day) <=> OccursOn(a, day))
      BY <3>2
    <3>3. \E stop \in stops : ~(day < stop)
      <4> HIDE DEF a, b
      <4> SUFFICES ASSUME a.stop # None => day < a.stop, b.stop # None => day < b.stop
                   PROVE  OccursOn(b, day) <=> OccursOn(a, day)
        BY <3>b DEF a, b
      <4> QED
        BY <3>a DEF OccursOn, OnMonthDay
    <3>4. rows[i].stop \in Nat \cup {None} /\ rows'[i].stop \in Nat \cup {None}
      BY <1>1, <2>4, EntryFields, EntriesAssumption
    <3>5. stops \in SUBSET Int /\ stops # {} /\ IsFiniteSet(stops)
      <4>1. IsFiniteSet({rows[i].stop, rows'[i].stop})
        <5>1. IsFiniteSet({rows[i].stop})
          BY FS_EmptySet, FS_AddElement
        <5>2. {rows[i].stop, rows'[i].stop} = {rows[i].stop} \cup {rows'[i].stop}
          OBVIOUS
        <5> QED
          BY <5>1, <5>2, FS_AddElement
      <4>2. IsFiniteSet(stops)
        BY <4>1, FS_Subset
      <4> QED
        BY <2>4, <3>4, <4>2
    <3> HIDE DEF stops
    <3>6. Min(stops) \in stops /\ \A x \in stops : Min(stops) <= x
      BY <3>5, Extremes
    <3>7. day >= Min(stops)
      <4>1. PICK stop \in stops : ~(day < stop)
        BY <3>3
      <4>2. stop \in Int /\ Min(stops) \in Int /\ Min(stops) <= stop
        BY <3>5, <3>6
      <4> QED
        BY <1>4, <4>1, <4>2
    <3> QED
      BY <1>7, <2>4, <3>7 DEF Reaches, stops
  <2>5. CASE i \in LiveRows /\ i \in LiveRows' /\ rows'[i].stop = rows[i].stop
    <3> DEFINE a == rows[i]
               b == rows'[i]
    <3>a. a.day = b.day /\ a.cadence = b.cadence /\ a.stop = b.stop
      BY <1>1, <1>3, <2>5
    <3>1. OccursOn(rows'[i], day) <=> OccursOn(rows[i], day)
      <4> HIDE DEF a, b
      <4>1. OccursOn(b, day) <=> OccursOn(a, day)
        BY <3>a DEF OccursOn, OnMonthDay
      <4> QED
        BY <4>1 DEF a, b
    <3>2. LiveExceptions(i, day) = {}
      BY <1>1, <1>7, <2>1, <2>3, <2>5, <3>1 DEF DaySeries
    <3> QED
      BY <1>7, <2>5, <3>2 DEF Reaches
  <2>6. CASE i \notin LiveRows \/ i \notin LiveRows'
    <3>1. i \in DaySeries(day)' \/ i \in DaySeries(day)
      BY <2>3
    <3>2. OccursOn(rows'[i], day) \/ (i \in Stored /\ OccursOn(rows[i], day))
      BY <1>1, <3>1 DEF DaySeries
    <3>3. i \in Stored => rows[i].cadence # None
      BY <2>1 DEF IsSeries
    <3>4. day >= rows'[i].day
      BY <1>3, <1>7, <3>2, <3>3 DEF OccursOn, IsSeries
    <3> QED
      BY <1>7, <2>6, <3>4 DEF Reaches
  <2> QED
    BY <2>4, <2>5, <2>6
<1> QED
  BY <1>6, <1>7

TouchesAll == \A i \in Stored' : rows'[i] # rows[i] => Touches(i)

LEMMA InsertTouches ==
  ASSUME EntriesTypeOK, NEW e, Insert(e)
  PROVE  TouchesAll
<1>1. /\ NextId \in Ids /\ rows[NextId] = None /\ rows' = [rows EXCEPT ![NextId] = e]
      /\ DOMAIN rows = Ids
  BY NextIdFree DEF Insert, EntriesTypeOK
<1> HIDE DEF NextId
<1>2. \A j \in Ids \ {NextId} : rows'[j] = rows[j]
  BY <1>1
<1>3. \A i \in Stored' : rows'[i] # rows[i] => i = NextId /\ i \notin Stored
  BY <1>1, <1>2 DEF Stored
<1> QED
  BY <1>2, <1>3 DEF TouchesAll, Touches

LEMMA RewriteTouches ==
  ASSUME EntriesTypeOK, NEW k \in Stored, NEW e, rows' = [rows EXCEPT ![k] = e],
         e.day = rows[k].day, e.task = rows[k].task, e.series = rows[k].series,
         e.cadence = rows[k].cadence,
         e.stop # rows[k].stop => e.start = rows[k].start /\ e.length = rows[k].length
  PROVE  TouchesAll
<1>1. k \in Ids /\ DOMAIN rows = Ids
  BY DEF Stored, EntriesTypeOK
<1>2. rows'[k] = e /\ \A j \in Ids \ {k} : rows'[j] = rows[j]
  BY <1>1
<1>3. \A i \in Stored' : rows'[i] # rows[i] => i = k
  BY <1>2 DEF Stored
<1> QED
  BY <1>2, <1>3 DEF TouchesAll, Touches

LEMMA UpdateTouches ==
  ASSUME EInv, NEW i \in Ids, NEW fields \in Edits, UpdateEntry(i, fields)
  PROVE  TouchesAll
<1> DEFINE e == Patched(rows[i], fields)
<1>1. EntriesTypeOK /\ i \in Stored /\ rows[i] \in Entries
  BY RowsTyped DEF EInv, UpdateEntry
<1>2. rows' = [rows EXCEPT ![i] = e]
  BY DEF UpdateEntry
<1>3. /\ e.day = rows[i].day /\ e.task = rows[i].task /\ e.series = rows[i].series
      /\ e.cadence = rows[i].cadence /\ e.stop = rows[i].stop
  BY <1>1, PatchedTyped
<1> HIDE DEF e
<1> QED
  BY <1>1, <1>2, <1>3, RewriteTouches

LEMMA PinTouches ==
  ASSUME EInv, NEW day \in PinDays, NEW t \in Tasks, NEW start \in PinTimes, PinTask(day, t, start)
  PROVE  TouchesAll
<1>1. EntriesTypeOK
  BY DEF EInv
<1>2. CASE Insert([Entry(day) EXCEPT !.task = t, !.start = start, !.position = NextPosition(day)])
  BY <1>1, <1>2, InsertTouches
<1>3. CASE \E i \in LivePin(day, t) :
             rows[i].start # start /\ rows' = [rows EXCEPT ![i].start = start]
  <2>1. PICK i \in LivePin(day, t) : rows' = [rows EXCEPT ![i].start = start]
    BY <1>3
  <2>2. i \in Stored /\ rows[i] \in Entries
    BY <1>1, RowsTyped DEF LivePin
  <2> DEFINE e == [rows[i] EXCEPT !.start = start]
  <2>3. /\ e.day = rows[i].day /\ e.task = rows[i].task /\ e.series = rows[i].series
        /\ e.cadence = rows[i].cadence /\ e.stop = rows[i].stop
    BY <2>2 DEF Entries
  <2>4. rows' = [rows EXCEPT ![i] = e]
    BY <2>1
  <2> HIDE DEF e
  <2> QED
    BY <1>1, <2>2, <2>3, <2>4, RewriteTouches
<1> QED
  BY <1>2, <1>3 DEF PinTask

LEMMA EditTouches ==
  ASSUME EInv, NEW s \in Ids, NEW day \in TouchedDays, NEW fields \in Edits,
         EditOccurrence(s, day, fields)
  PROVE  TouchesAll
<1> DEFINE e == Patched([Entry(day) EXCEPT !.series = s, !.titled = TRUE,
                             !.start = rows[s].start, !.length = rows[s].length], fields)
<1>1. CASE Insert(e)
  BY <1>1, InsertTouches DEF EInv
<1>2. CASE \E x \in LiveExceptions(s, day) : UpdateEntry(x, fields)
  BY <1>2, UpdateTouches DEF LiveExceptions, LiveRows, Stored
<1> QED
  BY <1>1, <1>2 DEF EditOccurrence

LEMMA StopTouches ==
  ASSUME EInv, NEW s \in Ids, NEW stop, StopSeries(s, stop)
  PROVE  TouchesAll
<1> DEFINE e == [rows[s] EXCEPT !.stop = stop]
<1>1. EntriesTypeOK /\ s \in Stored /\ rows[s] \in Entries /\ rows' = [rows EXCEPT ![s] = e]
  BY RowsTyped DEF EInv, StopSeries
<1>2. /\ e.day = rows[s].day /\ e.task = rows[s].task /\ e.series = rows[s].series
      /\ e.cadence = rows[s].cadence /\ e.start = rows[s].start /\ e.length = rows[s].length
  BY <1>1 DEF Entries
<1> HIDE DEF e
<1> QED
  BY <1>1, <1>2, RewriteTouches

LEMMA LiveTouches ==
  ASSUME EInv, NEW i \in Stored, NEW live, rows' = [rows EXCEPT ![i].live = live]
  PROVE  TouchesAll
<1> DEFINE e == [rows[i] EXCEPT !.live = live]
<1>1. EntriesTypeOK /\ rows[i] \in Entries /\ rows' = [rows EXCEPT ![i] = e]
  BY RowsTyped DEF EInv
<1>2. /\ e.day = rows[i].day /\ e.task = rows[i].task /\ e.series = rows[i].series
      /\ e.cadence = rows[i].cadence /\ e.stop = rows[i].stop
  BY <1>1 DEF Entries
<1> HIDE DEF e
<1> QED
  BY <1>1, <1>2, RewriteTouches

\* The order of a day's pins is no part of what the day shows of its commitments.
LEMMA ReorderShowsTheSame ==
  ASSUME EntriesTypeOK, NEW at, NEW A \in SUBSET LivePins(at), NEW ids \in SetToSeqs(A),
         ReorderPins(at, ids), NEW day
  PROVE  Shown(day)' = Shown(day)
<1>1. /\ Stored' = Stored /\ LiveRows' = LiveRows
      /\ \A i \in LiveRows :
           /\ rows'[i].day = rows[i].day /\ rows'[i].task = rows[i].task
           /\ rows'[i].series = rows[i].series /\ rows'[i].titled = rows[i].titled
           /\ rows'[i].start = rows[i].start /\ rows'[i].length = rows[i].length
           /\ rows'[i].cadence = rows[i].cadence /\ rows'[i].stop = rows[i].stop
  BY OnlyPositions DEF LiveRows
<1>2. ASSUME NEW i \in LiveRows
      PROVE  /\ IsSeries(rows'[i]) <=> IsSeries(rows[i])
             /\ IsOneOff(rows'[i]) <=> IsOneOff(rows[i])
             /\ IsOverride(rows'[i]) <=> IsOverride(rows[i])
             /\ OccursOn(rows'[i], day) <=> OccursOn(rows[i], day)
  <2> DEFINE a == rows[i]
             b == rows'[i]
  <2>1. /\ b.day = a.day /\ b.task = a.task /\ b.series = a.series /\ b.titled = a.titled
        /\ b.cadence = a.cadence /\ b.stop = a.stop
    BY <1>1
  <2> HIDE DEF a, b
  <2>2. /\ IsSeries(b) <=> IsSeries(a)
        /\ IsOneOff(b) <=> IsOneOff(a)
        /\ IsOverride(b) <=> IsOverride(a)
    BY <2>1 DEF IsSeries, IsOneOff, IsOverride
  <2>3. OccursOn(b, day) <=> OccursOn(a, day)
    BY <2>1 DEF OccursOn, OnMonthDay
  <2> QED
    BY <2>2, <2>3 DEF a, b
<1>3. DaySeries(day)' = DaySeries(day)
  BY <1>1, <1>2 DEF DaySeries
<1>4. \A s \in DaySeries(day) : LiveExceptions(s, day)' = LiveExceptions(s, day)
  BY <1>1 DEF LiveExceptions
<1> DEFINE S == DaySeries(day)
           one == {j \in LiveRows : IsOneOff(rows[j]) /\ rows[j].day = day}
           bare == {s \in S : LiveExceptions(s, day) = {}}
           edits(s) == {x \in LiveExceptions(s, day) : IsOverride(rows[x])}
           C == {[id |-> j, shown |-> j] : j \in one} \cup {[id |-> s, shown |-> s] : s \in bare}
                \cup UNION {{[id |-> s, shown |-> x] : x \in edits(s)} : s \in S}
<1>5. DayCommitments(day) = C
  BY DEF DayCommitments
<1>6. DayCommitments(day)' = C
  <2>1. {j \in LiveRows' : IsOneOff(rows'[j]) /\ rows'[j].day = day} = one
    BY <1>1, <1>2
  <2>2. {s \in DaySeries(day)' : LiveExceptions(s, day)' = {}} = bare
    BY <1>3, <1>4
  <2>3. \A s \in S : {x \in LiveExceptions(s, day)' : IsOverride(rows'[x])} = edits(s)
    <3> TAKE s \in S
    <3>1. LiveExceptions(s, day) \subseteq LiveRows
      BY DEF LiveExceptions
    <3> QED
      BY <1>2, <1>4, <3>1
  <2>4. UNION {{[id |-> s, shown |-> x] : x \in {x \in LiveExceptions(s, day)' : IsOverride(rows'[x])}}
                 : s \in DaySeries(day)'}
          = UNION {{[id |-> s, shown |-> x] : x \in edits(s)} : s \in S}
    BY <1>3, <2>3
  <2> QED
    BY <2>1, <2>2, <2>4 DEF DayCommitments
<1>7. \A c \in C : c.shown \in LiveRows
  <2>1. one \subseteq LiveRows /\ bare \subseteq LiveRows
    BY DEF DaySeries
  <2>2. \A s \in S : edits(s) \subseteq LiveRows
    BY DEF LiveExceptions
  <2> QED
    BY <2>1, <2>2
<1> HIDE DEF C
<1>8. Shown(day) = {<<c.id, rows[c.shown].start, rows[c.shown].length>> : c \in C}
  BY <1>5 DEF Shown
<1>9. Shown(day)' = {<<c.id, rows'[c.shown].start, rows'[c.shown].length>> : c \in C}
  BY <1>6 DEF Shown
<1> QED
  BY <1>1, <1>7, <1>8, <1>9

LEMMA StepReaches ==
  ASSUME EInv, EInv', [Next]_vars, NEW i \in Stored', rows'[i] # rows[i],
         NEW on \in Days, Shown(on)' # Shown(on)
  PROVE  Reaches(i, on)
<1> SUFFICES ASSUME ~TouchesAll
             PROVE  FALSE
  BY TouchedReaches DEF TouchesAll
<1>1. CASE UNCHANGED vars
  BY <1>1 DEF vars
<1>2. ASSUME NEW day \in PinDays, NEW t \in Tasks, NEW start \in PinTimes, PinTask(day, t, start)
      PROVE  FALSE
  BY <1>2, PinTouches
<1>3. ASSUME NEW b \in Bookings, AddCommitment(b)
      PROVE  FALSE
  BY <1>3, InsertTouches DEF AddCommitment, EInv
<1>4. ASSUME NEW s \in Ids, NEW day \in TouchedDays, SkipOccurrence(s, day)
      PROVE  FALSE
  BY <1>4, InsertTouches DEF SkipOccurrence, EInv
<1>5. ASSUME NEW s \in Ids, NEW day \in TouchedDays, NEW fields \in Edits,
             EditOccurrence(s, day, fields)
      PROVE  FALSE
  BY <1>5, EditTouches
<1>6. ASSUME NEW s \in Ids, NEW stop \in TouchedDays \cup {None}, StopSeries(s, stop)
      PROVE  FALSE
  BY <1>6, StopTouches
<1>7. ASSUME NEW k \in Ids, RemoveEntry(k) \/ RestoreEntry(k)
      PROVE  FALSE
  BY <1>7, LiveTouches DEF RemoveEntry, RestoreEntry, LiveRows
<1>8. ASSUME NEW k \in Ids, NEW fields \in Edits, UpdateEntry(k, fields)
      PROVE  FALSE
  BY <1>8, UpdateTouches
<1>9. ASSUME NEW day \in PinDays,
             NEW ids \in UNION {SetToSeqs(S) : S \in SUBSET LivePins(day)}, ReorderPins(day, ids)
      PROVE  FALSE
  BY <1>9, ReorderShowsTheSame DEF EInv
<1>10. ASSUME NEW t \in Tasks, PurgeTask(t)
       PROVE  FALSE
  BY <1>10 DEF PurgeTask, Stored
<1>11. ASSUME NEW t \in Tasks, NEW row \in Lives[t], ChangeTask(t, row)
       PROVE  FALSE
  BY <1>11 DEF ChangeTask
<1> QED
  BY <1>1, <1>2, <1>3, <1>4, <1>5, <1>6, <1>7, <1>8, <1>9, <1>10, <1>11 DEF Next

\* A write changes what is shown of the days it is about and of no other: one day for an
\* edit, a skip, an un-skip or a reset; none before an end; none edited or skipped by hand
\* for an edit of a series; none before its first day for a series come or gone.
THEOREM WritesKeepToTheirDays == Spec => WritesReachTheirDay
<1>1. EInv /\ EInv' /\ [Next]_vars
        => [\A i \in Stored' : rows'[i] # rows[i] =>
              \A day \in Days : Shown(day)' # Shown(day) => Reaches(i, day)]_vars
  BY StepReaches
<1>2. EInv /\ EInv' /\ [Next]_vars
        => [\A i \in Stored' : rows'[i] # rows[i] =>
              \A day \in Days : Shown(day)' # Shown(day) =>
                IF ~IsSeries(rows'[i]) THEN day = rows'[i].day
                ELSE IF i \in LiveRows /\ i \in LiveRows'
                     THEN IF rows'[i].stop # rows[i].stop
                          THEN day >= Min({rows[i].stop, rows'[i].stop} \ {None})
                          ELSE LiveExceptions(i, day) = {}
                     ELSE day >= rows'[i].day]_vars
  BY <1>1 DEF Reaches
<1> QED
  BY <1>2, Invariant, PTL DEF Spec, WritesReachTheirDay

-----------------------------------------------------------------------------
(* Counting up                                                              *)

LEMMA LeastNatural ==
  ASSUME NEW N \in SUBSET Nat, N # {}
  PROVE  \E d \in N : \A e \in N : d <= e
<1>1. PICK d \in N : \A e \in N : ~(<<e, d>> \in OpToRel(<, Nat))
  BY NatLessThanWellFounded, WFMin
<1>2. \A e \in N : ~(e < d)
  <2> SUFFICES ASSUME NEW e \in N, e < d
               PROVE  FALSE
    OBVIOUS
  <2>1. <<e, d>> \in Nat \X Nat
    OBVIOUS
  <2> QED
    BY <1>1, <2>1 DEF OpToRel
<1> QED
  BY <1>2

\* A set of numbers that has 0, and n once it has n - 1, has all up to N.
LEMMA CountUp ==
  ASSUME NEW N \in Nat, NEW G, 0 \in G, \A n \in 1..N : n - 1 \in G => n \in G
  PROVE  \A n \in 0..N : n \in G
<1> DEFINE F == {n \in 0..N : n \notin G}
<1> SUFFICES F = {}
  OBVIOUS
<1> SUFFICES ASSUME F # {} PROVE FALSE
  OBVIOUS
<1>1. F \in SUBSET Nat
  OBVIOUS
<1>2. PICK n \in F : \A m \in F : n <= m
  <2> HIDE DEF F
  <2> QED
    BY <1>1, LeastNatural
<1>3. n \in 1..N /\ n - 1 \in 0..N
  BY <1>2
<1> QED
  BY <1>2, <1>3

IsRun(f, N, base, step) ==
  f[0] = base /\ \A n \in 1..N : f[n] = step[<<f[n - 1], n>>]

\* What each step does to what the one before it left is done to a first value, one
\* step after the other.
LEMMA StepsTaken ==
  ASSUME NEW N \in Nat, NEW X, NEW base \in X, NEW step \in [X \X (1..N) -> X]
  PROVE  \E f \in [0..N -> X] : IsRun(f, N, base, step)
<1> DEFINE G == {m \in 0..N : \E f \in [0..m -> X] : IsRun(f, m, base, step)}
<1>1. 0 \in G
  <2> DEFINE f == [n \in 0..0 |-> base]
  <2>1. f \in [0..0 -> X] /\ f[0] = base
    OBVIOUS
  <2>2. IsRun(f, 0, base, step)
    BY <2>1 DEF IsRun
  <2>3. 0 \in 0..N
    OBVIOUS
  <2> HIDE DEF f
  <2> QED
    BY <2>1, <2>2, <2>3
<1>2. ASSUME NEW m \in 1..N, m - 1 \in G
      PROVE  m \in G
  <2>1. PICK f \in [0..m - 1 -> X] : IsRun(f, m - 1, base, step)
    BY <1>2
  <2>2. m - 1 \in 0..m - 1 /\ m \in 0..N
    BY <1>2
  <2> DEFINE last == step[<<f[m - 1], m>>]
             g == [n \in 0..m |-> IF n = m THEN last ELSE f[n]]
  <2>3. last \in X
    BY <1>2, <2>1, <2>2
  <2>4. \A n \in 0..m : n # m => n \in 0..m - 1
    BY <1>2
  <2>5. g \in [0..m -> X]
    BY <2>1, <2>3, <2>4
  <2>6. g[m] = last /\ \A n \in 0..m - 1 : g[n] = f[n]
    BY <1>2
  <2> HIDE DEF g
  <2>7. 0 \in 0..m - 1
    BY <1>2
  <2>8. \A n \in 1..m : g[n] = step[<<g[n - 1], n>>]
    <3> TAKE n \in 1..m
    <3>1. CASE n = m
      BY <2>2, <2>6, <3>1
    <3>2. CASE n # m
      <4>1. n \in 1..m - 1 /\ n \in 0..m - 1 /\ n - 1 \in 0..m - 1
        BY <1>2, <3>2
      <4> QED
        BY <2>1, <2>6, <4>1 DEF IsRun
    <3> QED
      BY <3>1, <3>2
  <2>9. IsRun(g, m, base, step)
    BY <2>1, <2>6, <2>7, <2>8 DEF IsRun
  <2> QED
    BY <2>2, <2>5, <2>9
<1>3. N \in 0..N
  OBVIOUS
<1> HIDE DEF G
<1>4. N \in G
  BY <1>1, <1>2, <1>3, CountUp
<1> QED
  BY <1>4 DEF G

-----------------------------------------------------------------------------
(* Orders                                                                   *)

\* Keys of one length in lexicographic order.
LEMMA KeysOrdered ==
  ASSUME NEW N \in Nat, NEW k \in [1..N -> Nat], NEW l \in [1..N -> Nat], k # l
  PROVE  Precedes(k, l) \/ Precedes(l, k)
<1> DEFINE D == {n \in 1..N : k[n] # l[n]}
<1>1. D # {} /\ D \in SUBSET Nat
  OBVIOUS
<1>2. PICK n \in D : \A m \in D : n <= m
  <2> HIDE DEF D
  <2> QED
    BY <1>1, LeastNatural
<1>3. n \in 1..N /\ k[n] \in Nat /\ l[n] \in Nat /\ k[n] # l[n]
  BY <1>2
<1>4. \A m \in 1..(n - 1) : k[m] = l[m]
  BY <1>2, <1>3
<1>5. k[n] < l[n] \/ l[n] < k[n]
  BY <1>3
<1>6. DOMAIN k = 1..N /\ DOMAIN l = 1..N
  OBVIOUS
<1> HIDE DEF D
<1> QED
  BY <1>3, <1>4, <1>5, <1>6 DEF Precedes

LEMMA KeysFollow ==
  ASSUME NEW N \in Nat, NEW k \in [1..N -> Nat], NEW l \in [1..N -> Nat],
         NEW m \in [1..N -> Nat], Precedes(k, l), Precedes(l, m)
  PROVE  Precedes(k, m)
<1>1. DOMAIN k = 1..N /\ DOMAIN l = 1..N
  OBVIOUS
<1>2. PICK p \in 1..N : k[p] < l[p] /\ \A n \in 1..(p - 1) : k[n] = l[n]
  BY <1>1 DEF Precedes
<1>3. PICK q \in 1..N : l[q] < m[q] /\ \A n \in 1..(q - 1) : l[n] = m[n]
  BY <1>1 DEF Precedes
<1> DEFINE r == IF p < q THEN p ELSE q
<1>4. r \in 1..N /\ \A n \in 1..(r - 1) : n \in 1..(p - 1) /\ n \in 1..(q - 1)
  BY <1>2, <1>3
<1>5. /\ p < q => p \in 1..(q - 1)
      /\ q < p => q \in 1..(p - 1)
  BY <1>2, <1>3
<1>6. k[r] < m[r]
  <2>1. \A n \in 1..N : k[n] \in Nat /\ l[n] \in Nat /\ m[n] \in Nat
    OBVIOUS
  <2>2. CASE p < q
    BY <1>2, <1>3, <1>5, <2>1, <2>2
  <2>3. CASE q < p
    BY <1>2, <1>3, <1>5, <2>1, <2>3
  <2>4. CASE p = q
    BY <1>2, <1>3, <2>1, <2>4
  <2> QED
    BY <1>2, <1>3, <2>2, <2>3, <2>4
<1>7. \A n \in 1..(r - 1) : k[n] = m[n]
  BY <1>2, <1>3, <1>4
<1> HIDE DEF r
<1> QED
  BY <1>1, <1>4, <1>6, <1>7 DEF Precedes

LEMMA KeyNotBeforeItself ==
  ASSUME NEW N \in Nat, NEW k \in [1..N -> Nat]
  PROVE  ~Precedes(k, k)
<1>1. \A n \in DOMAIN k : ~(k[n] < k[n])
  OBVIOUS
<1> QED
  BY <1>1 DEF Precedes

\* Things sorted by a key that tells them apart.
LEMMA ByKey ==
  ASSUME NEW N \in Nat, NEW S, NEW key \in [S -> [1..N -> Nat]],
         \A x, y \in S : key[x] = key[y] => x = y
  PROVE  Ordered(S, {p \in S \X S : Precedes(key[p[1]], key[p[2]])})
<1> DEFINE R == {p \in S \X S : Precedes(key[p[1]], key[p[2]])}
<1>1. \A x, y \in S : <<x, y>> \in R <=> Precedes(key[x], key[y])
  OBVIOUS
<1> HIDE DEF R
<1>2. \A x \in S : key[x] \in [1..N -> Nat]
  OBVIOUS
<1>3. \A x \in S : <<x, x>> \notin R
  BY <1>1, <1>2, KeyNotBeforeItself
<1>4. \A x, y, z \in S : <<x, y>> \in R /\ <<y, z>> \in R => <<x, z>> \in R
  BY <1>1, <1>2, KeysFollow
<1>5. \A x, y \in S : x # y => <<x, y>> \in R \/ <<y, x>> \in R
  <2> SUFFICES ASSUME NEW x \in S, NEW y \in S, x # y
               PROVE  Precedes(key[x], key[y]) \/ Precedes(key[y], key[x])
    BY <1>1
  <2> QED
    BY <1>2, KeysOrdered
<1> QED
  BY <1>3, <1>4, <1>5 DEF Ordered, R

-----------------------------------------------------------------------------
(* Free time                                                                *)

Intervals == {b \in Nat \X Nat : b[1] <= b[2]}

\* From s until e, clear of the interval c.
Beside(s, e, c) == e <= c[1] \/ c[2] <= s

LEMMA IntervalParts ==
  ASSUME NEW b \in Intervals
  PROVE  /\ b \in Nat \X Nat /\ b[1] \in Nat /\ b[2] \in Nat /\ b[1] <= b[2]
         /\ b \in [1..2 -> Nat] /\ b = <<b[1], b[2]>>
<1>1. b \in Nat \X Nat /\ b[1] <= b[2]
  BY DEF Intervals
<1>2. PICK x \in Nat, y \in Nat : b = <<x, y>>
  BY <1>1
<1>3. <<x, y>> \in [1..2 -> Nat]
  OBVIOUS
<1> QED
  BY <1>1, <1>2, <1>3

\* Free time goes on after the latest end.
LEMMA ResumesAfter ==
  ASSUME NEW from \in Nat, NEW B \in SUBSET Intervals, IsFiniteSet(B)
  PROVE  /\ Resumes(from, B) \in Nat /\ from <= Resumes(from, B)
         /\ \A b \in B : b[2] <= Resumes(from, B)
         /\ Resumes(from, B) = from \/ \E b \in B : Resumes(from, B) = b[2]
<1> DEFINE ends == {b[2] : b \in B}
           f == [b \in B |-> b[2]]
           all == {from} \cup ends
<1>1. f \in Surjection(B, ends)
  BY DEF Surjection
<1>2. IsFiniteSet(ends)
  BY <1>1, FS_Surjection
<1>3. ends \subseteq Nat
  <2> SUFFICES ASSUME NEW b \in B PROVE b[2] \in Nat
    OBVIOUS
  <2> QED
    BY IntervalParts
<1>4. \A b \in B : b[2] \in ends
  OBVIOUS
<1>5. \A e \in ends : \E b \in B : e = b[2]
  OBVIOUS
<1> HIDE DEF ends, f
<1>6. all \in SUBSET Int /\ all # {} /\ IsFiniteSet(all)
  <2>1. all = ends \cup {from}
    OBVIOUS
  <2> QED
    BY <1>2, <1>3, <2>1, FS_AddElement
<1>7. Max(all) \in all /\ \A x \in all : x <= Max(all)
  <2> HIDE DEF all
  <2> QED
    BY <1>6, Extremes
<1>8. Resumes(from, B) = Max(all)
  BY DEF Resumes, ends
<1> QED
  BY <1>3, <1>4, <1>5, <1>7, <1>8

\* The gaps of a window are the stretches that no block takes: each lies in the window
\* beside every block and every other gap, and each free stretch is in one of them.
FreeTime(G, from, to, busy) ==
  /\ G \in SUBSET (Nat \X Nat)
  /\ \A g \in G : from <= g[1] /\ g[1] <= g[2] /\ g[2] <= to
  /\ \A g \in G, c \in busy : Beside(g[1], g[2], c)
  /\ \A g, h \in G : g # h => Beside(g[1], g[2], h)
  /\ \A a, e \in Nat :
       from <= a /\ a < e /\ e <= to /\ (\A c \in busy : Beside(a, e, c))
         => \E g \in G : g[1] <= a /\ e <= g[2]

\* Of two intervals the one that starts first, or ends first, is seen first.
LEMMA SeenFirst ==
  ASSUME NEW b \in Intervals, NEW c \in Intervals
  PROVE  /\ Precedes(b, c) <=> b[1] < c[1] \/ (b[1] = c[1] /\ b[2] < c[2])
         /\ b # c => Precedes(b, c) \/ Precedes(c, b)
<1>1. /\ b[1] \in Nat /\ b[2] \in Nat /\ b \in [1..2 -> Nat]
      /\ c[1] \in Nat /\ c[2] \in Nat /\ c \in [1..2 -> Nat]
  BY IntervalParts
<1>2. DOMAIN b = 1..2
  BY <1>1
<1>3. b # c => Precedes(b, c) \/ Precedes(c, b)
  BY <1>1, KeysOrdered
<1>4. ASSUME Precedes(b, c)
      PROVE  b[1] < c[1] \/ (b[1] = c[1] /\ b[2] < c[2])
  <2>1. PICK n \in 1..2 : b[n] < c[n] /\ \A m \in 1..(n - 1) : b[m] = c[m]
    BY <1>2, <1>4 DEF Precedes
  <2>2. n = 1 \/ (n = 2 /\ 1 \in 1..(n - 1))
    BY <2>1
  <2> QED
    BY <2>1, <2>2
<1>5. ASSUME b[1] < c[1] \/ (b[1] = c[1] /\ b[2] < c[2])
      PROVE  Precedes(b, c)
  <2>1. CASE b[1] < c[1]
    <3>1. 1 \in DOMAIN b /\ \A m \in 1..(1 - 1) : b[m] = c[m]
      BY <1>2
    <3> QED
      BY <2>1, <3>1 DEF Precedes
  <2>2. CASE b[1] = c[1] /\ b[2] < c[2]
    <3>1. 2 \in DOMAIN b /\ \A m \in 1..(2 - 1) : m = 1
      BY <1>2
    <3>2. \A m \in 1..(2 - 1) : b[m] = c[m]
      BY <2>2, <3>1
    <3> QED
      BY <2>2, <3>1, <3>2 DEF Precedes
  <2> QED
    BY <1>5, <2>1, <2>2
<1> QED
  BY <1>3, <1>4, <1>5

\* A set of intervals that is not empty has one that is seen first.
LEMMA FirstSeen ==
  ASSUME NEW B \in SUBSET Intervals, B # {}
  PROVE  \E b \in B : \A c \in B : b[1] <= c[1] /\ (b[1] = c[1] => b[2] <= c[2])
<1>0. \A b \in B : b \in Intervals /\ b[1] \in Nat /\ b[2] \in Nat
  BY IntervalParts
<1> DEFINE starts == {b[1] : b \in B}
<1>1. starts \in SUBSET Nat /\ starts # {}
  BY <1>0
<1>2. PICK s \in starts : \A x \in starts : s <= x
  <2> HIDE DEF starts
  <2> QED
    BY <1>1, LeastNatural
<1> DEFINE F == {b \in B : b[1] = s}
           ends == {b[2] : b \in F}
<1>3. ends \in SUBSET Nat /\ ends # {}
  BY <1>0, <1>2
<1>4. PICK e \in ends : \A x \in ends : e <= x
  <2> HIDE DEF ends
  <2> QED
    BY <1>3, LeastNatural
<1>5. PICK b \in F : b[2] = e
  BY <1>4
<1>6. \A c \in B : s <= c[1]
  BY <1>2
<1>7. \A c \in B : c[1] = s => e <= c[2]
  BY <1>4
<1> QED
  BY <1>5, <1>6, <1>7

\* The earlier of two numbers.
LEMMA EarlierOf ==
  ASSUME NEW x \in Nat, NEW y \in Nat
  PROVE  /\ Min({x, y}) \in Nat /\ Min({x, y}) <= x /\ Min({x, y}) <= y
         /\ Min({x, y}) = x \/ Min({x, y}) = y
<1> DEFINE all == {x, y}
<1>1. all \in SUBSET Int /\ all # {} /\ IsFiniteSet(all)
  <2>1. IsFiniteSet(({} \cup {x}) \cup {y})
    BY FS_EmptySet, FS_AddElement
  <2>2. all = ({} \cup {x}) \cup {y}
    OBVIOUS
  <2> QED
    BY <2>1, <2>2
<1>2. Min(all) \in all /\ \A z \in all : Min(all) <= z
  <2> HIDE DEF all
  <2> QED
    BY <1>1, Extremes
<1> QED
  BY <1>2

\* The gaps worked out for a window are its free time.
LEMMA GapsFree ==
  ASSUME NEW from \in Nat, NEW to \in Nat, NEW busy \in SUBSET Intervals, IsFiniteSet(busy)
  PROVE  FreeTime(FreeGaps(from, to, busy), from, to, busy)
<1> DEFINE P(b) == {c \in busy : Precedes(c, b)}
           R(b) == Resumes(from, P(b))
           E(b) == Min({b[1], to})
           last == Resumes(from, busy)
           G == FreeGaps(from, to, busy)
<1>0. \A b \in busy : b \in Intervals /\ b[1] \in Nat /\ b[2] \in Nat /\ b[1] <= b[2]
  BY IntervalParts
<1>1. /\ last \in Nat /\ from <= last
      /\ \A c \in busy : c[2] <= last
      /\ last = from \/ \E c \in busy : last = c[2]
  BY ResumesAfter
<1>2. \A b \in busy : /\ R(b) \in Nat /\ from <= R(b)
                      /\ \A c \in busy : Precedes(c, b) => c[2] <= R(b)
                      /\ R(b) = from \/ \E c \in busy : Precedes(c, b) /\ R(b) = c[2]
  <2> TAKE b \in busy
  <2> DEFINE B == P(b)
  <2>1. B \in SUBSET Intervals /\ IsFiniteSet(B) /\ \A c \in B : c \in busy /\ Precedes(c, b)
    BY FS_Subset
  <2>2. \A c \in busy : Precedes(c, b) => c \in B
    OBVIOUS
  <2> HIDE DEF B
  <2>3. /\ Resumes(from, B) \in Nat /\ from <= Resumes(from, B)
        /\ \A c \in B : c[2] <= Resumes(from, B)
        /\ Resumes(from, B) = from \/ \E c \in B : Resumes(from, B) = c[2]
    BY <2>1, ResumesAfter
  <2>4. Resumes(from, B) = R(b)
    BY DEF B
  <2> HIDE DEF R
  <2> QED
    BY <2>1, <2>2, <2>3, <2>4
<1>3. \A b \in busy : E(b) \in Nat /\ E(b) <= b[1] /\ E(b) <= to /\ (E(b) = b[1] \/ E(b) = to)
  BY <1>0, EarlierOf
<1>4. \A g : g \in G <=> \/ \E b \in busy : g = <<R(b), E(b)>> /\ R(b) < E(b)
                         \/ g = <<last, to>> /\ last < to
  <2> DEFINE before == {<<R(b), E(b)>> : b \in busy}
             all == before \cup {<<last, to>>}
  <2>1. G = {g \in all : g[1] < g[2]}
    BY DEF FreeGaps
  <2> HIDE DEF G, R, E, last
  <2>2. \A g : g \in all <=> (\E b \in busy : g = <<R(b), E(b)>>) \/ g = <<last, to>>
    OBVIOUS
  <2> HIDE DEF all
  <2>3. \A b \in busy : <<R(b), E(b)>>[1] = R(b) /\ <<R(b), E(b)>>[2] = E(b)
    OBVIOUS
  <2>4. <<last, to>>[1] = last /\ <<last, to>>[2] = to
    OBVIOUS
  <2> QED
    BY <2>1, <2>2, <2>3, <2>4
<1>5. \A b, c \in busy : /\ Precedes(b, c) <=> b[1] < c[1] \/ (b[1] = c[1] /\ b[2] < c[2])
                         /\ b # c => Precedes(b, c) \/ Precedes(c, b)
  BY SeenFirst
<1> HIDE DEF R, E, last, G
<1>6. ASSUME NEW g \in G
      PROVE  g \in Nat \X Nat /\ from <= g[1] /\ g[1] < g[2] /\ g[2] <= to
  <2>1. CASE g = <<last, to>> /\ last < to
    BY <1>1, <2>1
  <2>2. ASSUME NEW b \in busy, g = <<R(b), E(b)>>, R(b) < E(b)
        PROVE  g \in Nat \X Nat /\ from <= g[1] /\ g[1] < g[2] /\ g[2] <= to
    BY <1>2, <1>3, <2>2
  <2> QED
    BY <1>4, <2>1, <2>2
<1>7. \A g \in G, c \in busy : Beside(g[1], g[2], c)
  <2> TAKE g \in G, c \in busy
  <2>1. CASE g = <<last, to>>
    BY <1>1, <2>1 DEF Beside
  <2>2. ASSUME NEW b \in busy, g = <<R(b), E(b)>>
        PROVE  Beside(g[1], g[2], c)
    <3>1. CASE Precedes(c, b)
      BY <1>2, <2>2, <3>1 DEF Beside
    <3>2. CASE ~Precedes(c, b)
      <4>1. b[1] <= c[1]
        BY <1>0, <1>5, <3>2
      <4> QED
        BY <1>0, <1>3, <2>2, <4>1 DEF Beside
    <3> QED
      BY <3>1, <3>2
  <2> QED
    BY <1>4, <2>1, <2>2
<1>8. \A g, h \in G : g # h => Beside(g[1], g[2], h)
  <2> SUFFICES ASSUME NEW g \in G, NEW h \in G, g # h
               PROVE  Beside(g[1], g[2], h)
    OBVIOUS
  <2>1. ASSUME NEW b \in busy, NEW c \in busy, Precedes(b, c)
        PROVE  E(b) <= R(c)
    <3>1. E(b) \in Nat /\ R(c) \in Nat /\ E(b) <= b[1] /\ b[1] <= b[2] /\ b[2] <= R(c)
      BY <1>0, <1>2, <1>3, <2>1
    <3> QED
      BY <1>0, <3>1
  <2>2. ASSUME NEW b \in busy
        PROVE  E(b) <= last
    <3>1. E(b) \in Nat /\ E(b) <= b[1] /\ b[1] <= b[2] /\ b[2] <= last
      BY <1>0, <1>1, <1>3
    <3> QED
      BY <1>0, <1>1, <3>1
  <2>3. ASSUME NEW b \in busy, NEW c \in busy, g = <<R(b), E(b)>>, h = <<R(c), E(c)>>
        PROVE  Beside(g[1], g[2], h)
    <3>1. Precedes(b, c) \/ Precedes(c, b)
      BY <1>5, <2>3
    <3> QED
      BY <2>1, <2>3, <3>1 DEF Beside
  <2>4. ASSUME NEW b \in busy, g = <<R(b), E(b)>>, h = <<last, to>>
        PROVE  Beside(g[1], g[2], h)
    BY <2>2, <2>4 DEF Beside
  <2>5. ASSUME NEW b \in busy, h = <<R(b), E(b)>>, g = <<last, to>>
        PROVE  Beside(g[1], g[2], h)
    BY <2>2, <2>5 DEF Beside
  <2> QED
    BY <1>4, <2>3, <2>4, <2>5
<1>9. ASSUME NEW a \in Nat, NEW e \in Nat, from <= a, a < e, e <= to,
             \A c \in busy : Beside(a, e, c)
      PROVE  \E g \in G : g[1] <= a /\ e <= g[2]
  <2> DEFINE L == {c \in busy : e <= c[1]}
  <2>0. \A c \in busy : c \notin L => c[2] <= a
    BY <1>9 DEF Beside
  <2>1. CASE L = {}
    <3>1. last <= a
      BY <1>1, <1>9, <2>0, <2>1
    <3>2. <<last, to>> \in G
      BY <1>1, <1>4, <1>9, <3>1
    <3> QED
      BY <1>9, <3>1, <3>2
  <2>2. CASE L # {}
    <3>1. PICK b \in L : \A c \in L : b[1] <= c[1] /\ (b[1] = c[1] => b[2] <= c[2])
      <4>1. L \in SUBSET Intervals
        OBVIOUS
      <4> HIDE DEF L
      <4> QED
        BY <2>2, <4>1, FirstSeen
    <3>2. b \in busy /\ e <= b[1]
      OBVIOUS
    <3>3. \A c \in busy : Precedes(c, b) => c[2] <= a
      <4> SUFFICES ASSUME NEW c \in busy, Precedes(c, b)
                   PROVE  c \notin L
        BY <2>0
      <4> QED
        BY <1>0, <1>5, <3>1
    <3>4. R(b) <= a
      BY <1>2, <1>9, <3>2, <3>3
    <3>5. e <= E(b)
      BY <1>0, <1>3, <1>9, <3>2
    <3>6. <<R(b), E(b)>> \in G
      BY <1>2, <1>3, <1>4, <1>9, <3>2, <3>4, <3>5
    <3> QED
      BY <3>4, <3>5, <3>6
  <2> QED
    BY <2>1, <2>2
<1>10. \A g \in G : from <= g[1] /\ g[1] <= g[2] /\ g[2] <= to
  BY <1>6
<1>11. G \in SUBSET (Nat \X Nat)
  BY <1>6
<1> QED
  BY <1>7, <1>8, <1>9, <1>10, <1>11 DEF FreeTime, G

-----------------------------------------------------------------------------
(* How long tasks take                                                      *)

\* f is what the parts of S come to when element c counts w[c].
Sums(f, S, w) ==
  f = [s \in SUBSET S |-> IF s = {} THEN 0
                          ELSE w[CHOOSE x \in s : TRUE] + f[s \ {CHOOSE x \in s : TRUE}]]

\* A sum over a set taken apart from any element has a value: what the sum of the
\* others is, and that element's share.
LEMMA SumDefined ==
  ASSUME NEW S, IsFiniteSet(S), NEW w \in [S -> Nat]
  PROVE  \E f \in [SUBSET S -> Nat] : Sums(f, S, w)
<1> DEFINE any(s) == CHOOSE x \in s : TRUE
           X == [SUBSET S -> Nat]
           next(f) == [s \in SUBSET S |-> IF s = {} THEN 0 ELSE w[any(s)] + f[s \ {any(s)}]]
           zero == [s \in SUBSET S |-> 0]
           N == Cardinality(S) + 1
           step == [p \in X \X (1..N) |-> next(p[1])]
<1>1. \A s \in SUBSET S : s # {} => any(s) \in s /\ s \ {any(s)} \in SUBSET S
  OBVIOUS
<1> HIDE DEF any
<1>2. ASSUME NEW f \in X
      PROVE  next(f) \in X
  <2> SUFFICES ASSUME NEW s \in SUBSET S, s # {}
               PROVE  w[any(s)] + f[s \ {any(s)}] \in Nat
    OBVIOUS
  <2>1. w[any(s)] \in Nat /\ f[s \ {any(s)}] \in Nat
    BY <1>1
  <2> QED
    BY <2>1
<1>3. zero \in X /\ N \in Nat /\ N - 1 = Cardinality(S) /\ Cardinality(S) \in Nat
  BY FS_CardinalityType
<1>4. step \in [X \X (1..N) -> X]
  <2> HIDE DEF next, X
  <2> QED
    BY <1>2
<1>5. \A f \in X, n \in 1..N : step[<<f, n>>] = next(f)
  <2> HIDE DEF next, X
  <2> QED
    OBVIOUS
<1> HIDE DEF step, zero
<1>6. PICK run \in [0..N -> X] : IsRun(run, N, zero, step)
  <2> HIDE DEF X, N, next
  <2>1. N \in Nat /\ zero \in X
    BY <1>3
  <2> QED
    BY ONLY <2>1, <1>4, StepsTaken
<1>7. \A n \in 1..N : run[n - 1] \in X /\ run[n] = next(run[n - 1])
  <2> HIDE DEF X, next
  <2> TAKE n \in 1..N
  <2>1. n - 1 \in 0..N
    BY <1>3
  <2> QED
    BY <1>5, <1>6, <2>1 DEF IsRun
<1> DEFINE G == {n \in 0..(N - 1) :
                   \A s \in SUBSET S : Cardinality(s) <= n => run[n + 1][s] = run[n][s]}
<1>8. \A s \in SUBSET S : /\ IsFiniteSet(s) /\ Cardinality(s) \in Nat
                          /\ Cardinality(s) <= Cardinality(S)
                          /\ s # {} => Cardinality(s \ {any(s)}) = Cardinality(s) - 1
                          /\ Cardinality(s) = 0 => s = {}
  <2> TAKE s \in SUBSET S
  <2>1. IsFiniteSet(s) /\ Cardinality(s) <= Cardinality(S)
    BY FS_Subset
  <2>2. Cardinality(s) \in Nat /\ (Cardinality(s) = 0 <=> s = {})
    BY <2>1, FS_CardinalityType, FS_EmptySet
  <2>3. s # {} => Cardinality(s \ {any(s)}) = Cardinality(s) - 1
    BY <1>1, <2>1, FS_RemoveElement
  <2> QED
    BY <2>1, <2>2, <2>3
<1>9. \A n \in 1..N : \A s \in SUBSET S :
        run[n][s] = IF s = {} THEN 0 ELSE w[any(s)] + run[n - 1][s \ {any(s)}]
  BY <1>7
<1>10. 0 \in G
  <2>1. \A s \in SUBSET S : Cardinality(s) <= 0 => s = {}
    <3> TAKE s \in SUBSET S
    <3>1. Cardinality(s) \in Nat /\ (Cardinality(s) = 0 => s = {})
      BY <1>8
    <3> QED
      BY ONLY <3>1
  <2>2. 1 \in 1..N /\ 0 \in 0..(N - 1) /\ {} \in SUBSET S
    BY <1>3
  <2>3. run[1][{}] = 0 /\ run[0][{}] = 0
    BY <1>6, <1>9, <2>2 DEF zero, IsRun
  <2>4. 0 + 1 = 1
    OBVIOUS
  <2> HIDE DEF N
  <2> QED
    BY <2>1, <2>2, <2>3, <2>4
<1>11. ASSUME NEW n \in 1..(N - 1), n - 1 \in G
       PROVE  n \in G
  <2>0. n \in 0..(N - 1) /\ n \in Nat
    BY <1>3
  <2> SUFFICES ASSUME NEW s \in SUBSET S, Cardinality(s) <= n
               PROVE  run[n + 1][s] = run[n][s]
    BY <2>0
  <2>1. n \in 1..N /\ n + 1 \in 1..N /\ (n + 1) - 1 = n /\ (n - 1) + 1 = n
    BY <1>3
  <2>2. CASE s = {}
    BY <1>9, <2>1, <2>2
  <2>3. CASE s # {}
    <3>1. s \ {any(s)} \in SUBSET S /\ Cardinality(s \ {any(s)}) <= n - 1
      <4>1. Cardinality(s \ {any(s)}) = Cardinality(s) - 1 /\ Cardinality(s) \in Nat
        BY <1>8, <2>3
      <4> QED
        BY <1>1, <2>3, <4>1
    <3>2. run[n][s \ {any(s)}] = run[n - 1][s \ {any(s)}]
      BY <1>11, <2>1, <3>1
    <3>3. \A m \in 1..N : run[m][s] = w[any(s)] + run[m - 1][s \ {any(s)}]
      BY <1>9, <2>3
    <3> HIDE DEF N
    <3> QED
      BY <2>1, <3>2, <3>3
  <2> QED
    BY <2>2, <2>3
<1>12. N - 1 \in G
  <2>1. N - 1 \in 0..(N - 1) /\ N - 1 \in Nat
    BY <1>3
  <2> HIDE DEF G, N
  <2> QED
    BY <1>10, <1>11, <2>1, CountUp
<1> DEFINE f == run[N]
<1>13. f \in X /\ \A s \in SUBSET S : f[s] = run[N - 1][s]
  <2>1. N \in 0..N /\ (N - 1) + 1 = N
    BY <1>3
  <2>2. \A s \in SUBSET S : Cardinality(s) <= N - 1
    BY <1>3, <1>8
  <2> HIDE DEF X, N
  <2> QED
    BY <1>6, <1>12, <2>1, <2>2
<1>14. f = next(f)
  <2>1. \A s \in SUBSET S : f[s] = IF s = {} THEN 0 ELSE w[any(s)] + f[s \ {any(s)}]
    <3>1. N \in 1..N
      BY <1>3
    <3> HIDE DEF N
    <3> QED
      BY <1>1, <1>9, <1>13, <3>1
  <2> HIDE DEF f
  <2> QED
    BY <1>13, <2>1
<1> HIDE DEF f
<1> QED
  BY <1>13, <1>14 DEF any, Sums

\* The fields of a task, and that it has finitely many subtasks.
LEMMA TaskTyped ==
  ASSUME EntriesTypeOK, NEW t \in Tasks
  PROVE  /\ t \in Nat /\ tasks[t].minutes \in (Nat \ {0}) \cup {None}
         /\ tasks[t].due \in Nat \cup {None} /\ tasks[t].priority \in Nat
         /\ tasks[t].blocked \in BOOLEAN /\ tasks[t].until \in Nat
         /\ Subtasks(t) \in SUBSET Tasks /\ IsFiniteSet(Subtasks(t))
         /\ Parent[t] \in Tasks \cup {None} /\ None \notin Tasks
<1>1. tasks[t] \in TaskRow
  BY DEF EntriesTypeOK
<1>2. IsFiniteSet(Tasks)
  BY PackerAssumption
<1>3. Subtasks(t) \in SUBSET Tasks
  BY DEF Subtasks
<1>4. t \in Nat /\ Parent[t] \in Tasks \cup {None} /\ None \notin Tasks
  <2>1. Tasks \subseteq Nat /\ Parent \in [Tasks -> Tasks \cup {None}] /\ None \notin Int
    BY EntriesAssumption
  <2>2. t \in Nat /\ Parent[t] \in Tasks \cup {None}
    BY <2>1
  <2>3. Tasks \subseteq Int
    BY <2>1
  <2> QED
    BY ONLY <2>1, <2>2, <2>3
<1> QED
  BY <1>1, <1>2, <1>3, <1>4, FS_Subset DEF TaskRow

\* What several sized tasks take together is some time.
LEMMA SumPositive ==
  ASSUME NEW S \in SUBSET Tasks, IsFiniteSet(S), S # {},
         \A c \in S : tasks[c].minutes \in Nat \ {0}
  PROVE  MapThenSumSet(LAMBDA c : tasks[c].minutes, S) \in Nat \ {0}
<1> DEFINE w == [c \in S |-> tasks[c].minutes]
           body(f) == [s \in SUBSET S |->
                         IF s = {} THEN 0
                         ELSE tasks[CHOOSE x \in s : TRUE].minutes
                                + f[s \ {CHOOSE x \in s : TRUE}]]
           iter == CHOOSE f : f = body(f)
<1>1. w \in [S -> Nat]
  OBVIOUS
<1>2. PICK f \in [SUBSET S -> Nat] : Sums(f, S, w)
  <2> HIDE DEF w
  <2> QED
    BY <1>1, SumDefined
<1> DEFINE any(s) == CHOOSE x \in s : TRUE
<1>3. \A s \in SUBSET S : s # {} => any(s) \in s /\ any(s) \in S /\ s \ {any(s)} \in SUBSET S
  OBVIOUS
<1>4. f = body(f)
  <2>1. \A s \in SUBSET S : s # {} => w[any(s)] = tasks[any(s)].minutes
    BY <1>3
  <2> HIDE DEF w
  <2> QED
    BY <1>2, <2>1 DEF Sums
<1>5. iter = body(iter)
  <2> HIDE DEF body
  <2> QED
    BY <1>4
<1>6. MapThenSumSet(LAMBDA c : tasks[c].minutes, S) = iter[S]
  BY DEF MapThenSumSet, MapThenFoldSet
<1> HIDE DEF iter, w
<1>7. \A s \in SUBSET S :
        /\ f[s] = IF s = {} THEN 0 ELSE tasks[any(s)].minutes + f[s \ {any(s)}]
        /\ iter[s] = IF s = {} THEN 0 ELSE tasks[any(s)].minutes + iter[s \ {any(s)}]
  BY <1>4, <1>5
<1> HIDE DEF body, any
<1> DEFINE D == {Cardinality(s) : s \in {s \in SUBSET S : iter[s] # f[s]}}
<1>8. D = {}
  <2> SUFFICES ASSUME D # {} PROVE FALSE
    OBVIOUS
  <2>1. \A s \in SUBSET S : IsFiniteSet(s) /\ Cardinality(s) \in Nat
    BY FS_Subset, FS_CardinalityType
  <2>2. D \in SUBSET Nat
    BY <2>1
  <2>3. PICK d \in D : \A e \in D : d <= e
    <3> HIDE DEF D
    <3> QED
      BY <2>2, LeastNatural
  <2>4. PICK s \in SUBSET S : iter[s] # f[s] /\ Cardinality(s) = d
    OBVIOUS
  <2>5. s # {}
    BY <1>7, <2>4
  <2>6. Cardinality(s \ {any(s)}) = Cardinality(s) - 1
    BY <1>3, <2>1, <2>5, FS_RemoveElement
  <2>7. iter[s \ {any(s)}] = f[s \ {any(s)}]
    <3> SUFFICES ASSUME iter[s \ {any(s)}] # f[s \ {any(s)}] PROVE FALSE
      OBVIOUS
    <3>1. Cardinality(s \ {any(s)}) \in D
      BY <1>3, <2>5
    <3> QED
      BY <2>1, <2>3, <2>4, <2>6, <3>1, SMTT(20)
  <2> QED
    BY <1>7, <2>4, <2>5, <2>7
<1>9. iter[S] = f[S]
  BY <1>8
<1>10. any(S) \in S /\ S \ {any(S)} \in SUBSET S
  BY <1>3
<1>11. f[S] = tasks[any(S)].minutes + f[S \ {any(S)}]
  BY <1>7
<1>12. tasks[any(S)].minutes \in Nat \ {0} /\ f[S \ {any(S)}] \in Nat
  BY <1>10
<1>13. f[S] \in Nat \ {0}
  BY ONLY <1>11, <1>12
<1> QED
  BY ONLY <1>6, <1>9, <1>13

LEMMA MinutesTyped ==
  ASSUME EntriesTypeOK, NEW t \in Tasks
  PROVE  Minutes(t) \in Nat \ {0}
<1> DEFINE sized == {c \in Subtasks(t) : tasks[c].minutes # None}
<1>1. Subtasks(t) \in SUBSET Tasks /\ IsFiniteSet(Subtasks(t))
  BY TaskTyped
<1>2. sized \in SUBSET Tasks /\ IsFiniteSet(sized)
  BY <1>1, FS_Subset
<1>3. \A c \in sized : tasks[c].minutes \in Nat \ {0}
  <2> TAKE c \in sized
  <2>1. tasks[c].minutes \in (Nat \ {0}) \cup {None} /\ tasks[c].minutes # None
    BY <1>1, TaskTyped
  <2> QED
    BY <2>1
<1>4. DefaultEstimate \in Nat \ {0}
  BY PackerAssumption
<1>5. CASE Subtasks(t) = {}
  BY <1>4, <1>5, TaskTyped DEF Minutes
<1>6. CASE Subtasks(t) # {} /\ sized = {}
  BY <1>4, <1>6 DEF Minutes
<1>7. CASE Subtasks(t) # {} /\ sized # {}
  <2> DEFINE sum == MapThenSumSet(LAMBDA c : tasks[c].minutes, sized)
  <2>1. sum \in Nat \ {0}
    <3> HIDE DEF sized
    <3> QED
      BY <1>2, <1>3, <1>7, SumPositive
  <2>2. None # sum
    BY <2>1, EntriesAssumption
  <2>3. Minutes(t) = IF sum = None THEN DefaultEstimate ELSE sum
    BY <1>7 DEF Minutes
  <2> HIDE DEF sum
  <2> QED
    BY <2>1, <2>2, <2>3
<1> QED
  BY <1>5, <1>6, <1>7

-----------------------------------------------------------------------------
(* Placing a block                                                          *)

\* Every gap of H is part of one of G.
Within(H, G) == \A h \in H : \E g \in G : g[1] <= h[1] /\ h[2] <= g[2]

\* Of gaps that hold some minutes there is a first one.
LEMMA FirstFits ==
  ASSUME NEW G \in SUBSET (Nat \X Nat), NEW m \in Nat, Fits(m, G) # {}
  PROVE  LET g == FirstFit(m, G)
         IN  g \in G /\ g[1] \in Nat /\ g[2] \in Nat /\ g[1] + m <= g[2]
<1> DEFINE F == Fits(m, G)
           starts == {g[1] : g \in F}
<1>1. \A g \in F : g \in G /\ g[1] \in Nat /\ g[2] \in Nat /\ g[2] - g[1] >= m
  BY DEF Fits
<1>2. starts \in SUBSET Nat /\ starts # {}
  BY <1>1
<1>3. PICK s \in starts : \A x \in starts : s <= x
  <2> HIDE DEF starts
  <2> QED
    BY <1>2, LeastNatural
<1>4. PICK g \in F : s = g[1]
  BY <1>3
<1>5. \A h \in F : g[1] <= h[1]
  BY <1>3, <1>4
<1> HIDE DEF F, starts
<1>6. FirstFit(m, G) \in F
  BY <1>5 DEF FirstFit, F
<1>7. \A a, b \in Nat : b - a >= m => a + m <= b
  OBVIOUS
<1> QED
  BY <1>1, <1>6, <1>7

\* A block at the front of a gap is clear of all that was taken, and what is left of
\* the gaps is the time left free.
LEMMA GapTaken ==
  ASSUME NEW from \in Nat, NEW to \in Nat, NEW B, NEW G, FreeTime(G, from, to, B),
         NEW g \in G, NEW m \in Nat \ {0}, g[1] + m <= g[2]
  PROVE  /\ g[1] \in Nat /\ from <= g[1] /\ g[1] + m <= to
         /\ \A c \in B : c[1] \in Nat /\ c[2] \in Nat => Beside(g[1], g[1] + m, c)
         /\ (\A c \in B : c[1] \in Nat /\ c[2] \in Nat) =>
              FreeTime(Shrunk(G, g, m), from, to, B \cup {<<g[1], g[1] + m>>})
         /\ Within(Shrunk(G, g, m), G)
<1> DEFINE s == g[1]
           e == g[1] + m
           rest == <<e, g[2]>>
           H == Shrunk(G, g, m)
<1>1. /\ G \in SUBSET (Nat \X Nat)
      /\ \A h \in G : h[1] \in Nat /\ h[2] \in Nat /\ from <= h[1] /\ h[1] <= h[2] /\ h[2] <= to
      /\ \A h \in G, c \in B : Beside(h[1], h[2], c)
      /\ \A h, k \in G : h # k => Beside(h[1], h[2], k)
      /\ \A x, y \in Nat : from <= x /\ x < y /\ y <= to /\ (\A c \in B : Beside(x, y, c))
           => \E h \in G : h[1] <= x /\ y <= h[2]
  BY DEF FreeTime
<1>2. /\ s \in Nat /\ e \in Nat /\ g[2] \in Nat /\ s < e /\ e <= g[2] /\ from <= s /\ g[2] <= to
      /\ rest \in Nat \X Nat /\ rest[1] = e /\ rest[2] = g[2]
  BY <1>1
<1>3. \A h : h \in H <=> (h \in G /\ h # g) \/ h = rest
  BY DEF Shrunk
<1> HIDE DEF H, rest
<1>4. \A h \in H : h \in Nat \X Nat /\ h[1] \in Nat /\ h[2] \in Nat
                   /\ from <= h[1] /\ h[1] <= h[2] /\ h[2] <= to
  BY <1>1, <1>2, <1>3
<1>5. \A c \in B : c[1] \in Nat /\ c[2] \in Nat => Beside(s, e, c) /\ Beside(e, g[2], c)
  BY <1>1, <1>2 DEF Beside
<1>6. Within(H, G)
  BY <1>1, <1>2, <1>3 DEF Within
<1>7. ASSUME \A c \in B : c[1] \in Nat /\ c[2] \in Nat
      PROVE  FreeTime(H, from, to, B \cup {<<s, e>>})
  <2>1. \A h \in H, c \in B \cup {<<s, e>>} : Beside(h[1], h[2], c)
    <3> TAKE h \in H, c \in B \cup {<<s, e>>}
    <3>1. CASE c \in B /\ h \in G
      BY <1>1, <3>1
    <3>2. CASE c \in B /\ h = rest
      BY <1>2, <1>5, <1>7, <3>2
    <3>3. CASE c = <<s, e>> /\ h \in G /\ h # g
      <4>1. Beside(h[1], h[2], g)
        BY <1>1, <3>3
      <4>2. h[1] \in Nat /\ h[2] \in Nat /\ c[1] = s /\ c[2] = e
        BY <1>4, <3>3
      <4> QED
        BY <1>2, <4>1, <4>2 DEF Beside
    <3>4. CASE c = <<s, e>> /\ h = rest
      BY <1>2, <3>4 DEF Beside
    <3> QED
      BY <1>3, <3>1, <3>2, <3>3, <3>4
  <2>2. \A h, k \in H : h # k => Beside(h[1], h[2], k)
    <3> SUFFICES ASSUME NEW h \in H, NEW k \in H, h # k
                 PROVE  Beside(h[1], h[2], k)
      OBVIOUS
    <3>0. h[1] \in Nat /\ h[2] \in Nat /\ k[1] \in Nat /\ k[2] \in Nat
      BY <1>4
    <3>1. CASE h \in G /\ k \in G
      BY <1>1, <3>1
    <3>2. CASE h = rest /\ k \in G /\ k # g
      <4>1. Beside(g[1], g[2], k)
        BY <1>1, <3>2
      <4> QED
        BY <1>2, <3>0, <3>2, <4>1 DEF Beside
    <3>3. CASE k = rest /\ h \in G /\ h # g
      <4>1. Beside(h[1], h[2], g)
        BY <1>1, <3>3
      <4> QED
        BY <1>2, <3>0, <3>3, <4>1 DEF Beside
    <3> QED
      BY <1>3, <3>1, <3>2, <3>3
  <2>3. ASSUME NEW x \in Nat, NEW y \in Nat, from <= x, x < y, y <= to,
               \A c \in B \cup {<<s, e>>} : Beside(x, y, c)
        PROVE  \E h \in H : h[1] <= x /\ y <= h[2]
    <3>1. PICK h \in G : h[1] <= x /\ y <= h[2]
      BY <1>1, <2>3
    <3>2. CASE h # g
      BY <1>3, <3>1, <3>2
    <3>3. CASE h = g
      <4>1. <<s, e>>[1] = s /\ <<s, e>>[2] = e
        OBVIOUS
      <4>2. y <= s \/ e <= x
        BY <2>3, <4>1 DEF Beside
      <4>3. e <= x
        BY <1>2, <2>3, <3>1, <3>3, <4>2
      <4> QED
        BY <1>2, <1>3, <3>1, <3>3, <4>3
    <3> QED
      BY <3>2, <3>3
  <2>4. H \in SUBSET (Nat \X Nat)
    BY <1>4
  <2>5. \A h \in H : from <= h[1] /\ h[1] <= h[2] /\ h[2] <= to
    BY <1>4
  <2> QED
    BY ONLY <2>1, <2>2, <2>3, <2>4, <2>5 DEF FreeTime
<1>9. e <= to
  BY <1>2
<1> QED
  BY <1>2, <1>5, <1>6, <1>7, <1>9 DEF H

-----------------------------------------------------------------------------
(* Plans in the making                                                      *)

Blocks == [task : Tasks, start : Nat, end : Nat,
           kind : {"timed", "floating", "late", "standin", "ranked"}]

Plans == [gaps : SUBSET (Nat \X Nat), late : Nat, blocks : SUBSET Blocks, overflow : Seq(Tasks)]

Time(b) == <<b.start, b.end>>
Moved(plan) == {b \in plan.blocks : b.kind # "timed"}
Given(plan, busy) == busy \cup {Time(b) : b \in Moved(plan)}
Own(plan) == {b.task : b \in {b \in plan.blocks : b.kind # "standin"}}
Substitutes(plan) == {b.task : b \in {b \in plan.blocks : b.kind = "standin"}}

\* Every minute is given once, and what nobody has is in the gaps.
GivenOnce(plan, from, to, busy) ==
  /\ FreeTime(plan.gaps, from, to, Given(plan, busy))
  /\ to <= plan.late /\ \A c \in Given(plan, busy) : c[2] <= plan.late
  /\ \A b \in Moved(plan) :
       /\ b.start < b.end
       /\ \A c \in Moved(plan) \ {b} : b.end <= c.start \/ c.end <= b.start
       /\ \A c \in busy : b.end <= c[1] \/ c[2] <= b.start
       /\ IF b.kind = "late" THEN b.start >= to /\ \A c \in busy : c[2] <= b.start
          ELSE from <= b.start /\ b.end <= to

EachOnce(plan) == \A b, c \in plan.blocks : b.task = c.task => b = c

\* No gap holds t.
Full(plan, t) == Fits(Minutes(t), plan.gaps) = {}

\* What lost its place: the tasks of out fit nowhere, nor do the ones of tried that
\* have no place, and no lower-ranked block is as long as a task of out.
Passed(plan, day, out, tried) ==
  /\ \A t \in out : Full(plan, t)
  /\ \A t \in tried : Full(plan, t) \/ \E b \in plan.blocks : b.task = t
  /\ \A t \in out, b \in plan.blocks :
       b.kind = "ranked" /\ Precedes(RankKey(t, day), RankKey(b.task, day))
         => Minutes(b.task) < Minutes(t)

\* A block more, in time nobody has.
Added(plan, next, b) ==
  /\ plan \in Plans /\ next \in Plans /\ b \in Blocks /\ b.kind # "timed"
  /\ next.blocks = plan.blocks \cup {b} /\ next.overflow = plan.overflow
  /\ b.end = b.start + Minutes(b.task)
  /\ Within(next.gaps, plan.gaps)
  /\ b.kind # "late" => \E g \in plan.gaps : g[1] + Minutes(b.task) <= g[2]

LEMMA BlockFields ==
  ASSUME NEW b \in Blocks
  PROVE  b.task \in Tasks /\ b.start \in Nat /\ b.end \in Nat
         /\ Time(b) \in Nat \X Nat /\ Time(b)[1] = b.start /\ Time(b)[2] = b.end
BY DEF Blocks, Time

LEMMA PlanFields ==
  ASSUME NEW plan \in Plans
  PROVE  /\ plan.gaps \in SUBSET (Nat \X Nat) /\ plan.late \in Nat
         /\ plan.blocks \in SUBSET Blocks /\ plan.overflow \in Seq(Tasks)
         /\ \A b \in Moved(plan) : b \in plan.blocks /\ b \in Blocks
BY DEF Plans, Moved

LEMMA BlockTyped ==
  ASSUME EntriesTypeOK, NEW t \in Tasks, NEW start \in Nat,
         NEW kind \in {"timed", "floating", "late", "standin", "ranked"}
  PROVE  /\ Block(t, start, kind) \in Blocks
         /\ Block(t, start, kind).task = t /\ Block(t, start, kind).start = start
         /\ Block(t, start, kind).end = start + Minutes(t)
         /\ Block(t, start, kind).kind = kind
<1>1. Minutes(t) \in Nat
  BY MinutesTyped
<1> DEFINE m == Minutes(t)
<1>2. Block(t, start, kind) = [task |-> t, start |-> start, end |-> start + m, kind |-> kind]
  BY DEF Block
<1> HIDE DEF m
<1>3. start + m \in Nat
  BY <1>1 DEF m
<1> QED
  BY <1>2, <1>3 DEF Blocks, m

\* Time is given once still.
LEMMA AddedOnce ==
  ASSUME NEW from \in Nat, NEW to \in Nat, NEW busy \in SUBSET Intervals,
         NEW plan, NEW next, NEW b, Added(plan, next, b), b.start < b.end,
         GivenOnce(plan, from, to, busy),
         \A c \in Given(plan, busy) : Beside(b.start, b.end, c),
         IF b.kind = "late" THEN b.start >= to /\ \A c \in busy : c[2] <= b.start
         ELSE from <= b.start /\ b.end <= to,
         FreeTime(next.gaps, from, to, Given(plan, busy) \cup {Time(b)}),
         plan.late <= next.late, b.end <= next.late
  PROVE  GivenOnce(next, from, to, busy)
<1>1. plan \in Plans /\ next \in Plans /\ b \in Blocks
  BY DEF Added
<1>2. Moved(next) = Moved(plan) \cup {b}
  BY DEF Added, Moved
<1>3. Given(next, busy) = Given(plan, busy) \cup {Time(b)}
  BY <1>2 DEF Given
<1>4. plan.late \in Nat /\ next.late \in Nat /\ \A c \in Moved(plan) : c \in Blocks
  BY <1>1, PlanFields
<1>5. b.start \in Nat /\ b.end \in Nat /\ Time(b)[2] = b.end
  BY <1>1, BlockFields
<1>6. \A c \in Moved(plan) :
        c.start \in Nat /\ c.end \in Nat /\ Time(c)[1] = c.start /\ Time(c)[2] = c.end
  BY <1>4, BlockFields
<1>7. \A c \in Moved(plan) : Time(c) \in Given(plan, busy)
  BY DEF Given
<1>8. \A c \in Moved(plan) : b.end <= c.start \/ c.end <= b.start
  BY <1>6, <1>7 DEF Beside
<1>9. \A c \in busy : c \in Given(plan, busy)
  BY DEF Given
<1>10. \A c \in busy : b.end <= c[1] \/ c[2] <= b.start
  BY <1>9 DEF Beside
<1>11. \A c \in Given(plan, busy) : c[2] \in Nat
  <2> TAKE c \in Given(plan, busy)
  <2>1. CASE c \in busy
    BY <2>1, IntervalParts
  <2>2. CASE \E d \in Moved(plan) : c = Time(d)
    BY <1>6, <2>2
  <2> QED
    BY <2>1, <2>2 DEF Given
<1>12. to <= next.late /\ \A c \in Given(next, busy) : c[2] <= next.late
  <2>1. to <= plan.late /\ \A c \in Given(plan, busy) : c[2] <= plan.late
    BY DEF GivenOnce
  <2>2. to <= next.late
    BY <1>4, <2>1
  <2>3. \A c \in Given(plan, busy) : c[2] <= next.late
    BY <1>4, <1>11, <2>1
  <2> QED
    BY <1>3, <1>5, <2>2, <2>3
<1>13. FreeTime(next.gaps, from, to, Given(next, busy))
  BY <1>3
<1> DEFINE Fine(d) ==
             /\ d.start < d.end
             /\ \A c \in Moved(next) \ {d} : d.end <= c.start \/ c.end <= d.start
             /\ \A c \in busy : d.end <= c[1] \/ c[2] <= d.start
             /\ IF d.kind = "late" THEN d.start >= to /\ \A c \in busy : c[2] <= d.start
                ELSE from <= d.start /\ d.end <= to
<1>14. Fine(b)
  BY <1>2, <1>8, <1>10
<1>15. \A d \in Moved(plan) : d # b => Fine(d)
  BY <1>2, <1>8 DEF GivenOnce
<1> QED
  BY <1>2, <1>12, <1>13, <1>14, <1>15 DEF GivenOnce

\* A task that fits no gap fits no part of one.
LEMMA StaysFull ==
  ASSUME EntriesTypeOK, NEW t \in Tasks, NEW plan \in Plans, NEW next \in Plans,
         Within(next.gaps, plan.gaps), Full(plan, t)
  PROVE  Full(next, t)
<1>1. Minutes(t) \in Nat
  BY MinutesTyped
<1>2. plan.gaps \in SUBSET (Nat \X Nat) /\ next.gaps \in SUBSET (Nat \X Nat)
  BY PlanFields
<1>3. \A g \in plan.gaps : g[1] \in Nat /\ g[2] \in Nat /\ ~(g[2] - g[1] >= Minutes(t))
  BY <1>2 DEF Full, Fits
<1>4. ASSUME NEW h \in next.gaps
      PROVE  ~(h[2] - h[1] >= Minutes(t))
  <2>1. PICK g \in plan.gaps : g[1] <= h[1] /\ h[2] <= g[2]
    BY DEF Within
  <2>2. h[1] \in Nat /\ h[2] \in Nat
    BY <1>2
  <2> QED
    BY <1>1, <1>3, <2>1, <2>2
<1> QED
  BY <1>4 DEF Full, Fits

\* What was passed stays so when a block is added, and a block of a gap is shorter than
\* what fits no gap.
LEMMA AddedPasses ==
  ASSUME EntriesTypeOK, NEW day, NEW plan, NEW next, NEW b, Added(plan, next, b),
         NEW out \in SUBSET Tasks, NEW tried \in SUBSET Tasks, Passed(plan, day, out, tried)
  PROVE  Passed(next, day, out, tried \cup {b.task})
<1>1. plan \in Plans /\ next \in Plans /\ b \in Blocks /\ b \in next.blocks
      /\ next.blocks = plan.blocks \cup {b} /\ Within(next.gaps, plan.gaps)
  BY DEF Added
<1>2. \A t \in out : Full(next, t)
  BY <1>1, StaysFull DEF Passed
<1>3. ASSUME NEW t \in tried \cup {b.task}
      PROVE  Full(next, t) \/ \E c \in next.blocks : c.task = t
  <2>1. CASE t = b.task
    BY <1>1, <2>1
  <2>2. CASE t \in tried
    <3>1. Full(plan, t) \/ \E c \in plan.blocks : c.task = t
      BY <2>2 DEF Passed
    <3>2. t \in Tasks
      BY <2>2
    <3> QED
      BY <1>1, <3>1, <3>2, StaysFull
  <2> QED
    BY <2>1, <2>2
<1>4. ASSUME NEW t \in out, NEW c \in next.blocks, c.kind = "ranked",
             Precedes(RankKey(t, day), RankKey(c.task, day))
      PROVE  Minutes(c.task) < Minutes(t)
  <2>1. CASE c \in plan.blocks
    BY <1>4, <2>1 DEF Passed
  <2>2. CASE c = b
    <3>1. PICK g \in plan.gaps : g[1] + Minutes(b.task) <= g[2]
      BY <1>4, <2>2 DEF Added
    <3>2. g[1] \in Nat /\ g[2] \in Nat
      BY <1>1, PlanFields
    <3>3. Minutes(b.task) \in Nat /\ Minutes(t) \in Nat
      BY <1>1, BlockFields, MinutesTyped
    <3>4. Full(plan, t)
      BY DEF Passed
    <3>5. ~(g[2] - g[1] >= Minutes(t))
      BY <3>4 DEF Full, Fits
    <3> QED
      BY ONLY <2>2, <3>1, <3>2, <3>3, <3>5
  <2> QED
    BY <1>1, <2>1, <2>2
<1> QED
  BY <1>2, <1>3, <1>4 DEF Passed

\* A task not in the plan is in it once afterwards.
LEMMA AddedIsOne ==
  ASSUME NEW plan, NEW next, NEW b, Added(plan, next, b), EachOnce(plan),
         \A c \in plan.blocks : c.task # b.task
  PROVE  /\ EachOnce(next)
         /\ Own(next) = IF b.kind = "standin" THEN Own(plan) ELSE Own(plan) \cup {b.task}
         /\ Substitutes(next) = IF b.kind = "standin" THEN Substitutes(plan) \cup {b.task}
                                ELSE Substitutes(plan)
BY DEF Added, EachOnce, Own, Substitutes

\* What placing a task in a gap does.
LEMMA PlaceInAdds ==
  ASSUME EntriesTypeOK, NEW plan \in Plans, NEW t \in Tasks,
         NEW kind \in {"floating", "standin", "ranked"}, ~Full(plan, t)
  PROVE  LET b == Block(t, FirstFit(Minutes(t), plan.gaps)[1], kind)
             next == PlaceIn(plan, t, kind)
         IN  /\ Added(plan, next, b) /\ b.task = t /\ b.kind = kind /\ next.late = plan.late
             /\ b.start < b.end
             /\ \E g \in plan.gaps : /\ g[1] = b.start /\ g[1] + Minutes(t) <= g[2]
                                     /\ next.gaps = Shrunk(plan.gaps, g, Minutes(t))
<1> DEFINE m == Minutes(t)
           g == FirstFit(m, plan.gaps)
           b == Block(t, g[1], kind)
           next == PlaceIn(plan, t, kind)
<1>1. m \in Nat /\ m > 0
  BY MinutesTyped
<1>2. plan.gaps \in SUBSET (Nat \X Nat) /\ plan.blocks \in SUBSET Blocks
      /\ plan.late \in Nat /\ plan.overflow \in Seq(Tasks)
  BY PlanFields
<1>3. Fits(m, plan.gaps) # {}
  BY DEF Full
<1>4. g \in plan.gaps /\ g[1] \in Nat /\ g[2] \in Nat /\ g[1] + m <= g[2]
  <2> HIDE DEF m
  <2> QED
    BY <1>1, <1>2, <1>3, FirstFits
<1> HIDE DEF g
<1>5. b \in Blocks /\ b.task = t /\ b.start = g[1] /\ b.end = g[1] + m /\ b.kind = kind
  BY <1>4, BlockTyped
<1>6. next = [plan EXCEPT !.blocks = @ \cup {b}, !.gaps = Shrunk(@, g, m)]
  BY DEF PlaceIn, g
<1> HIDE DEF b, m, next
<1> DEFINE H == Shrunk(plan.gaps, g, m)
<1>7. H \in SUBSET (Nat \X Nat) /\ Within(H, plan.gaps)
  BY <1>1, <1>2, <1>4 DEF Shrunk, Within
<1> HIDE DEF H
<1>8. /\ next \in Plans /\ next.blocks = plan.blocks \cup {b} /\ next.overflow = plan.overflow
      /\ next.late = plan.late /\ next.gaps = H
  BY <1>2, <1>5, <1>6, <1>7 DEF Plans, H
<1>9. Minutes(b.task) = m
  BY <1>5 DEF m
<1>10. Added(plan, next, b)
  BY <1>4, <1>5, <1>7, <1>8, <1>9 DEF Added
<1>11. b.start < b.end
  BY <1>1, <1>4, <1>5
<1> QED
  BY <1>4, <1>5, <1>8, <1>10, <1>11 DEF H, next, b, g, m

\* A plan in which time is given once, to each task once, and what lost its place is
\* what had to.
Held(plan, day, from, to, busy, out, tried) ==
  /\ plan \in Plans /\ GivenOnce(plan, from, to, busy) /\ EachOnce(plan)
  /\ Passed(plan, day, out, tried)

\* The next plan has t in it too, in its own place or in its parent's.
Gains(plan, next, t, kind) ==
  /\ next.overflow = plan.overflow
  /\ \E b \in next.blocks : b.task = t /\ b.kind = kind /\ next.blocks = plan.blocks \cup {b}
  /\ Own(next) = IF kind = "standin" THEN Own(plan) ELSE Own(plan) \cup {t}
  /\ Substitutes(next) = IF kind = "standin" THEN Substitutes(plan) \cup {t} ELSE Substitutes(plan)

LEMMA Busied ==
  ASSUME NEW busy \in SUBSET Intervals, NEW plan \in Plans
  PROVE  \A c \in Given(plan, busy) : c[1] \in Nat /\ c[2] \in Nat
<1> TAKE c \in Given(plan, busy)
<1>1. CASE c \in busy
  BY <1>1, IntervalParts
<1>2. CASE \E d \in Moved(plan) : c = Time(d)
  <2>1. PICK d \in Moved(plan) : c = Time(d)
    BY <1>2
  <2>2. d \in Blocks
    BY PlanFields
  <2> QED
    BY <2>1, <2>2, BlockFields
<1> QED
  BY <1>1, <1>2 DEF Given

LEMMA PlaceInHolds ==
  ASSUME EntriesTypeOK, NEW day, NEW from \in Nat, NEW to \in Nat, NEW busy \in SUBSET Intervals,
         NEW out \in SUBSET Tasks, NEW tried \in SUBSET Tasks,
         NEW plan, Held(plan, day, from, to, busy, out, tried),
         NEW t \in Tasks, t \notin Own(plan), t \notin Substitutes(plan),
         NEW kind \in {"floating", "standin", "ranked"}, ~Full(plan, t)
  PROVE  /\ Held(PlaceIn(plan, t, kind), day, from, to, busy, out, tried \cup {t})
         /\ Gains(plan, PlaceIn(plan, t, kind), t, kind)
<1> DEFINE b == Block(t, FirstFit(Minutes(t), plan.gaps)[1], kind)
           next == PlaceIn(plan, t, kind)
           m == Minutes(t)
<1>0. plan \in Plans /\ GivenOnce(plan, from, to, busy) /\ EachOnce(plan)
      /\ Passed(plan, day, out, tried)
  BY DEF Held
<1>1. /\ Added(plan, next, b) /\ b.task = t /\ b.kind = kind /\ next.late = plan.late
      /\ b.start < b.end
      /\ \E g \in plan.gaps : /\ g[1] = b.start /\ g[1] + Minutes(t) <= g[2]
                              /\ next.gaps = Shrunk(plan.gaps, g, Minutes(t))
  BY <1>0, PlaceInAdds
<1> HIDE DEF b, next
<1>2. PICK g \in plan.gaps : g[1] = b.start /\ g[1] + m <= g[2] /\ next.gaps = Shrunk(plan.gaps, g, m)
  BY <1>1
<1>3. m \in Nat \ {0}
  BY MinutesTyped
<1>4. b \in Blocks /\ next \in Plans /\ b.end = b.start + m
  BY <1>1 DEF Added
<1>5. b.start \in Nat /\ b.end \in Nat /\ Time(b) = <<g[1], g[1] + m>>
  BY <1>2, <1>4, BlockFields DEF Time
<1>6. FreeTime(plan.gaps, from, to, Given(plan, busy)) /\ to <= plan.late /\ plan.late \in Nat
  BY <1>0, PlanFields DEF GivenOnce
<1>7. \A c \in Given(plan, busy) : c[1] \in Nat /\ c[2] \in Nat
  BY <1>0, Busied
<1> DEFINE B == Given(plan, busy)
           G == plan.gaps
<1>8. /\ g[1] \in Nat /\ from <= g[1] /\ g[1] + m <= to
      /\ \A c \in B : c[1] \in Nat /\ c[2] \in Nat => Beside(g[1], g[1] + m, c)
      /\ (\A c \in B : c[1] \in Nat /\ c[2] \in Nat) =>
           FreeTime(Shrunk(G, g, m), from, to, B \cup {<<g[1], g[1] + m>>})
  <2>1. FreeTime(G, from, to, B) /\ g \in G /\ g[1] + m <= g[2]
    BY <1>2, <1>6
  <2> HIDE DEF B, G, m
  <2> QED
    BY <1>3, <2>1, GapTaken
<1> HIDE DEF m
<1>9. \A c \in Given(plan, busy) : Beside(b.start, b.end, c)
  BY <1>2, <1>4, <1>7, <1>8
<1>10. FreeTime(next.gaps, from, to, Given(plan, busy) \cup {Time(b)})
  BY <1>2, <1>5, <1>7, <1>8
<1>11. from <= b.start /\ b.end <= to /\ kind # "late"
  BY <1>2, <1>4, <1>8
<1>12. plan.late <= next.late /\ b.end <= next.late
  BY <1>1, <1>5, <1>6, <1>11
<1>13. GivenOnce(next, from, to, busy)
  BY <1>0, <1>1, <1>9, <1>10, <1>11, <1>12, AddedOnce
<1>14. Passed(next, day, out, tried \cup {t})
  BY <1>0, <1>1, AddedPasses
<1>15. \A c \in plan.blocks : c.task # b.task
  BY <1>1 DEF Own, Substitutes
<1>16. /\ EachOnce(next)
       /\ Own(next) = IF kind = "standin" THEN Own(plan) ELSE Own(plan) \cup {t}
       /\ Substitutes(next) = IF kind = "standin" THEN Substitutes(plan) \cup {t} ELSE Substitutes(plan)
  BY <1>0, <1>1, <1>15, AddedIsOne
<1>17. b \in next.blocks /\ next.blocks = plan.blocks \cup {b} /\ next.overflow = plan.overflow
  BY <1>1 DEF Added
<1> QED
  BY <1>1, <1>4, <1>13, <1>14, <1>16, <1>17 DEF Held, Gains, next

\* A pin that fits no gap goes after everything.
LEMMA LateHolds ==
  ASSUME EntriesTypeOK, NEW day, NEW from \in Nat, NEW to \in Nat, NEW busy \in SUBSET Intervals,
         NEW out \in SUBSET Tasks, NEW tried \in SUBSET Tasks,
         NEW plan, Held(plan, day, from, to, busy, out, tried),
         NEW t \in Tasks, t \notin Own(plan), t \notin Substitutes(plan), Full(plan, t)
  PROVE  /\ Held(Float(plan, t), day, from, to, busy, out, tried \cup {t})
         /\ Gains(plan, Float(plan, t), t, "late")
<1> DEFINE m == Minutes(t)
           b == Block(t, plan.late, "late")
           next == Float(plan, t)
<1>0. plan \in Plans /\ GivenOnce(plan, from, to, busy) /\ EachOnce(plan)
      /\ Passed(plan, day, out, tried)
  BY DEF Held
<1>1. m \in Nat /\ m > 0
  BY MinutesTyped
<1>2. plan.gaps \in SUBSET (Nat \X Nat) /\ plan.blocks \in SUBSET Blocks
      /\ plan.late \in Nat /\ plan.overflow \in Seq(Tasks)
  BY <1>0, PlanFields
<1>3. b \in Blocks /\ b.task = t /\ b.start = plan.late /\ b.end = plan.late + m /\ b.kind = "late"
  BY <1>2, BlockTyped
<1>4. next = [plan EXCEPT !.blocks = @ \cup {b}, !.late = @ + m]
  BY DEF Float, Full
<1> HIDE DEF b, next, m
<1> DEFINE later == plan.late + m
<1>5. later \in Nat /\ plan.late < later /\ plan.late <= later
  BY <1>1, <1>2
<1> HIDE DEF later
<1>6. /\ next \in Plans /\ next.blocks = plan.blocks \cup {b} /\ next.overflow = plan.overflow
      /\ next.late = later /\ next.gaps = plan.gaps
  BY <1>0, <1>2, <1>3, <1>4, <1>5 DEF Plans, later
<1>7. Within(next.gaps, plan.gaps)
  <2>1. \A g \in plan.gaps : g[1] <= g[1] /\ g[2] <= g[2]
    BY <1>2
  <2> QED
    BY <1>6, <2>1 DEF Within
<1>8. Added(plan, next, b)
  BY <1>0, <1>3, <1>6, <1>7 DEF Added, m
<1>9. /\ FreeTime(plan.gaps, from, to, Given(plan, busy)) /\ to <= plan.late
      /\ \A c \in Given(plan, busy) : c[2] <= plan.late
  BY <1>0 DEF GivenOnce
<1>10. \A c \in Given(plan, busy) : Beside(b.start, b.end, c)
  BY <1>3, <1>9 DEF Beside
<1>11. \A c \in busy : c[2] <= b.start
  BY <1>3, <1>9 DEF Given
<1>12. FreeTime(next.gaps, from, to, Given(plan, busy) \cup {Time(b)})
  <2>1. b.start >= to /\ Time(b)[1] = b.start /\ b.start \in Nat
    BY <1>2, <1>3, <1>9, BlockFields
  <2>2. \A g \in plan.gaps : g[1] \in Nat /\ g[2] \in Nat /\ g[2] <= to
    BY <1>2, <1>9 DEF FreeTime
  <2>3. \A g \in plan.gaps : Beside(g[1], g[2], Time(b))
    BY <2>1, <2>2 DEF Beside
  <2> DEFINE B == Given(plan, busy)
  <2> HIDE DEF B
  <2>4. FreeTime(plan.gaps, from, to, B)
    BY <1>9 DEF B
  <2>5. FreeTime(plan.gaps, from, to, B \cup {Time(b)})
    BY <2>3, <2>4 DEF FreeTime
  <2> QED
    BY <1>6, <2>5 DEF B
<1>13. b.start >= to /\ b.start < b.end /\ plan.late <= next.late /\ b.end <= next.late
  BY <1>2, <1>3, <1>5, <1>6, <1>9 DEF later
<1>14. GivenOnce(next, from, to, busy)
  BY <1>0, <1>3, <1>8, <1>10, <1>11, <1>12, <1>13, AddedOnce
<1>15. Passed(next, day, out, tried \cup {t})
  BY <1>0, <1>3, <1>8, AddedPasses
<1>16. \A c \in plan.blocks : c.task # b.task
  BY <1>3 DEF Own, Substitutes
<1>17. EachOnce(next) /\ Own(next) = Own(plan) \cup {t} /\ Substitutes(next) = Substitutes(plan)
  BY <1>0, <1>3, <1>8, <1>16, AddedIsOne
<1>18. b \in next.blocks
  BY <1>6
<1> QED
  BY <1>3, <1>6, <1>14, <1>15, <1>17, <1>18 DEF Held, Gains, next

-----------------------------------------------------------------------------
(* Lists, and a plan that takes one after the other                         *)

\* A list of all of S, each once.
Lists(seq, S) ==
  /\ Len(seq) \in Nat /\ seq \in [1..Len(seq) -> S]
  /\ \A k, l \in 1..Len(seq) : seq[k] = seq[l] => k = l
  /\ S = {seq[k] : k \in 1..Len(seq)}

LEMMA SequenceLists ==
  ASSUME NEW S, IsFiniteSet(S), NEW seq \in SetToSeqs(S)
  PROVE  Lists(seq, S) /\ DOMAIN seq = 1..Len(seq)
<1> DEFINE N == Cardinality(S)
<1>1. /\ N \in Nat /\ seq \in [1..N -> S] /\ IsInjective(seq)
      /\ \A x \in S : \E k \in 1..N : seq[k] = x
  BY SequenceOfAll
<1> HIDE DEF N
<1>2. seq \in Seq(S) /\ Len(seq) = N
  BY <1>1
<1>3. \A k, l \in 1..N : seq[k] = seq[l] => k = l
  BY <1>1 DEF IsInjective
<1>4. S = {seq[k] : k \in 1..N}
  BY <1>1
<1> QED
  BY <1>1, <1>2, <1>3, <1>4 DEF Lists

\* Tasks by number.
ByNumber(S) ==
  CHOOSE seq \in SetToSeqs(S) : \A k, l \in DOMAIN seq : k < l => seq[k] < seq[l]

LEMMA NumbersListed ==
  ASSUME NEW S \in SUBSET Nat, IsFiniteSet(S)
  PROVE  Lists(ByNumber(S), S)
<1> DEFINE R == {p \in S \X S : p[1] < p[2]}
<1>1. \A x, y \in S : <<x, y>> \in R <=> x < y
  OBVIOUS
<1>2. Ordered(S, R)
  <2> HIDE DEF R
  <2> QED
    BY <1>1 DEF Ordered
<1> HIDE DEF R
<1>3. PICK s \in SetToSeqs(S) : SortedBy(s, R)
  BY <1>2, OrderExists
<1>4. \A k, l \in DOMAIN s : k < l => s[k] < s[l]
  <2>1. Lists(s, S) /\ DOMAIN s = 1..Len(s)
    BY SequenceLists
  <2> QED
    BY <1>1, <1>3, <2>1 DEF SortedBy, Lists
<1>5. ByNumber(S) \in SetToSeqs(S)
  BY <1>4 DEF ByNumber
<1> QED
  BY <1>5, SequenceLists

LEMMA StandInTyped ==
  ASSUME EntriesTypeOK, NEW plan \in Plans, NEW t \in Tasks
  PROVE  StandIn(plan, t) \in Plans
<1>1. CASE ~Full(plan, t)
  <2>1. PlaceIn(plan, t, "standin") \in Plans
    BY <1>1, PlaceInAdds DEF Added
  <2> QED
    BY <1>1, <2>1 DEF StandIn, Full
<1>2. CASE Full(plan, t)
  BY <1>2 DEF StandIn, Full
<1> QED
  BY <1>1, <1>2

\* The plans that the tasks of a list leave, one after the other, each trying its
\* parent's place.
StandInPlans(so, plan, seq) ==
  /\ so[0] = plan /\ \A n \in 1..Len(seq) : so[n] = StandIn(so[n - 1], seq[n])
  /\ InTurn(StandIn, plan, seq) = so[Len(seq)]

LEMMA StandInsTurn ==
  ASSUME EntriesTypeOK, NEW plan \in Plans, NEW S \in SUBSET Tasks, NEW seq, Lists(seq, S)
  PROVE  \E so : StandInPlans(so, plan, seq)
<1> DEFINE N == Len(seq)
           step == [p \in Plans \X (1..N) |-> StandIn(p[1], seq[p[2]])]
           body(f) == [n \in 0..N |-> IF n = 0 THEN plan ELSE StandIn(f[n - 1], seq[n])]
           so == CHOOSE f : f = body(f)
<1>1. N \in Nat /\ \A n \in 1..N : seq[n] \in Tasks
  BY DEF Lists
<1>2. \A p \in Plans, n \in 1..N : step[<<p, n>>] = StandIn(p, seq[n])
  OBVIOUS
<1>3. step \in [Plans \X (1..N) -> Plans]
  <2> SUFFICES ASSUME NEW p \in Plans \X (1..N)
               PROVE  StandIn(p[1], seq[p[2]]) \in Plans
    OBVIOUS
  <2> HIDE DEF N
  <2>1. p[1] \in Plans /\ p[2] \in 1..N
    OBVIOUS
  <2> QED
    BY <1>1, <2>1, StandInTyped
<1> HIDE DEF step
<1>4. PICK f \in [0..N -> Plans] : IsRun(f, N, plan, step)
  <2> HIDE DEF N
  <2> QED
    BY ONLY <1>1, <1>3, plan \in Plans, StepsTaken
<1>5. f = body(f)
  <2>1. \A n \in 1..N : f[n] = StandIn(f[n - 1], seq[n])
    <3> TAKE n \in 1..N
    <3>1. n - 1 \in 0..N
      BY <1>1
    <3> HIDE DEF N
    <3> QED
      BY <1>2, <1>4, <3>1 DEF IsRun
  <2>2. \A n \in 0..N : n # 0 => n \in 1..N
    BY <1>1
  <2> HIDE DEF N
  <2> QED
    BY <1>4, <2>1, <2>2 DEF IsRun
<1>6. so = body(so)
  <2> HIDE DEF body
  <2> QED
    BY <1>5
<1>7. InTurn(StandIn, plan, seq) = so[N]
  BY DEF InTurn
<1> HIDE DEF so
<1>8. 0 \in 0..N /\ \A n \in 1..N : n \in 0..N /\ n # 0
  BY <1>1
<1>9. so[0] = plan /\ \A n \in 1..N : so[n] = StandIn(so[n - 1], seq[n])
  BY <1>6, <1>8
<1> QED
  BY <1>7, <1>9 DEF StandInPlans

\* Nothing but stand-ins of S came in.
StoodIn(plan, next, S) ==
  /\ next.overflow = plan.overflow /\ Own(next) = Own(plan)
  /\ Substitutes(next) \subseteq Substitutes(plan) \cup S
  /\ plan.blocks \subseteq next.blocks
  /\ \A b \in next.blocks : b \in plan.blocks \/ b.kind = "standin"

LEMMA StandInHolds ==
  ASSUME EntriesTypeOK, NEW day, NEW from \in Nat, NEW to \in Nat, NEW busy \in SUBSET Intervals,
         NEW out \in SUBSET Tasks, NEW tried \in SUBSET Tasks,
         NEW plan, Held(plan, day, from, to, busy, out, tried),
         NEW t \in Tasks, t \notin Own(plan), t \notin Substitutes(plan)
  PROVE  /\ Held(StandIn(plan, t), day, from, to, busy, out, tried \cup {t})
         /\ StoodIn(plan, StandIn(plan, t), {t})
<1>1. CASE ~Full(plan, t)
  <2> DEFINE next == PlaceIn(plan, t, "standin")
  <2>1. Held(next, day, from, to, busy, out, tried \cup {t}) /\ Gains(plan, next, t, "standin")
    BY <1>1, PlaceInHolds
  <2>2. StandIn(plan, t) = next
    BY <1>1 DEF StandIn, Full
  <2> HIDE DEF next
  <2>3. StoodIn(plan, next, {t})
    BY <2>1 DEF Gains, StoodIn
  <2> QED
    BY <2>1, <2>2, <2>3
<1>2. CASE Full(plan, t)
  <2>1. StandIn(plan, t) = plan
    BY <1>2 DEF StandIn, Full
  <2>2. Passed(plan, day, out, tried \cup {t})
    BY <1>2 DEF Held, Passed
  <2>3. StoodIn(plan, plan, {t})
    BY DEF StoodIn
  <2> QED
    BY <2>1, <2>2, <2>3 DEF Held
<1> QED
  BY <1>1, <1>2

\* All the stand-ins of a task that overflowed.
LEMMA StandInsHold ==
  ASSUME EntriesTypeOK, NEW day, NEW from \in Nat, NEW to \in Nat, NEW busy \in SUBSET Intervals,
         NEW out \in SUBSET Tasks, NEW tried \in SUBSET Tasks,
         NEW plan, Held(plan, day, from, to, busy, out, tried),
         NEW S \in SUBSET Tasks, NEW seq, Lists(seq, S),
         S \cap Own(plan) = {}, S \cap Substitutes(plan) = {}
  PROVE  /\ Held(InTurn(StandIn, plan, seq), day, from, to, busy, out, tried \cup S)
         /\ StoodIn(plan, InTurn(StandIn, plan, seq), S)
<1> DEFINE N == Len(seq)
           Upto(n) == {seq[k] : k \in 1..n}
<1>1. /\ N \in Nat /\ \A n \in 1..N : seq[n] \in Tasks /\ seq[n] \in S
      /\ \A k, l \in 1..N : seq[k] = seq[l] => k = l
      /\ S = Upto(N)
  BY DEF Lists
<1>2. plan \in Plans
  BY DEF Held
<1>3a. PICK so : StandInPlans(so, plan, seq)
  BY <1>2, StandInsTurn
<1>3. /\ so[0] = plan /\ \A n \in 1..N : so[n] = StandIn(so[n - 1], seq[n])
      /\ InTurn(StandIn, plan, seq) = so[N]
  BY <1>3a DEF StandInPlans
<1> HIDE DEF N
<1> DEFINE Good(n) == /\ Held(so[n], day, from, to, busy, out, tried \cup Upto(n))
                      /\ StoodIn(plan, so[n], Upto(n))
           G == {n \in 0..N : Good(n)}
<1>4. 0 \in G
  <2>1. Upto(0) = {} /\ 0 \in 0..N
    BY <1>1
  <2>2. StoodIn(plan, plan, Upto(0))
    BY DEF StoodIn
  <2>3. tried \cup Upto(0) = tried
    BY <2>1
  <2> HIDE DEF Upto
  <2> QED
    BY <1>3, <2>1, <2>2, <2>3
<1>5. ASSUME NEW n \in 1..N, n - 1 \in G
      PROVE  n \in G
  <2> DEFINE before == so[n - 1]
             c == seq[n]
             old == tried \cup Upto(n - 1)
  <2>1. n \in 0..N /\ Upto(n) = Upto(n - 1) \cup {c}
    <3>1. n \in 0..N /\ \A k : k \in 1..n <=> k \in 1..(n - 1) \/ k = n
      BY <1>1
    <3> QED
      BY <3>1
  <2>2. c \in Tasks /\ c \in S /\ c \notin Upto(n - 1)
    <3>1. \A k \in 1..(n - 1) : k \in 1..N /\ k # n
      BY <1>1
    <3> QED
      BY <1>1, <3>1
  <2>3. old \in SUBSET Tasks
    <3>1. \A k \in 1..(n - 1) : k \in 1..N
      BY <1>1
    <3> QED
      BY <1>1, <3>1
  <2>4. Held(before, day, from, to, busy, out, old) /\ StoodIn(plan, before, Upto(n - 1))
    BY <1>5
  <2> HIDE DEF Upto, old, before, c
  <2>5. c \notin Own(before) /\ c \notin Substitutes(before)
    BY <2>2, <2>4 DEF StoodIn
  <2>6. Held(StandIn(before, c), day, from, to, busy, out, old \cup {c})
        /\ StoodIn(before, StandIn(before, c), {c})
    BY <2>2, <2>3, <2>4, <2>5, StandInHolds
  <2>7. so[n] = StandIn(before, c)
    BY <1>3 DEF before, c
  <2>8. StoodIn(plan, so[n], Upto(n))
    BY <2>1, <2>4, <2>6, <2>7 DEF StoodIn
  <2>9. old \cup {c} = tried \cup Upto(n)
    BY <2>1 DEF old
  <2> QED
    BY <2>1, <2>6, <2>7, <2>8, <2>9
<1>6. N \in G
  <2>1. N \in 0..N
    BY <1>1
  <2> HIDE DEF G
  <2> QED
    BY <1>1, <1>4, <1>5, <2>1, CountUp
<1> HIDE DEF Upto
<1> QED
  BY <1>1, <1>3, <1>6

LEMMA StandInsTyped ==
  ASSUME EntriesTypeOK, NEW plan \in Plans, NEW S \in SUBSET Tasks, NEW seq, Lists(seq, S)
  PROVE  InTurn(StandIn, plan, seq) \in Plans
<1> DEFINE N == Len(seq)
<1>1. N \in Nat /\ \A n \in 1..N : seq[n] \in Tasks
  BY DEF Lists
<1>2a. PICK so : StandInPlans(so, plan, seq)
  BY StandInsTurn
<1>2. /\ so[0] = plan /\ \A n \in 1..N : so[n] = StandIn(so[n - 1], seq[n])
      /\ InTurn(StandIn, plan, seq) = so[N]
  BY <1>2a DEF StandInPlans
<1> HIDE DEF N
<1> DEFINE G == {n \in 0..N : so[n] \in Plans}
<1>3. 0 \in G
  BY <1>1, <1>2
<1>4. ASSUME NEW n \in 1..N, n - 1 \in G PROVE n \in G
  BY <1>1, <1>2, <1>4, StandInTyped
<1>5. N \in G
  <2>1. N \in 0..N
    BY <1>1
  <2> HIDE DEF G
  <2> QED
    BY <1>1, <1>3, <1>4, <2>1, CountUp
<1> QED
  BY <1>2, <1>5

-----------------------------------------------------------------------------
(* A ranked task                                                            *)

LEMMA KeyTyped ==
  ASSUME EntriesTypeOK, NEW day, NEW t \in Tasks
  PROVE  RankKey(t, day) \in [1..5 -> Nat] /\ RankKey(t, day)[5] = t
<1>1. t \in Nat /\ tasks[t].priority \in Nat /\ Minutes(t) \in Nat
  BY TaskTyped, MinutesTyped
<1>2. DueRank(t, day) \in Nat
  BY DEF DueRank
<1> DEFINE first == IF StatusOf(t) = "in_progress" THEN 0 ELSE 1
<1>3. first \in Nat
  OBVIOUS
<1>4. RankKey(t, day) = <<first, DueRank(t, day), tasks[t].priority, Minutes(t), t>>
  BY DEF RankKey
<1> HIDE DEF first
<1> DEFINE due == DueRank(t, day)
           priority == tasks[t].priority
           m == Minutes(t)
<1> HIDE DEF due, priority, m
<1>5. <<first, due, priority, m, t>> \in [1..5 -> Nat]
  BY <1>1, <1>2, <1>3 DEF due, priority, m
<1> QED
  BY <1>4, <1>5 DEF due, priority, m

\* Two tasks are never each before the other.
LEMMA RanksOneWay ==
  ASSUME EntriesTypeOK, NEW day, NEW t \in Tasks, NEW u \in Tasks,
         Precedes(RankKey(t, day), RankKey(u, day))
  PROVE  ~Precedes(RankKey(u, day), RankKey(t, day))
<1> DEFINE k == RankKey(t, day)
           l == RankKey(u, day)
<1>1. k \in [1..5 -> Nat] /\ l \in [1..5 -> Nat]
  BY KeyTyped
<1> HIDE DEF k, l
<1>2. ~(Precedes(k, l) /\ Precedes(l, k))
  BY <1>1, 5 \in Nat, KeysFollow, KeyNotBeforeItself
<1> QED
  BY <1>2 DEF k, l

\* Who may stand in for a task is one of its subtasks, and not a top-level one.
LEMMA StandInsOf ==
  ASSUME EntriesTypeOK, NEW day, NEW t \in Tasks
  PROVE  /\ StandIns(t, day) \in SUBSET Tasks
         /\ Lists(StandInList(t, day), StandIns(t, day))
         /\ \A c \in StandIns(t, day) : Parent[c] = t /\ (Active(t) => ~TopLevel(c))
<1>1. Subtasks(t) \in SUBSET Tasks /\ IsFiniteSet(Subtasks(t)) /\ None \notin Tasks
  BY TaskTyped
<1>2. StandIns(t, day) \subseteq Subtasks(t)
  BY DEF StandIns
<1>3. IsFiniteSet(StandIns(t, day))
  BY <1>1, <1>2, FS_Subset
<1>4. Tasks \subseteq Nat
  BY EntriesAssumption
<1>5. StandIns(t, day) \in SUBSET Nat
  BY <1>1, <1>2, <1>4
<1> DEFINE S == StandIns(t, day)
<1>6. Lists(StandInList(t, day), S)
  <2>1. Lists(ByNumber(S), S)
    <3> HIDE DEF S
    <3> QED
      BY <1>3, <1>5, NumbersListed DEF S
  <2> HIDE DEF S
  <2> QED
    BY <2>1 DEF StandInList, ByNumber, InOrder, S
<1>7. \A c \in StandIns(t, day) : Parent[c] = t /\ (Active(t) => ~TopLevel(c))
  BY <1>1, <1>2 DEF Subtasks, TopLevel
<1> QED
  BY <1>1, <1>2, <1>6, <1>7

\* Who has had a chance to stand in.
Helpers(plan, day) == UNION {StandIns(t, day) : t \in ToSet(plan.overflow)}

\* The plan once the pins of the tasks in pinned, and then the tasks of done, had their
\* turn.
RankedTo(plan, day, from, to, busy, pinned, done) ==
  /\ Held(plan, day, from, to, busy, ToSet(plan.overflow), Helpers(plan, day))
  /\ Substitutes(plan) \subseteq Helpers(plan, day)
  /\ Own(plan) \cup ToSet(plan.overflow) = pinned \cup done
  /\ Own(plan) \cap ToSet(plan.overflow) = {} /\ ToSet(plan.overflow) \subseteq done
  /\ IsInjective(plan.overflow)
  /\ \A b \in plan.blocks : b.kind = "ranked" => b.task \in done

LEMMA Appended ==
  ASSUME NEW S, NEW s \in Seq(S), NEW t \in S
  PROVE  /\ Append(s, t) \in Seq(S) /\ ToSet(Append(s, t)) = ToSet(s) \cup {t}
         /\ IsInjective(s) /\ t \notin ToSet(s) => IsInjective(Append(s, t))
<1> DEFINE n == Len(s)
           a == Append(s, t)
<1>1. n \in Nat /\ DOMAIN s = 1..n /\ a \in Seq(S) /\ DOMAIN a = 1..(n + 1)
      /\ a[n + 1] = t /\ \A k \in 1..n : a[k] = s[k]
  OBVIOUS
<1>2. \A k : k \in 1..(n + 1) <=> k \in 1..n \/ k = n + 1
  BY <1>1
<1> HIDE DEF n, a
<1>3. ToSet(a) = ToSet(s) \cup {t}
  BY <1>1, <1>2 DEF ToSet
<1>4. IsInjective(s) /\ t \notin ToSet(s) => IsInjective(a)
  BY <1>1, <1>2 DEF IsInjective, ToSet
<1> QED
  BY <1>1, <1>3, <1>4 DEF a

\* One ranked task more has its turn.
LEMMA RankHolds ==
  ASSUME EntriesTypeOK, NEW day, NEW from \in Nat, NEW to \in Nat, NEW busy \in SUBSET Intervals,
         NEW pinned \in SUBSET Tasks, NEW done \in SUBSET Tasks,
         \A u \in pinned \cup done : TopLevel(u),
         NEW plan, RankedTo(plan, day, from, to, busy, pinned, done),
         NEW t \in Tasks, TopLevel(t), t \notin pinned, t \notin done,
         \A u \in done : Precedes(RankKey(u, day), RankKey(t, day))
  PROVE  RankedTo(Rank(plan, t, day), day, from, to, busy, pinned, done \cup {t})
<1> DEFINE out == ToSet(plan.overflow)
           tried == Helpers(plan, day)
           next == Rank(plan, t, day)
<1>1. /\ Held(plan, day, from, to, busy, out, tried) /\ plan \in Plans
      /\ Substitutes(plan) \subseteq tried
      /\ Own(plan) \cup out = pinned \cup done /\ Own(plan) \cap out = {} /\ out \subseteq done
      /\ IsInjective(plan.overflow)
      /\ \A b \in plan.blocks : b.kind = "ranked" => b.task \in done
  BY DEF RankedTo, Held
<1>2. /\ plan.overflow \in Seq(Tasks) /\ plan.gaps \in SUBSET (Nat \X Nat) /\ plan.late \in Nat
      /\ plan.blocks \in SUBSET Blocks
  BY <1>1, PlanFields
<1>3. out \in SUBSET Tasks /\ \A u \in out : TopLevel(u) /\ Active(u)
  BY <1>1 DEF TopLevel
<1>4. \A u \in out : /\ StandIns(u, day) \in SUBSET Tasks
                     /\ \A c \in StandIns(u, day) : Parent[c] = u /\ ~TopLevel(c)
  BY <1>3, StandInsOf
<1>5. tried \in SUBSET Tasks /\ \A c \in tried : Parent[c] \in out /\ ~TopLevel(c)
  BY <1>4 DEF Helpers
<1>6. t \notin Own(plan) /\ t \notin out /\ t \notin tried /\ t \notin Substitutes(plan)
  BY <1>1, <1>5
<1> HIDE DEF out, tried
<1>7. CASE ~Full(plan, t)
  <2> DEFINE placed == PlaceIn(plan, t, "ranked")
  <2>1. Held(placed, day, from, to, busy, out, tried \cup {t}) /\ Gains(plan, placed, t, "ranked")
    BY <1>1, <1>3, <1>5, <1>6, <1>7, PlaceInHolds
  <2>2. next = placed
    BY <1>7 DEF Rank, Full
  <2> HIDE DEF next, placed
  <2>3. ToSet(next.overflow) = out /\ Helpers(next, day) = tried
    BY <2>1, <2>2 DEF Gains, Helpers, out, tried
  <2>4. Held(next, day, from, to, busy, out, tried)
    BY <2>1, <2>2 DEF Held, Passed
  <2>5. Own(next) = Own(plan) \cup {t} /\ Substitutes(next) = Substitutes(plan)
        /\ next.overflow = plan.overflow
    BY <2>1, <2>2 DEF Gains
  <2>6. \A b \in next.blocks : b.kind = "ranked" => b.task \in done \cup {t}
    BY <1>1, <2>1, <2>2 DEF Gains
  <2>7. RankedTo(next, day, from, to, busy, pinned, done \cup {t})
    BY <1>1, <1>6, <2>3, <2>4, <2>5, <2>6 DEF RankedTo
  <2> QED
    BY <2>7 DEF next
<1>8. CASE Full(plan, t)
  <2> DEFINE S == StandIns(t, day)
             seq == StandInList(t, day)
             walked == InTurn(StandIn, plan, seq)
  <2>1. S \in SUBSET Tasks /\ Lists(seq, S) /\ \A c \in S : Parent[c] = t /\ ~TopLevel(c)
    BY StandInsOf DEF TopLevel
  <2>2. next = [walked EXCEPT !.overflow = Append(@, t)]
    BY <1>8 DEF Rank, Full
  <2> HIDE DEF S, seq, next
  <2>3. Passed(plan, day, out \cup {t}, tried)
    <3>1. ASSUME NEW b \in plan.blocks, b.kind = "ranked"
          PROVE  ~Precedes(RankKey(t, day), RankKey(b.task, day))
      <4>1. b.task \in done /\ b.task \in Tasks
        BY <1>1, <3>1
      <4> QED
        BY <4>1, RanksOneWay
    <3>2. Passed(plan, day, out, tried)
      BY <1>1 DEF Held
    <3> QED
      BY <1>8, <3>1, <3>2 DEF Passed
  <2>4. Held(plan, day, from, to, busy, out \cup {t}, tried)
    BY <1>1, <2>3 DEF Held
  <2>5. S \cap Own(plan) = {} /\ S \cap Substitutes(plan) = {}
    BY <1>1, <1>5, <1>6, <2>1
  <2>6. out \cup {t} \in SUBSET Tasks
    BY <1>3
  <2>7. Held(walked, day, from, to, busy, out \cup {t}, tried \cup S) /\ StoodIn(plan, walked, S)
    BY <1>5, <2>1, <2>4, <2>5, <2>6, StandInsHold
  <2> HIDE DEF walked
  <2>8. walked \in Plans /\ walked.overflow = plan.overflow
    BY <2>7 DEF Held, StoodIn
  <2>9. /\ walked.gaps \in SUBSET (Nat \X Nat) /\ walked.late \in Nat
        /\ walked.blocks \in SUBSET Blocks /\ walked.overflow \in Seq(Tasks)
    BY <2>8, PlanFields
  <2> DEFINE longer == Append(plan.overflow, t)
  <2>10. longer \in Seq(Tasks) /\ ToSet(longer) = out \cup {t} /\ IsInjective(longer)
    BY <1>1, <1>2, <1>6, Appended DEF out
  <2>11. next = [walked EXCEPT !.overflow = longer]
    BY <2>2, <2>8
  <2> HIDE DEF longer
  <2>12. /\ next \in Plans /\ next.blocks = walked.blocks /\ next.gaps = walked.gaps
         /\ next.late = walked.late /\ next.overflow = longer
    BY <2>8, <2>9, <2>10, <2>11 DEF Plans
  <2>13. Own(next) = Own(walked) /\ Substitutes(next) = Substitutes(walked)
         /\ Moved(next) = Moved(walked) /\ Given(next, busy) = Given(walked, busy)
    BY <2>12 DEF Own, Substitutes, Moved, Given
  <2>14. Helpers(next, day) = tried \cup S
    BY <2>10, <2>12 DEF Helpers, out, tried, S
  <2>15. GivenOnce(next, from, to, busy)
    BY <2>7, <2>12, <2>13 DEF Held, GivenOnce
  <2>16. EachOnce(next)
    BY <2>7, <2>12 DEF Held, EachOnce
  <2>17. Passed(next, day, out \cup {t}, tried \cup S)
    BY <2>7, <2>12 DEF Held, Passed, Full
  <2>18. Held(next, day, from, to, busy, ToSet(next.overflow), Helpers(next, day))
    BY <2>10, <2>12, <2>14, <2>15, <2>16, <2>17 DEF Held
  <2>19. Own(next) = Own(plan) /\ Substitutes(next) \subseteq Substitutes(plan) \cup S
    BY <2>7, <2>13 DEF StoodIn
  <2>20. \A b \in next.blocks : b.kind = "ranked" => b.task \in done \cup {t}
    BY <1>1, <2>7, <2>12 DEF StoodIn
  <2>21. ToSet(next.overflow) = out \cup {t} /\ IsInjective(next.overflow)
    BY <2>10, <2>12
  <2>22. RankedTo(next, day, from, to, busy, pinned, done \cup {t})
    BY <1>1, <1>6, <2>14, <2>18, <2>19, <2>20, <2>21 DEF RankedTo
  <2> QED
    BY <2>22 DEF next
<1> QED
  BY <1>7, <1>8

LEMMA RankTyped ==
  ASSUME EntriesTypeOK, NEW day, NEW plan \in Plans, NEW t \in Tasks
  PROVE  Rank(plan, t, day) \in Plans
<1>1. CASE ~Full(plan, t)
  <2>1. PlaceIn(plan, t, "ranked") \in Plans
    BY <1>1, PlaceInAdds DEF Added
  <2> QED
    BY <1>1, <2>1 DEF Rank, Full
<1>2. CASE Full(plan, t)
  <2> DEFINE walked == InTurn(StandIn, plan, StandInList(t, day))
  <2>1. walked \in Plans
    BY StandInsOf, StandInsTyped
  <2>2. Rank(plan, t, day) = [walked EXCEPT !.overflow = Append(@, t)]
    BY <1>2 DEF Rank, Full
  <2> HIDE DEF walked
  <2>3. walked.overflow \in Seq(Tasks)
    BY <2>1, PlanFields
  <2> DEFINE longer == Append(walked.overflow, t)
  <2>4. longer \in Seq(Tasks)
    BY <2>3, Appended
  <2> HIDE DEF longer
  <2>5. [walked EXCEPT !.overflow = longer] \in Plans
    BY <2>1, <2>4 DEF Plans
  <2> QED
    BY <2>2, <2>5 DEF longer
<1> QED
  BY <1>1, <1>2

-----------------------------------------------------------------------------
(* What there is to pack                                                    *)

\* The pins that count, and the tasks they are for.
LEMMA PinFacts ==
  ASSUME EInv, NEW day
  PROVE  /\ IsFiniteSet(HonouredPins(day)) /\ HonouredPins(day) \subseteq LiveRows
         /\ \A i \in HonouredPins(day) :
              rows[i].task \in Schedulable(day) /\ rows[i].start \in Nat \cup {None}
         /\ \A i, j \in HonouredPins(day) : rows[i].task = rows[j].task => i = j
         /\ Schedulable(day) \subseteq Source(day) /\ Source(day) \subseteq Tasks
         /\ IsFiniteSet(Schedulable(day)) /\ \A t \in Source(day) : TopLevel(t)
<1>1. EntriesTypeOK /\ \A i, j \in LiveRows : i # j => Apart(rows[i], rows[j])
  BY AcceptsMeans DEF EInv
<1>2. HonouredPins(day) \subseteq LivePins(day) /\ LivePins(day) \subseteq LiveRows
  BY DEF HonouredPins, LivePins
<1>3. IsFiniteSet(HonouredPins(day))
  BY <1>1, <1>2, RowsTyped, FS_Subset
<1>4. \A i \in HonouredPins(day) :
        /\ rows[i].task \in Schedulable(day) /\ rows[i].task # None /\ rows[i].day = day
        /\ rows[i].start \in Nat \cup {None}
  <2> TAKE i \in HonouredPins(day)
  <2>1. rows[i] \in Entries
    BY <1>1, <1>2, RowsTyped
  <2> QED
    BY <2>1, EntryFields DEF HonouredPins, Schedulable, LivePins, IsPin
<1>5. \A i, j \in HonouredPins(day) : rows[i].task = rows[j].task => i = j
  BY <1>1, <1>2, <1>4 DEF Apart
<1>6. /\ Schedulable(day) \subseteq Source(day) /\ Source(day) \subseteq Tasks
      /\ \A t \in Source(day) : TopLevel(t)
  BY DEF Schedulable, Source, CanSchedule, OpenOn
<1>7. IsFiniteSet(Schedulable(day))
  BY <1>6, PackerAssumption, FS_Subset
<1> QED
  BY <1>2, <1>3, <1>4, <1>5, <1>6, <1>7

\* Entries of the table in the order a day shows them.
LEMMA EntriesListed ==
  ASSUME EntriesTypeOK, NEW S \in SUBSET LiveRows
  PROVE  LET seq == CHOOSE seq \in SetToSeqs(S) :
                      \A k, l \in DOMAIN seq : k < l => EntryOrder(seq[k], seq[l])
         IN  Lists(seq, S)
<1> DEFINE R == {p \in S \X S : EntryOrder(p[1], p[2])}
<1>1. IsFiniteSet(S)
  BY RowsTyped, FS_Subset
<1>2. \A i \in S : i \in Nat /\ rows[i].position \in Nat
  <2> TAKE i \in S
  <2>1. i \in Ids /\ rows[i] \in Entries
    BY RowsTyped
  <2> QED
    BY <2>1, EntryFields, EntriesAssumption DEF Ids
<1>3. \A i, j \in S : <<i, j>> \in R <=> EntryOrder(i, j)
  OBVIOUS
<1> HIDE DEF R
<1>4. Ordered(S, R)
  <2>1. \A i \in S : <<i, i>> \notin R
    BY <1>2, <1>3 DEF EntryOrder
  <2>2. \A i, j, k \in S : <<i, j>> \in R /\ <<j, k>> \in R => <<i, k>> \in R
    <3> SUFFICES ASSUME NEW i \in S, NEW j \in S, NEW k \in S, EntryOrder(i, j), EntryOrder(j, k)
                 PROVE  EntryOrder(i, k)
      BY <1>3
    <3> QED
      BY <1>2 DEF EntryOrder
  <2>3. \A i, j \in S : i # j => <<i, j>> \in R \/ <<j, i>> \in R
    <3> SUFFICES ASSUME NEW i \in S, NEW j \in S, i # j
                 PROVE  EntryOrder(i, j) \/ EntryOrder(j, i)
      BY <1>3
    <3> QED
      BY <1>2 DEF EntryOrder
  <2> QED
    BY <2>1, <2>2, <2>3 DEF Ordered
<1>5. PICK s \in SetToSeqs(S) : SortedBy(s, R)
  BY <1>1, <1>4, OrderExists
<1>6. \A k, l \in DOMAIN s : k < l => EntryOrder(s[k], s[l])
  <2>1. \A k \in DOMAIN s : s[k] \in S
    BY <1>5 DEF SetToSeqs
  <2> QED
    BY <1>3, <1>5, <2>1 DEF SortedBy
<1> DEFINE seq == CHOOSE seq \in SetToSeqs(S) :
                    \A k, l \in DOMAIN seq : k < l => EntryOrder(seq[k], seq[l])
<1>7. seq \in SetToSeqs(S)
  BY <1>6
<1> HIDE DEF seq
<1> QED
  BY <1>1, <1>7, SequenceLists DEF seq

LEMMA FloatingListed ==
  ASSUME EInv, NEW day, NEW from
  PROVE  Lists(Floating(day, from), HonouredPins(day) \ Timed(day, from))
<1> DEFINE S == HonouredPins(day) \ Timed(day, from)
           seq == CHOOSE seq \in SetToSeqs(S) :
                    \A k, l \in DOMAIN seq : k < l => EntryOrder(seq[k], seq[l])
<1>1. S \in SUBSET LiveRows /\ EntriesTypeOK
  BY PinFacts DEF EInv
<1>2. Floating(day, from) = seq
  BY DEF Floating, InOrder
<1>3. Lists(seq, S)
  <2> HIDE DEF S
  <2> QED
    BY <1>1, EntriesListed
<1> QED
  BY <1>2, <1>3

\* The tasks nobody pinned, by rank.
LEMMA RankedListed ==
  ASSUME EInv, NEW day
  PROVE  LET S == Schedulable(day) \ {rows[i].task : i \in HonouredPins(day)}
             seq == Ranked(day)
         IN  /\ Lists(seq, S)
             /\ \A k, l \in 1..Len(seq) :
                  k < l => Precedes(RankKey(seq[k], day), RankKey(seq[l], day))
<1> DEFINE S == Schedulable(day) \ {rows[i].task : i \in HonouredPins(day)}
           key == [t \in S |-> RankKey(t, day)]
           R == {p \in S \X S : Precedes(key[p[1]], key[p[2]])}
<1>1. S \in SUBSET Tasks /\ IsFiniteSet(S) /\ EntriesTypeOK
  BY PinFacts, FS_Subset DEF EInv
<1> HIDE DEF S
<1>2. \A t \in S : RankKey(t, day) \in [1..5 -> Nat] /\ RankKey(t, day)[5] = t
  BY <1>1, KeyTyped
<1>3. key \in [S -> [1..5 -> Nat]] /\ \A x, y \in S : key[x] = key[y] => x = y
  BY <1>2
<1>4. \A t \in S : key[t] = RankKey(t, day)
  OBVIOUS
<1> HIDE DEF key
<1>5. Ordered(S, R)
  <2>1. PICK n \in Nat : n = 5
    OBVIOUS
  <2>2. key \in [S -> [1..n -> Nat]]
    BY <1>3, <2>1
  <2>3. Ordered(S, {p \in S \X S : Precedes(key[p[1]], key[p[2]])})
    BY ONLY <1>3, <2>2, n \in Nat, ByKey
  <2> QED
    BY <2>3
<1>6. \A t, u \in S : <<t, u>> \in R <=> Precedes(RankKey(t, day), RankKey(u, day))
  BY <1>4
<1> HIDE DEF R
<1>7. PICK s \in SetToSeqs(S) : SortedBy(s, R)
  BY <1>1, <1>5, OrderExists
<1> DEFINE Sorted(seq) == \A k, l \in DOMAIN seq :
                            k < l => Precedes(RankKey(seq[k], day), RankKey(seq[l], day))
<1>8. Sorted(s)
  <2>1. \A k \in DOMAIN s : s[k] \in S
    BY <1>7 DEF SetToSeqs
  <2> QED
    BY <1>6, <1>7, <2>1 DEF SortedBy
<1>9. Ranked(day) = CHOOSE seq \in SetToSeqs(S) : Sorted(seq)
  BY DEF Ranked, InOrder, S
<1> HIDE DEF Sorted
<1>10. Ranked(day) \in SetToSeqs(S) /\ Sorted(Ranked(day))
  BY <1>7, <1>8, <1>9
<1>11. Lists(Ranked(day), S) /\ DOMAIN Ranked(day) = 1..Len(Ranked(day))
  BY <1>1, <1>10, SequenceLists
<1> QED
  BY <1>10, <1>11 DEF Sorted, S

\* A commitment that is shown has a time.
LEMMA ShownTimed ==
  ASSUME EInv, NEW day, NEW c \in DayCommitments(day)
  PROVE  /\ c.shown \in LiveRows /\ rows[c.shown].start \in Nat
         /\ rows[c.shown].length \in Nat /\ Ends(c.shown) \in Nat
<1>1. EntriesTypeOK /\ \A i \in Stored : KindOf(rows[i])
  BY AcceptsMeans DEF EInv
<1> DEFINE e == rows[c.shown]
<1>2. /\ c.shown \in LiveRows
      /\ IsOneOff(e) \/ IsSeries(e) \/ IsOverride(e)
  <2>1. CASE \E i \in LiveRows : c = [id |-> i, shown |-> i] /\ IsOneOff(rows[i])
    BY <2>1
  <2>2. CASE \E s \in DaySeries(day) : c = [id |-> s, shown |-> s]
    BY <2>2 DEF DaySeries
  <2>3. CASE \E s \in DaySeries(day) : \E x \in LiveExceptions(s, day) :
               c = [id |-> s, shown |-> x] /\ IsOverride(rows[x])
    BY <2>3 DEF LiveExceptions
  <2> QED
    BY <2>1, <2>2, <2>3 DEF DayCommitments
<1>3. e \in Entries /\ KindOf(e)
  BY <1>1, <1>2, RowsTyped
<1> HIDE DEF e
<1>4. e.start \in Nat \cup {None} /\ e.length \in Nat \cup {None}
  BY <1>3, EntryFields
<1>5. e.start # None /\ e.length # None
  BY <1>2, <1>3 DEF IsOneOff, IsSeries, IsOverride, KindOf
<1>6. Ends(c.shown) = e.start + e.length
  BY DEF Ends, e
<1> QED
  BY <1>2, <1>4, <1>5, <1>6 DEF e

\* The fixed blocks are typed and each of a task of its own.
LEMMA FixedFacts ==
  ASSUME EInv, NEW day, NEW from
  PROVE  /\ Fixed(day, from) \in SUBSET Blocks
         /\ \A b \in Fixed(day, from) : b.kind = "timed" /\ b.start < b.end
         /\ {b.task : b \in Fixed(day, from)} = {rows[i].task : i \in Timed(day, from)}
         /\ \A b, c \in Fixed(day, from) : b.task = c.task => b = c
<1> DEFINE fixed(i) == Block(rows[i].task, rows[i].start, "timed")
<1>1. EntriesTypeOK
  BY DEF EInv
<1>2. \A i \in Timed(day, from) : /\ i \in HonouredPins(day) /\ rows[i].task \in Tasks
                                  /\ rows[i].start \in Nat
  BY PinFacts DEF Timed, IsTimed
<1>3. \A i \in Timed(day, from) :
        /\ fixed(i) \in Blocks /\ fixed(i).task = rows[i].task /\ fixed(i).start = rows[i].start
        /\ fixed(i).end = rows[i].start + Minutes(rows[i].task) /\ fixed(i).kind = "timed"
  BY <1>1, <1>2, BlockTyped
<1>4. \A i \in Timed(day, from) : fixed(i).start < fixed(i).end
  <2> TAKE i \in Timed(day, from)
  <2>1. Minutes(rows[i].task) \in Nat \ {0}
    BY <1>1, <1>2, MinutesTyped
  <2> QED
    BY <1>2, <1>3, <2>1
<1>5. Fixed(day, from) = {fixed(i) : i \in Timed(day, from)}
  BY DEF Fixed
<1>6. \A i, j \in Timed(day, from) : rows[i].task = rows[j].task => i = j
  BY <1>2, PinFacts
<1> HIDE DEF fixed
<1> QED
  BY <1>3, <1>4, <1>5, <1>6

LEMMA BusyFacts ==
  ASSUME EInv, NEW day, NEW from
  PROVE  Busy(day, from) \in SUBSET Intervals /\ IsFiniteSet(Busy(day, from))
<1> DEFINE pin(i) == <<rows[i].start, rows[i].start + Minutes(rows[i].task)>>
           meeting(i) == <<rows[i].start, Ends(i)>>
           pins == {pin(i) : i \in Timed(day, from)}
           meetings == {meeting(i) : i \in LiveRows}
           p == [i \in Timed(day, from) |-> pin(i)]
           m == [i \in LiveRows |-> meeting(i)]
<1>1. EntriesTypeOK
  BY DEF EInv
<1>2. \A i \in Timed(day, from) : /\ i \in HonouredPins(day) /\ rows[i].task \in Tasks
                                  /\ rows[i].start \in Nat
  BY PinFacts DEF Timed, IsTimed
<1>3. \A i \in Timed(day, from) : pin(i) \in Intervals
  <2> TAKE i \in Timed(day, from)
  <2>1. Minutes(rows[i].task) \in Nat \ {0}
    BY <1>1, <1>2, MinutesTyped
  <2> QED
    BY <1>2, <2>1 DEF Intervals
<1>4. IsFiniteSet(Timed(day, from)) /\ IsFiniteSet(LiveRows)
  BY <1>1, PinFacts, RowsTyped, FS_Subset DEF Timed
<1>5. p \in Surjection(Timed(day, from), pins) /\ m \in Surjection(LiveRows, meetings)
  BY DEF Surjection
<1>6. IsFiniteSet(pins) /\ IsFiniteSet(meetings)
  <2> HIDE DEF p, m, pins, meetings
  <2> QED
    BY <1>4, <1>5, FS_Surjection
<1>7. \A b \in Fixed(day, from) : <<b.start, b.end>> \in pins
  <2> SUFFICES ASSUME NEW i \in Timed(day, from)
               PROVE  LET b == Block(rows[i].task, rows[i].start, "timed")
                      IN  <<b.start, b.end>> = pin(i)
    BY DEF Fixed
  <2>1. /\ Block(rows[i].task, rows[i].start, "timed").start = rows[i].start
        /\ Block(rows[i].task, rows[i].start, "timed").end = rows[i].start + Minutes(rows[i].task)
    BY <1>1, <1>2, BlockTyped
  <2> QED
    BY <2>1
<1>8. \A c \in Commitments(day, from) :
        <<rows[c.shown].start, Ends(c.shown)>> \in Intervals
        /\ <<rows[c.shown].start, Ends(c.shown)>> \in meetings
  <2> TAKE c \in Commitments(day, from)
  <2>1. /\ c.shown \in LiveRows /\ rows[c.shown].start \in Nat /\ rows[c.shown].length \in Nat
        /\ Ends(c.shown) = rows[c.shown].start + rows[c.shown].length
    BY ShownTimed DEF Commitments, Ends
  <2> QED
    BY <2>1 DEF Intervals
<1>9. \A b \in pins : b \in Intervals
  BY <1>3
<1> HIDE DEF pins, meetings
<1>10. Busy(day, from) \in SUBSET Intervals /\ Busy(day, from) \subseteq pins \cup meetings
  BY <1>7, <1>8, <1>9 DEF Busy
<1>11. IsFiniteSet(pins \cup meetings)
  BY <1>6, FS_Union
<1> QED
  BY <1>10, <1>11, FS_Subset

\* The plan before anything is packed.
LEMMA UnpackedHolds ==
  ASSUME EInv, NEW day, NEW from \in Nat, NEW to \in Nat
  PROVE  LET plan == Unpacked(day, from, to)
         IN  /\ Held(plan, day, from, to, Busy(day, from), {}, {})
             /\ plan.overflow = <<>> /\ Own(plan) = {rows[i].task : i \in Timed(day, from)}
             /\ Substitutes(plan) = {} /\ \A b \in plan.blocks : b.kind = "timed"
<1> DEFINE busy == Busy(day, from)
           gaps == FreeGaps(from, to, busy)
           late == Resumes(to, busy)
           fixed == Fixed(day, from)
           plan == Unpacked(day, from, to)
<1>1. busy \in SUBSET Intervals /\ IsFiniteSet(busy)
  BY BusyFacts
<1> HIDE DEF busy
<1>2. late \in Nat /\ to <= late /\ \A c \in busy : c[2] <= late
  BY <1>1, ResumesAfter
<1>3. FreeTime(gaps, from, to, busy)
  BY <1>1, GapsFree
<1>4. /\ fixed \in SUBSET Blocks
      /\ \A b \in fixed : b.kind = "timed"
      /\ {b.task : b \in fixed} = {rows[i].task : i \in Timed(day, from)}
      /\ \A b, c \in fixed : b.task = c.task => b = c
  BY FixedFacts
<1>5. gaps \in SUBSET (Nat \X Nat)
  BY <1>3 DEF FreeTime
<1>6. plan = [gaps |-> gaps, late |-> late, blocks |-> fixed, overflow |-> <<>>]
  BY DEF Unpacked, Resumes, busy
<1> HIDE DEF plan, gaps, late, fixed
<1>7. /\ plan \in Plans /\ plan.gaps = gaps /\ plan.late = late /\ plan.blocks = fixed
      /\ plan.overflow = <<>>
  BY <1>2, <1>4, <1>5, <1>6 DEF Plans
<1>8. Moved(plan) = {} /\ Given(plan, busy) = busy
  BY <1>4, <1>7 DEF Moved, Given
<1>9. GivenOnce(plan, from, to, busy)
  BY <1>2, <1>3, <1>7, <1>8 DEF GivenOnce
<1>10. EachOnce(plan) /\ Passed(plan, day, {}, {})
  BY <1>4, <1>7 DEF EachOnce, Passed
<1>11. Own(plan) = {rows[i].task : i \in Timed(day, from)} /\ Substitutes(plan) = {}
  BY <1>4, <1>7 DEF Own, Substitutes
<1> QED
  BY <1>4, <1>7, <1>9, <1>10, <1>11 DEF Held, busy, plan

-----------------------------------------------------------------------------
(* The pins, one after the other                                            *)

LEMMA FloatTyped ==
  ASSUME EntriesTypeOK, NEW plan \in Plans, NEW t \in Tasks
  PROVE  Float(plan, t) \in Plans
<1>1. CASE ~Full(plan, t)
  <2>1. PlaceIn(plan, t, "floating") \in Plans
    BY <1>1, PlaceInAdds DEF Added
  <2> QED
    BY <1>1, <2>1 DEF Float, Full
<1>2. CASE Full(plan, t)
  <2> DEFINE b == Block(t, plan.late, "late")
             m == Minutes(t)
             later == plan.late + m
             blocks == plan.blocks \cup {b}
  <2>1. plan.blocks \in SUBSET Blocks /\ plan.late \in Nat /\ m \in Nat
    BY PlanFields, MinutesTyped
  <2>2. b \in Blocks
    BY <2>1, BlockTyped
  <2>3. Float(plan, t) = [plan EXCEPT !.blocks = blocks, !.late = later]
    BY <1>2 DEF Float, Full
  <2>4. later \in Nat /\ blocks \in SUBSET Blocks
    BY <2>1, <2>2
  <2> HIDE DEF b, m, later, blocks
  <2>5. [plan EXCEPT !.blocks = blocks, !.late = later] \in Plans
    BY <2>4 DEF Plans
  <2> QED
    BY <2>3, <2>5
<1> QED
  BY <1>1, <1>2

\* The plans that the floating pins leave, one after the other.
PinPlans(so, day, from, to) ==
  /\ so[0] = Unpacked(day, from, to)
  /\ \A n \in 1..Len(Floating(day, from)) :
       so[n] = Float(so[n - 1], rows[Floating(day, from)[n]].task)
  /\ Pinned(day, from, to) = so[Len(Floating(day, from))]

LEMMA PinsTurn ==
  ASSUME EInv, NEW day, NEW from \in Nat, NEW to \in Nat
  PROVE  \E so : PinPlans(so, day, from, to)
<1> DEFINE seq == Floating(day, from)
           N == Len(seq)
           plan == Unpacked(day, from, to)
           place(p, i) == Float(p, rows[i].task)
           step == [p \in Plans \X (1..N) |-> place(p[1], seq[p[2]])]
           body(f) == [n \in 0..N |-> IF n = 0 THEN plan ELSE place(f[n - 1], seq[n])]
           so == CHOOSE f : f = body(f)
<1>0. EntriesTypeOK /\ plan \in Plans
  BY UnpackedHolds DEF EInv, Held
<1>1. N \in Nat /\ \A n \in 1..N : rows[seq[n]].task \in Tasks
  <2>1. Lists(seq, HonouredPins(day) \ Timed(day, from))
    BY FloatingListed
  <2> HIDE DEF seq
  <2>2. N \in Nat /\ \A n \in 1..N : seq[n] \in HonouredPins(day)
    BY <2>1 DEF Lists
  <2> QED
    BY <2>2, PinFacts
<1>7. Pinned(day, from, to) = so[N]
  BY DEF Pinned, InTurn
<1> HIDE DEF seq, plan
<1>2. \A p \in Plans, n \in 1..N : step[<<p, n>>] = place(p, seq[n])
  OBVIOUS
<1>3. step \in [Plans \X (1..N) -> Plans]
  <2> SUFFICES ASSUME NEW p \in Plans \X (1..N)
               PROVE  place(p[1], seq[p[2]]) \in Plans
    OBVIOUS
  <2> HIDE DEF N
  <2>1. p[1] \in Plans /\ p[2] \in 1..N
    OBVIOUS
  <2> QED
    BY <1>0, <1>1, <2>1, FloatTyped
<1> HIDE DEF step, place
<1>4. PICK f \in [0..N -> Plans] : IsRun(f, N, plan, step)
  <2> HIDE DEF N
  <2> QED
    BY ONLY <1>0, <1>1, <1>3, StepsTaken
<1>5. f = body(f)
  <2>1. \A n \in 1..N : f[n] = place(f[n - 1], seq[n])
    <3> TAKE n \in 1..N
    <3>1. n - 1 \in 0..N
      BY <1>1
    <3> HIDE DEF N
    <3> QED
      BY <1>2, <1>4, <3>1 DEF IsRun
  <2>2. \A n \in 0..N : n # 0 => n \in 1..N
    BY <1>1
  <2> HIDE DEF N
  <2> QED
    BY <1>4, <2>1, <2>2 DEF IsRun
<1>6. so = body(so)
  <2> HIDE DEF body
  <2> QED
    BY <1>5
<1> HIDE DEF so
<1>8. 0 \in 0..N /\ \A n \in 1..N : n \in 0..N /\ n # 0
  BY <1>1
<1>9. so[0] = plan /\ \A n \in 1..N : so[n] = place(so[n - 1], seq[n])
  BY <1>6, <1>8
<1>10. PinPlans(so, day, from, to)
  BY <1>7, <1>9 DEF PinPlans, place, seq, plan
<1> QED
  BY <1>10

\* The plan once the pins of the tasks in pinned have their time.
PinnedTo(plan, day, from, to, busy, pinned) ==
  /\ Held(plan, day, from, to, busy, {}, {})
  /\ plan.overflow = <<>> /\ Own(plan) = pinned /\ Substitutes(plan) = {}
  /\ \A b \in plan.blocks : b.kind # "ranked"

\* One floating pin more has its time.
LEMMA FloatHolds ==
  ASSUME EntriesTypeOK, NEW day, NEW from \in Nat, NEW to \in Nat, NEW busy \in SUBSET Intervals,
         NEW plan, NEW pinned, PinnedTo(plan, day, from, to, busy, pinned),
         NEW t \in Tasks, t \notin pinned
  PROVE  PinnedTo(Float(plan, t), day, from, to, busy, pinned \cup {t})
<1>1. Held(plan, day, from, to, busy, {}, {}) /\ t \notin Own(plan) /\ t \notin Substitutes(plan)
  BY DEF PinnedTo
<1> DEFINE next == Float(plan, t)
<1>2. PICK kind \in {"floating", "late"} :
        Held(next, day, from, to, busy, {}, {t}) /\ Gains(plan, next, t, kind)
  <2>0. {} \in SUBSET Tasks /\ {} \cup {t} = {t}
    OBVIOUS
  <2>1. CASE Full(plan, t)
    BY <1>1, <2>0, <2>1, LateHolds
  <2>2. CASE ~Full(plan, t)
    <3>1. next = PlaceIn(plan, t, "floating")
      BY <2>2 DEF Float, Full
    <3> HIDE DEF next
    <3> QED
      BY <1>1, <2>0, <2>2, <3>1, PlaceInHolds
  <2> QED
    BY <2>1, <2>2
<1> HIDE DEF next
<1>3. Held(next, day, from, to, busy, {}, {})
  BY <1>2 DEF Held, Passed
<1>4. PinnedTo(next, day, from, to, busy, pinned \cup {t})
  BY <1>2, <1>3 DEF PinnedTo, Gains
<1> QED
  BY <1>4 DEF next

\* When the pins are placed, the tasks they are for are in the schedule.
LEMMA PinnedHolds ==
  ASSUME EInv, NEW day, NEW from \in Nat, NEW to \in Nat
  PROVE  PinnedTo(Pinned(day, from, to), day, from, to, Busy(day, from),
                  {rows[i].task : i \in HonouredPins(day)})
<1> DEFINE seq == Floating(day, from)
           N == Len(seq)
           busy == Busy(day, from)
           H == HonouredPins(day)
           F == Timed(day, from)
           Upto(n) == {rows[seq[k]].task : k \in 1..n}
           pinned(n) == {rows[i].task : i \in F} \cup Upto(n)
<1>0. EntriesTypeOK /\ busy \in SUBSET Intervals /\ F \subseteq H
  BY BusyFacts DEF EInv, Timed
<1>1. Lists(seq, H \ F)
  BY FloatingListed
<1>2. PICK so : PinPlans(so, day, from, to)
  BY PinsTurn
<1>3. /\ so[0] = Unpacked(day, from, to)
      /\ \A n \in 1..N : so[n] = Float(so[n - 1], rows[seq[n]].task)
      /\ Pinned(day, from, to) = so[N]
  BY <1>2 DEF PinPlans
<1>4. /\ \A i \in H : rows[i].task \in Tasks
      /\ \A i, j \in H : rows[i].task = rows[j].task => i = j
  BY PinFacts
<1> HIDE DEF seq
<1>5. /\ N \in Nat /\ \A n \in 1..N : seq[n] \in H /\ seq[n] \notin F
      /\ \A k, l \in 1..N : seq[k] = seq[l] => k = l
      /\ \A i \in H : i \notin F => \E k \in 1..N : i = seq[k]
  BY <1>1 DEF Lists
<1> HIDE DEF N, H, F, busy
<1> DEFINE G == {n \in 0..N : PinnedTo(so[n], day, from, to, busy, pinned(n))}
<1>6. 0 \in G
  <2>1. pinned(0) = {rows[i].task : i \in F} /\ 0 \in 0..N
    BY <1>5
  <2> HIDE DEF pinned
  <2>2. PinnedTo(so[0], day, from, to, busy, pinned(0))
    <3> DEFINE plan == Unpacked(day, from, to)
    <3>1. /\ Held(plan, day, from, to, Busy(day, from), {}, {})
          /\ plan.overflow = <<>> /\ Own(plan) = {rows[i].task : i \in Timed(day, from)}
          /\ Substitutes(plan) = {} /\ \A b \in plan.blocks : b.kind = "timed"
      BY UnpackedHolds
    <3>2. so[0] = plan
      BY <1>3
    <3> HIDE DEF plan
    <3> QED
      BY <2>1, <3>1, <3>2 DEF PinnedTo, busy, F
  <2> QED
    BY <2>1, <2>2
<1>7. ASSUME NEW n \in 1..N, n - 1 \in G
      PROVE  n \in G
  <2> DEFINE t == rows[seq[n]].task
  <2>1. n \in 0..N /\ \A k : k \in 1..n <=> k \in 1..(n - 1) \/ k = n
    BY <1>5
  <2>2. \A k \in 1..(n - 1) : k \in 1..N /\ k # n
    BY <1>5
  <2>3. pinned(n) = pinned(n - 1) \cup {t}
    BY <2>1
  <2>4. t \in Tasks /\ t \notin pinned(n - 1)
    BY <1>0, <1>4, <1>5, <2>2
  <2>5. PinnedTo(so[n - 1], day, from, to, busy, pinned(n - 1))
    BY <1>7
  <2>6. so[n] = Float(so[n - 1], t)
    BY <1>3
  <2> HIDE DEF pinned, t
  <2>7. PinnedTo(so[n], day, from, to, busy, pinned(n))
    BY <1>0, <2>3, <2>4, <2>5, <2>6, FloatHolds
  <2> QED
    BY <2>1, <2>7
<1>8. N \in G
  <2>1. N \in 0..N
    BY <1>5
  <2> HIDE DEF G
  <2> QED
    BY <1>5, <1>6, <1>7, <2>1, CountUp
<1>9. pinned(N) = {rows[i].task : i \in H}
  BY <1>0, <1>5
<1> HIDE DEF pinned
<1> QED
  BY <1>3, <1>8, <1>9 DEF H, busy

-----------------------------------------------------------------------------
(* The ranked tasks, one after the other                                    *)

\* The plans that the ranked tasks leave, one after the other.
RankPlans(so, day, from, to) ==
  /\ so[0] = Pinned(day, from, to)
  /\ \A n \in 1..Len(Ranked(day)) : so[n] = Rank(so[n - 1], Ranked(day)[n], day)
  /\ Packed(day, from, to) = so[Len(Ranked(day))]

LEMMA RanksTurn ==
  ASSUME EInv, NEW day, NEW from \in Nat, NEW to \in Nat
  PROVE  \E so : RankPlans(so, day, from, to)
<1> DEFINE seq == Ranked(day)
           N == Len(seq)
           plan == Pinned(day, from, to)
           step == [p \in Plans \X (1..N) |-> Rank(p[1], seq[p[2]], day)]
           body(f) == [n \in 0..N |-> IF n = 0 THEN plan ELSE Rank(f[n - 1], seq[n], day)]
           so == CHOOSE f : f = body(f)
<1>0. EntriesTypeOK /\ plan \in Plans
  BY PinnedHolds DEF EInv, PinnedTo, Held
<1>1. N \in Nat /\ \A n \in 1..N : seq[n] \in Tasks
  <2>1. Lists(seq, Schedulable(day) \ {rows[i].task : i \in HonouredPins(day)})
    BY RankedListed
  <2>2. Schedulable(day) \subseteq Tasks
    BY PinFacts
  <2> HIDE DEF seq
  <2> QED
    BY <2>1, <2>2 DEF Lists
<1>7. Packed(day, from, to) = so[N]
  BY DEF Packed, InTurn
<1> HIDE DEF seq, plan
<1>2. \A p \in Plans, n \in 1..N : step[<<p, n>>] = Rank(p, seq[n], day)
  OBVIOUS
<1>3. step \in [Plans \X (1..N) -> Plans]
  <2> SUFFICES ASSUME NEW p \in Plans \X (1..N)
               PROVE  Rank(p[1], seq[p[2]], day) \in Plans
    OBVIOUS
  <2> HIDE DEF N
  <2>1. p[1] \in Plans /\ p[2] \in 1..N
    OBVIOUS
  <2> QED
    BY <1>0, <1>1, <2>1, RankTyped
<1> HIDE DEF step
<1>4. PICK f \in [0..N -> Plans] : IsRun(f, N, plan, step)
  <2> HIDE DEF N
  <2> QED
    BY ONLY <1>0, <1>1, <1>3, StepsTaken
<1>5. f = body(f)
  <2>1. \A n \in 1..N : f[n] = Rank(f[n - 1], seq[n], day)
    <3> TAKE n \in 1..N
    <3>1. n - 1 \in 0..N
      BY <1>1
    <3> HIDE DEF N
    <3> QED
      BY <1>2, <1>4, <3>1 DEF IsRun
  <2>2. \A n \in 0..N : n # 0 => n \in 1..N
    BY <1>1
  <2> HIDE DEF N
  <2> QED
    BY <1>4, <2>1, <2>2 DEF IsRun
<1>6. so = body(so)
  <2> HIDE DEF body
  <2> QED
    BY <1>5
<1> HIDE DEF so
<1>8. 0 \in 0..N /\ \A n \in 1..N : n \in 0..N /\ n # 0
  BY <1>1
<1>9. so[0] = plan /\ \A n \in 1..N : so[n] = Rank(so[n - 1], seq[n], day)
  BY <1>6, <1>8
<1>10. RankPlans(so, day, from, to)
  BY <1>7, <1>9 DEF RankPlans, seq, plan
<1> QED
  BY <1>10

\* When all is packed, every task of the day had its turn.
LEMMA PackedHolds ==
  ASSUME EInv, NEW day, NEW from \in Nat, NEW to \in Nat
  PROVE  LET pinned == {rows[i].task : i \in HonouredPins(day)}
         IN  RankedTo(Packed(day, from, to), day, from, to, Busy(day, from),
                      pinned, Schedulable(day) \ pinned)
<1> DEFINE seq == Ranked(day)
           N == Len(seq)
           busy == Busy(day, from)
           pinned == {rows[i].task : i \in HonouredPins(day)}
           S == Schedulable(day) \ pinned
           Upto(n) == {seq[k] : k \in 1..n}
<1>0. /\ EntriesTypeOK /\ busy \in SUBSET Intervals
      /\ pinned \in SUBSET Tasks /\ \A u \in pinned : TopLevel(u)
      /\ S \in SUBSET Tasks /\ \A u \in S : TopLevel(u) /\ u \notin pinned
  BY BusyFacts, PinFacts DEF EInv
<1>1. /\ Lists(seq, S)
      /\ \A k, l \in 1..N : k < l => Precedes(RankKey(seq[k], day), RankKey(seq[l], day))
  BY RankedListed
<1>2. PICK so : RankPlans(so, day, from, to)
  BY RanksTurn
<1>3. /\ so[0] = Pinned(day, from, to)
      /\ \A n \in 1..N : so[n] = Rank(so[n - 1], seq[n], day)
      /\ Packed(day, from, to) = so[N]
  BY <1>2 DEF RankPlans
<1>4. PinnedTo(so[0], day, from, to, busy, pinned)
  BY <1>3, PinnedHolds
<1> HIDE DEF seq, busy, S, pinned
<1>5. /\ N \in Nat /\ \A n \in 1..N : seq[n] \in S
      /\ \A k, l \in 1..N : seq[k] = seq[l] => k = l
      /\ S = Upto(N)
  BY <1>1 DEF Lists
<1> HIDE DEF N
<1> DEFINE G == {n \in 0..N : RankedTo(so[n], day, from, to, busy, pinned, Upto(n))}
<1>6. 0 \in G
  <2>1. Upto(0) = {} /\ 0 \in 0..N
    BY <1>5
  <2> DEFINE plan == so[0]
  <2>2. ToSet(plan.overflow) = {} /\ IsInjective(plan.overflow)
    BY <1>4 DEF PinnedTo, ToSet, IsInjective
  <2> HIDE DEF plan, Upto
  <2>3. Helpers(plan, day) = {}
    BY <2>2 DEF Helpers
  <2>4. PinnedTo(plan, day, from, to, busy, pinned)
    BY <1>4 DEF plan
  <2>5. RankedTo(plan, day, from, to, busy, pinned, {})
    BY <2>2, <2>3, <2>4 DEF PinnedTo, RankedTo
  <2> QED
    BY <2>1, <2>5 DEF plan
<1>7. ASSUME NEW n \in 1..N, n - 1 \in G
      PROVE  n \in G
  <2> DEFINE t == seq[n]
             done == Upto(n - 1)
             before == so[n - 1]
  <2>1. n \in 0..N /\ \A k : k \in 1..n <=> k \in 1..(n - 1) \/ k = n
    BY <1>5
  <2>2. \A k \in 1..(n - 1) : k \in 1..N /\ k < n /\ k # n
    BY <1>5
  <2>3. Upto(n) = done \cup {t}
    BY <2>1
  <2>4. t \in S /\ done \subseteq S /\ t \notin done
    BY <1>5, <2>2
  <2>5. \A u \in done : Precedes(RankKey(u, day), RankKey(t, day))
    BY <1>1, <2>2
  <2>6. RankedTo(before, day, from, to, busy, pinned, done)
    BY <1>7
  <2>7. so[n] = Rank(before, t, day)
    BY <1>3
  <2> HIDE DEF Upto, t, done, before
  <2>8. /\ t \in Tasks /\ TopLevel(t) /\ t \notin pinned /\ t \notin done
        /\ done \in SUBSET Tasks /\ \A u \in pinned \cup done : TopLevel(u)
    BY <1>0, <2>4
  <2>9. RankedTo(so[n], day, from, to, busy, pinned, Upto(n))
    BY <1>0, <2>3, <2>5, <2>6, <2>7, <2>8, RankHolds
  <2> QED
    BY <2>1, <2>9
<1>8. N \in G
  <2>1. N \in 0..N
    BY <1>5
  <2> HIDE DEF G
  <2> QED
    BY <1>5, <1>6, <1>7, <2>1, CountUp
<1>9. RankedTo(so[N], day, from, to, busy, pinned, S)
  BY <1>5, <1>8
<1> QED
  BY <1>3, <1>9 DEF S, pinned, busy

-----------------------------------------------------------------------------
(* What the plan promises                                                   *)

LEMMA AskedTyped ==
  ASSUME NEW asked \in Asked
  PROVE  asked[1] \in Days /\ asked[2] \in Nat /\ asked[3] \in Nat /\ asked[2] + asked[3] \in Nat
<1>1. asked \in Days \X Nat \X Nat
  BY PackerAssumption
<1> QED
  BY <1>1

\* The packed plan: its tasks are those that can be scheduled, and what is known of
\* each.
LEMMA PackedFacts ==
  ASSUME EInv, NEW day, NEW from \in Nat, NEW to \in Nat
  PROVE  LET plan == Packed(day, from, to)
             out == ToSet(plan.overflow)
             pinned == {rows[i].task : i \in HonouredPins(day)}
         IN  /\ plan \in Plans /\ GivenOnce(plan, from, to, Busy(day, from)) /\ EachOnce(plan)
             /\ Passed(plan, day, out, Helpers(plan, day))
             /\ Substitutes(plan) \subseteq Helpers(plan, day)
             /\ Own(plan) \cup out = Schedulable(day)
             /\ Own(plan) \cap out = {} /\ out \cap pinned = {}
             /\ IsInjective(plan.overflow)
             /\ out \subseteq Tasks /\ Helpers(plan, day) \subseteq Tasks
             /\ \A c \in Helpers(plan, day) : Parent[c] \in out /\ ~TopLevel(c)
<1> DEFINE plan == Packed(day, from, to)
           out == ToSet(plan.overflow)
           pinned == {rows[i].task : i \in HonouredPins(day)}
<1>1. RankedTo(plan, day, from, to, Busy(day, from), pinned, Schedulable(day) \ pinned)
  BY PackedHolds
<1>2. /\ EntriesTypeOK /\ pinned \subseteq Schedulable(day) /\ Schedulable(day) \subseteq Tasks
      /\ \A t \in Schedulable(day) : TopLevel(t) /\ Active(t)
  BY PinFacts DEF EInv, TopLevel
<1> HIDE DEF plan, pinned
<1>3. out \subseteq Schedulable(day) \ pinned /\ Own(plan) \cup out = Schedulable(day)
  BY <1>1, <1>2 DEF RankedTo
<1>4. \A t \in out : /\ StandIns(t, day) \in SUBSET Tasks
                     /\ \A c \in StandIns(t, day) : Parent[c] = t /\ ~TopLevel(c)
  <2> TAKE t \in out
  <2>1. t \in Tasks /\ Active(t)
    BY <1>2, <1>3
  <2> QED
    BY <1>2, <2>1, StandInsOf
<1>5. /\ Helpers(plan, day) \subseteq Tasks
      /\ \A c \in Helpers(plan, day) : Parent[c] \in out /\ ~TopLevel(c)
  BY <1>4 DEF Helpers
<1>6. out \subseteq Tasks /\ out \cap pinned = {}
  BY <1>2, <1>3
<1> QED
  BY <1>1, <1>3, <1>5, <1>6 DEF RankedTo, Held, plan, pinned

LEMMA BookedOnce ==
  ASSUME EInv
  PROVE  NoDoubleBooking
<1> SUFFICES ASSUME NEW asked \in Asked
             PROVE  BooksOnce(FocusPlan(asked[1], asked[2], asked[3]), asked[2], asked[2] + asked[3])
  BY DEF NoDoubleBooking
<1> DEFINE day == asked[1]
           opens == asked[2]
           to == opens + asked[3]
           packed == Packed(day, opens, to)
           plan == FocusPlan(day, opens, asked[3])
<1>1. opens \in Nat /\ to \in Nat
  BY AskedTyped
<1>2. plan.scheduled = packed.blocks /\ plan.busy = Busy(day, opens)
  BY DEF FocusPlan
<1> HIDE DEF plan, opens, day, to
<1>3. GivenOnce(packed, opens, to, Busy(day, opens))
  BY <1>1, PackedFacts
<1>4. {b \in plan.scheduled : b.kind # "timed"} = Moved(packed)
  BY <1>2 DEF Moved
<1> HIDE DEF packed
<1> QED
  BY <1>2, <1>3, <1>4 DEF BooksOnce, GivenOnce, plan, opens, to, day

LEMMA RankKept ==
  ASSUME EInv
  PROVE  RankIsHonoured
<1> SUFFICES ASSUME NEW asked \in Asked
             PROVE  HonoursRank(FocusPlan(asked[1], asked[2], asked[3]), asked[1], asked[2],
                                asked[2] + asked[3])
  BY DEF RankIsHonoured
<1> DEFINE day == asked[1]
           opens == asked[2]
           to == opens + asked[3]
           packed == Packed(day, opens, to)
           plan == FocusPlan(day, opens, asked[3])
           out == ToSet(plan.overflow)
           left == out \cup ((UNION {StandIns(t, day) : t \in out}) \ {b.task : b \in plan.scheduled})
           free(from, till) == /\ \A b \in plan.scheduled : b.end <= from \/ till <= b.start
                               /\ \A b \in plan.busy : b[2] <= from \/ till <= b[1]
<1>1. opens \in Nat /\ to \in Nat /\ EntriesTypeOK
  BY AskedTyped DEF EInv
<1>2. plan.scheduled = packed.blocks /\ plan.busy = Busy(day, opens) /\ plan.overflow = packed.overflow
  BY DEF FocusPlan
<1> HIDE DEF plan, opens, day, to
<1>3. /\ packed \in Plans /\ GivenOnce(packed, opens, to, Busy(day, opens))
      /\ Passed(packed, day, out, Helpers(packed, day))
      /\ out \subseteq Tasks /\ Helpers(packed, day) \subseteq Tasks
  BY <1>1, <1>2, PackedFacts
<1>4. Helpers(packed, day) = UNION {StandIns(t, day) : t \in out}
  BY <1>2 DEF Helpers
<1> HIDE DEF packed
<1>5. \A t \in out, b \in plan.scheduled :
        b.kind = "ranked" /\ Precedes(RankKey(t, day), RankKey(b.task, day))
          => Minutes(b.task) < Minutes(t)
  BY <1>2, <1>3 DEF Passed
<1>6. \A t \in left : t \in Tasks /\ Full(packed, t)
  <2> SUFFICES ASSUME NEW t \in left PROVE t \in Tasks /\ Full(packed, t)
    OBVIOUS
  <2>1. CASE t \in out
    BY <1>3, <2>1 DEF Passed
  <2>2. CASE t \in Helpers(packed, day) /\ t \notin {b.task : b \in packed.blocks}
    BY <1>3, <2>2 DEF Passed
  <2>3. t \in out \/ (t \in Helpers(packed, day) /\ t \notin {b.task : b \in packed.blocks})
    BY <1>2, <1>4
  <2> QED
    BY <2>1, <2>2, <2>3
<1> HIDE DEF out, left
<1>7. ASSUME NEW t \in left, NEW from \in opens..to, from + Minutes(t) <= to
      PROVE  ~free(from, from + Minutes(t))
  <2> SUFFICES ASSUME free(from, from + Minutes(t)) PROVE FALSE
    OBVIOUS
  <2> DEFINE till == from + Minutes(t)
  <2>1. Minutes(t) \in Nat \ {0} /\ Full(packed, t)
    BY <1>1, <1>6, MinutesTyped
  <2>2. from \in Nat /\ till \in Nat /\ opens <= from /\ from < till /\ till <= to
    BY <1>1, <1>7, <2>1
  <2>3. /\ \A b \in packed.blocks : b.end <= from \/ till <= b.start
        /\ \A b \in Busy(day, opens) : b[2] <= from \/ till <= b[1]
    BY <1>2
  <2> HIDE DEF till
  <2>4. \A c \in Given(packed, Busy(day, opens)) : Beside(from, till, c)
    <3> TAKE c \in Given(packed, Busy(day, opens))
    <3>1. CASE c \in Busy(day, opens)
      BY <2>3, <3>1 DEF Beside
    <3>2. CASE \E b \in Moved(packed) : c = Time(b)
      <4>1. PICK b \in Moved(packed) : c = Time(b)
        BY <3>2
      <4>2. b \in packed.blocks /\ c[1] = b.start /\ c[2] = b.end
        BY <1>3, <4>1, PlanFields, BlockFields
      <4> QED
        BY <2>3, <4>2 DEF Beside
    <3> QED
      BY <3>1, <3>2 DEF Given
  <2>5. FreeTime(packed.gaps, opens, to, Given(packed, Busy(day, opens)))
    BY <1>3 DEF GivenOnce
  <2>6. PICK g \in packed.gaps : g[1] <= from /\ till <= g[2]
    BY <2>2, <2>4, <2>5 DEF FreeTime
  <2>7. g[1] \in Nat /\ g[2] \in Nat /\ ~(g[2] - g[1] >= Minutes(t))
    BY <1>3, <2>1, PlanFields DEF Full, Fits
  <2> QED
    BY ONLY <2>1, <2>2, <2>6, <2>7 DEF till
<1> QED
  BY <1>5, <1>7 DEF HonoursRank, left, out, plan, opens, to, day

LEMMA AllAccountedFor ==
  ASSUME EInv
  PROVE  NothingLost
<1> SUFFICES ASSUME NEW asked \in Asked
             PROVE  LosesNothing(FocusPlan(asked[1], asked[2], asked[3]), asked[1], asked[2])
  BY DEF NothingLost
<1> DEFINE day == asked[1]
           opens == asked[2]
           to == opens + asked[3]
           packed == Packed(day, opens, to)
           plan == FocusPlan(day, opens, asked[3])
           own == {b \in plan.scheduled : b.kind # "standin"}
           stand == plan.scheduled \ own
           shown == {c.id : c \in plan.commitments}
           out == ToSet(plan.overflow)
<1>1. opens \in Nat /\ to \in Nat /\ EntriesTypeOK
  BY AskedTyped DEF EInv
<1>2. /\ plan.scheduled = packed.blocks /\ plan.overflow = packed.overflow
      /\ plan.commitments = Commitments(day, opens) /\ plan.skipped = Skipped(day, opens)
      /\ plan.blocked = Source(day) \ Schedulable(day)
  BY DEF FocusPlan, Source, Schedulable, CanSchedule
<1> HIDE DEF plan, opens, day, to
<1>3a. out = ToSet(packed.overflow)
  BY <1>2
<1> HIDE DEF out
<1>3. /\ EachOnce(packed) /\ IsInjective(packed.overflow)
      /\ Substitutes(packed) \subseteq Helpers(packed, day)
      /\ Own(packed) \cup out = Schedulable(day) /\ Own(packed) \cap out = {}
      /\ out \cap {rows[i].task : i \in HonouredPins(day)} = {}
      /\ \A c \in Helpers(packed, day) : Parent[c] \in out /\ ~TopLevel(c)
  BY <1>1, <1>3a, PackedFacts
<1> HIDE DEF packed
<1>4. /\ {b.task : b \in own} = Own(packed) /\ {b.task : b \in stand} = Substitutes(packed)
      /\ {b.task : b \in plan.scheduled} = Own(packed) \cup Substitutes(packed)
  BY <1>2 DEF Own, Substitutes
<1> HIDE DEF own, stand
<1>5. Schedulable(day) \subseteq Source(day) /\ \A t \in Source(day) : TopLevel(t)
  BY PinFacts
<1>6. \A b, c \in plan.scheduled : b.task = c.task => b = c
  BY <1>2, <1>3 DEF EachOnce
<1>7. /\ {b.task : b \in own} \cup out \cup plan.blocked = Source(day)
      /\ {b.task : b \in own} \cap out = {}
      /\ plan.blocked \cap {b.task : b \in plan.scheduled} = {}
  BY <1>2, <1>3, <1>4, <1>5
<1>8. \A b \in stand : Parent[b.task] \in out
  <2> TAKE b \in stand
  <2>1. b.task \in Substitutes(packed)
    BY <1>4
  <2> QED
    BY <1>3, <2>1
<1>9. \A i \in LivePins(day) : rows[i].task \notin out
  <2> SUFFICES ASSUME NEW i \in LivePins(day), rows[i].task \in out PROVE FALSE
    OBVIOUS
  <2>1. i \in HonouredPins(day)
    BY <1>3 DEF HonouredPins, Schedulable
  <2> QED
    BY <1>3, <2>1
<1>10. shown \cap plan.skipped = {}
  <2> SUFFICES ASSUME NEW c \in Commitments(day, opens), c.id \in Skipped(day, opens) PROVE FALSE
    BY <1>2
  <2> DEFINE s == c.id
  <2>1. s \in DaySeries(day) /\ c \in DayCommitments(day)
    BY DEF Skipped, SkippedCommitments, Commitments
  <2>2. PICK x \in LiveExceptions(s, day) : IsSkip(rows[x])
    BY DEF Skipped, SkippedCommitments
  <2>3. CASE \E i \in LiveRows : c = [id |-> i, shown |-> i] /\ IsOneOff(rows[i])
    BY <2>1, <2>3 DEF DaySeries, IsSeries, IsOneOff
  <2>4. CASE \E i \in DaySeries(day) : c = [id |-> i, shown |-> i] /\ LiveExceptions(i, day) = {}
    BY <2>2, <2>4
  <2>5. CASE \E i \in DaySeries(day) : \E y \in LiveExceptions(i, day) :
               c = [id |-> i, shown |-> y] /\ IsOverride(rows[y])
    <3>1. PICK y \in LiveExceptions(s, day) : IsOverride(rows[y])
      BY <2>5
    <3>2. x # y
      BY <2>2, <3>1 DEF IsSkip, IsOverride
    <3>3. x \in LiveRows /\ y \in LiveRows /\ rows[x].day = rows[y].day
          /\ rows[x].series = rows[y].series
      BY DEF LiveExceptions
    <3>4. rows[x].series # None
      BY <2>2 DEF IsSkip
    <3>5. Apart(rows[x], rows[y])
      BY <3>2, <3>3, AcceptsMeans DEF EInv
    <3> QED
      BY <3>3, <3>4, <3>5 DEF Apart
  <2> HIDE DEF s
  <2> QED
    BY <2>1, <2>3, <2>4, <2>5 DEF DayCommitments
<1>11. \A s \in DaySeries(day) : LiveExceptions(s, day) = {} /\ Ends(s) > opens => s \in shown
  <2> SUFFICES ASSUME NEW s \in DaySeries(day), LiveExceptions(s, day) = {}, Ends(s) > opens
               PROVE  s \in shown
    OBVIOUS
  <2> DEFINE c == [id |-> s, shown |-> s]
  <2>1. c \in DayCommitments(day)
    BY DEF DayCommitments
  <2>2. c \in Commitments(day, opens) /\ c.id = s
    BY <2>1 DEF Commitments
  <2> QED
    BY <1>2, <2>2
<1> HIDE DEF shown
<1>12. IsInjective(plan.overflow)
  BY <1>2, <1>3
<1> QED
  BY <1>6, <1>7, <1>8, <1>9, <1>10, <1>11, <1>12 DEF LosesNothing, shown, stand, own, out, plan, opens, day

\* Every open top-level task not put off past the day is scheduled, over or blocked,
\* whatever the tasks, pins, commitments and window: get_focus_plan loses no work.
THEOREM PlanLosesNothing == Spec => []NothingLost
<1>1. EInv => NothingLost
  BY AllAccountedFor
<1> QED
  BY <1>1, Invariant, PTL

\* No minute is given to two blocks that the packer places, and none that a commitment
\* or a timed pin has: _free_gaps, _place and _pack.
THEOREM PlanBooksOnce == Spec => []NoDoubleBooking
<1>1. EInv => NoDoubleBooking
  BY BookedOnce
<1> QED
  BY <1>1, Invariant, PTL

\* What overflows fitted nowhere, and nothing that ranks lower and is as long was placed:
\* the ranking loop of _pack.
THEOREM PlanHonoursRank == Spec => []RankIsHonoured
<1>1. EInv => RankIsHonoured
  BY RankKept
<1> QED
  BY <1>1, Invariant, PTL
=============================================================================
