-------------------------- MODULE TaskUndo_proofs --------------------------
(***************************************************************************)
(* The Undo of a restore and the bulk purges, for any store, any receipt and *)
(* any mix of requests in between: what they leave is what every request     *)
(* finds, an Undo is the inverse of its restore, and the counts a user       *)
(* confirms are what happens.                                               *)
(*                                                                          *)
(* A bulk purge is a recursion over the selected rows.  It has a closed form: *)
(* the rows that go are the trashed subtrees of the selected ones, read       *)
(* before the first of them is destroyed.                                    *)
(*                                                                          *)
(* The invariant adds to the store's what a receipt promises while the log    *)
(* accepts it: that its rows are live, and that no other row would come back  *)
(* with its root.  The second part asks of each request which rows it marks   *)
(* as taken by a row that it leaves alone: none.                             *)
(***************************************************************************)
EXTENDS TaskUndo, TaskSteps_proofs

-----------------------------------------------------------------------------
(* What a purge takes                                                       *)

\* The trashed rows filed where t is, and their nesting.
Folder(S, t) == {u \in Trashed(S) : S.task[u].project = S.task[t].project}

Nested(S, t) == {e \in StoredNesting(S) : e[1] \in Folder(S, t) /\ e[2] \in Folder(S, t)}

LEMMA PurgeSetFacts ==
  ASSUME NEW S, NEW t \in Trashed(S)
  PROVE  /\ PurgeSet(S, t) = Reach(Nested(S, t), {t})
         /\ t \in PurgeSet(S, t) /\ PurgeSet(S, t) \subseteq Folder(S, t)
         /\ Closed(Nested(S, t), PurgeSet(S, t))
<1>1. PurgeSet(S, t) = Reach(Nested(S, t), {t})
  BY DEF PurgeSet, Nested, Folder
<1>2. /\ Folder(S, t) \in SUBSET TaskId /\ {t} \subseteq Folder(S, t) /\ {t} \in SUBSET TaskId
      /\ Closed(Nested(S, t), Folder(S, t))
  BY DEF Folder, Trashed, Closed, Nested
<1>3. Nested(S, t) \in SUBSET (TaskId \X TaskId)
  BY <1>2 DEF Nested, StoredNesting
<1> QED
  BY <1>1, <1>2, <1>3, ReachLeast, ReachHolds, ReachClosed

\* A row that goes takes along whatever it would take by itself.
LEMMA PurgeSetGrows ==
  ASSUME NEW S, NEW t \in Trashed(S), NEW u \in PurgeSet(S, t)
  PROVE  u \in Trashed(S) /\ PurgeSet(S, u) \subseteq PurgeSet(S, t)
<1>1. u \in Trashed(S) /\ Folder(S, u) = Folder(S, t)
  BY PurgeSetFacts DEF Folder
<1>2. Nested(S, u) = Nested(S, t)
  BY <1>1 DEF Nested
<1>3. PurgeSet(S, t) \in SUBSET TaskId /\ {u} \subseteq PurgeSet(S, t)
  BY PurgeSetFacts DEF Folder, Trashed
<1>4. Closed(Nested(S, u), PurgeSet(S, t)) /\ PurgeSet(S, u) = Reach(Nested(S, u), {u})
  BY <1>1, <1>2, PurgeSetFacts
<1> HIDE DEF Folder
<1>5. Reach(Nested(S, u), {u}) \subseteq PurgeSet(S, t)
  BY <1>3, <1>4, ReachLeast
<1> QED
  BY <1>1, <1>4, <1>5

\* What the rows A take between them.
Swept(S, A) == UNION {PurgeSet(S, t) : t \in A}

LEMMA SweptTrash ==
  ASSUME NEW S, NEW A \in SUBSET Trashed(S)
  PROVE  Swept(S, A) \in SUBSET Trashed(S) /\ A \subseteq Swept(S, A)
  BY PurgeSetFacts DEF Swept, Folder

LEMMA SweptClosed ==
  ASSUME NEW S, NEW A \in SUBSET Trashed(S), NEW u \in Swept(S, A)
  PROVE  PurgeSet(S, u) \subseteq Swept(S, A)
  BY PurgeSetGrows DEF Swept

-----------------------------------------------------------------------------
(* What a purge leaves                                                      *)

ClearedRef(ref, A) == IF ref \in A THEN None ELSE ref

PurgedRow(row, A) == Cleared(row, ClearedRef(row.parent, A), ClearedRef(row.dwt, A))

PurgedRows(T, A) == [t \in TaskId |-> IF t \in A THEN NoRow ELSE PurgedRow(T[t], A)]

PurgedEdges(D, A) == {e \in D : e[1] \notin A /\ e[2] \notin A}

LEMMA PurgedRowShape ==
  ASSUME NEW row \in Row, NEW A
  PROVE  LET new == PurgedRow(row, A)
         IN  /\ new \in Row /\ new.parent = ClearedRef(row.parent, A)
             /\ new.dwt = ClearedRef(row.dwt, A)
             /\ new.state = row.state /\ new.project = row.project
             /\ new.due = row.due /\ new.repeat = row.repeat /\ new.series = row.series
             /\ new.dwp = row.dwp /\ new.skipped = row.skipped
             /\ new.superseded = row.superseded
<1> DEFINE q == ClearedRef(row.parent, A)
           by == ClearedRef(row.dwt, A)
<1>1. q \in TaskId \cup {None} /\ by \in TaskId \cup {None}
  BY DEF ClearedRef, Row
<1> HIDE DEF q, by
<1>2. LET new == Cleared(row, q, by)
      IN  /\ new \in Row /\ new.parent = q /\ new.dwt = by
          /\ new.state = row.state /\ new.project = row.project
          /\ new.due = row.due /\ new.repeat = row.repeat /\ new.series = row.series
          /\ new.dwp = row.dwp /\ new.skipped = row.skipped
          /\ new.superseded = row.superseded
  BY <1>1, ClearedShape
<1> QED
  BY <1>2 DEF PurgedRow, q, by

LEMMA PurgedFacts ==
  ASSUME NEW S \in Store, NEW A \in SUBSET TaskId
  PROVE  /\ Purged(S, A) = Rec(PurgedRows(S.task, A), PurgedEdges(S.dep, A), S.project)
         /\ Purged(S, A) \in Store
         /\ Purged(S, A).task = PurgedRows(S.task, A)
         /\ Purged(S, A).dep = PurgedEdges(S.dep, A)
         /\ Purged(S, A).project = S.project
<1> DEFINE T == PurgedRows(S.task, A)
           D == PurgedEdges(S.dep, A)
           cleared(ref) == IF ref \in A THEN None ELSE ref
           U == [t \in TaskId |->
                   IF t \in A THEN NoRow
                   ELSE [S.task[t] EXCEPT !.parent = cleared(@), !.dwt = cleared(@)]]
<1>1. Purged(S, A) = [S EXCEPT !.task = U, !.dep = D]
  BY DEF Purged, PurgedEdges
<1>2. U = T
  BY DEF PurgedRows, PurgedRow, Cleared, ClearedRef
<1>3. \A t \in TaskId : T[t] \in Row
  <2> SUFFICES ASSUME NEW t \in TaskId PROVE T[t] \in Row
    OBVIOUS
  <2>1. T[t] = IF t \in A THEN NoRow ELSE PurgedRow(S.task[t], A)
    BY DEF PurgedRows
  <2>2. S.task[t] \in Row
    BY DEF Store
  <2> HIDE DEF T
  <2> QED
    BY <2>1, <2>2, PurgedRowShape, NoRowType
<1>4. T \in [TaskId -> Row]
  BY <1>3 DEF PurgedRows
<1>5. D \in SUBSET (TaskId \X TaskId) /\ S.project \in [ProjectId -> Lifecycle]
  BY DEF PurgedEdges, Store
<1> HIDE DEF T, D, U
<1>6. Purged(S, A) = Rec(T, D, S.project)
  BY <1>1, <1>2 DEF Rec, Store
<1>7. Rec(T, D, S.project) \in Store
  BY <1>4, <1>5 DEF Rec, Store
<1> QED
  BY <1>6, <1>7 DEF Rec, T, D

\* One row of what is left.
LEMMA PurgedAt ==
  ASSUME NEW S \in Store, NEW A \in SUBSET TaskId, NEW t \in TaskId
  PROVE  /\ t \in A => Purged(S, A).task[t] = NoRow
         /\ t \notin A => Purged(S, A).task[t] = PurgedRow(S.task[t], A)
         /\ S.task[t] \in Row
<1>1. Purged(S, A).task = PurgedRows(S.task, A)
  BY PurgedFacts
<1>2. PurgedRows(S.task, A)[t] = IF t \in A THEN NoRow ELSE PurgedRow(S.task[t], A)
  BY DEF PurgedRows
<1> QED
  BY <1>1, <1>2 DEF Store

LEMMA PurgedTrash ==
  ASSUME NEW S \in Store, NEW A \in SUBSET TaskId
  PROVE  /\ Trashed(Purged(S, A)) = Trashed(S) \ A
         /\ Rows(Purged(S, A)) = Rows(S) \ A
<1>1. ASSUME NEW t \in TaskId
      PROVE  /\ t \in A => Purged(S, A).task[t].state = "none"
             /\ t \notin A => Purged(S, A).task[t].state = S.task[t].state
  BY PurgedAt, PurgedRowShape, NoRowType
<1> QED
  BY <1>1 DEF Trashed, Rows

\* Nothing to purge, nothing changes.
LEMMA PurgedNothing ==
  ASSUME NEW S \in Store
  PROVE  Purged(S, {}) = S
<1>1. ASSUME NEW row \in Row
      PROVE  PurgedRow(row, {}) = row
  <2>1. ClearedRef(row.parent, {}) = row.parent /\ ClearedRef(row.dwt, {}) = row.dwt
    BY DEF ClearedRef
  <2> QED
    BY <2>1 DEF PurgedRow, Cleared, Row
<1>2. S.task \in [TaskId -> Row] /\ S = Rec(S.task, S.dep, S.project)
  BY DEF Store, Rec
<1>3. PurgedRows(S.task, {}) = S.task
  BY <1>1, <1>2 DEF PurgedRows
<1>4. PurgedEdges(S.dep, {}) = S.dep
  BY DEF PurgedEdges
<1>5. {} \in SUBSET TaskId
  OBVIOUS
<1> QED
  BY <1>2, <1>3, <1>4, <1>5, PurgedFacts

\* One purge after another is one purge.
LEMMA PurgedTwice ==
  ASSUME NEW S \in Store, NEW A \in SUBSET TaskId, NEW B \in SUBSET TaskId
  PROVE  Purged(Purged(S, A), B) = Purged(S, A \cup B)
<1> DEFINE T == Purged(S, A)
<1>1. None \notin B
  BY RowBounds DEF TaskId, None
<1>2. \A ref : ClearedRef(ClearedRef(ref, A), B) = ClearedRef(ref, A \cup B)
  BY <1>1 DEF ClearedRef
<1>3. ASSUME NEW row \in Row
      PROVE  PurgedRow(PurgedRow(row, A), B) = PurgedRow(row, A \cup B)
  <2> DEFINE new == PurgedRow(row, A)
  <2>1. /\ new.parent = ClearedRef(row.parent, A) /\ new.dwt = ClearedRef(row.dwt, A)
    BY PurgedRowShape
  <2>2. PurgedRow(new, B) = Cleared(new, ClearedRef(row.parent, A \cup B),
                                         ClearedRef(row.dwt, A \cup B))
    BY <1>2, <2>1 DEF PurgedRow
  <2>3. \A a, b, c, d : Cleared(Cleared(row, a, b), c, d) = Cleared(row, c, d)
    BY DEF Cleared, Row
  <2> QED
    BY <2>2, <2>3 DEF PurgedRow
<1>4. PurgedRow(NoRow, B) = NoRow
  <2>1. NoRow \in Row /\ NoRow.parent = None /\ NoRow.dwt = None
    BY NoRowType DEF NoRow
  <2>2. PurgedRow(NoRow, B) = Cleared(NoRow, None, None)
    BY <1>1, <2>1 DEF PurgedRow, ClearedRef
  <2> QED
    BY <2>1, <2>2 DEF Cleared, NoRow
<1>5. T \in Store /\ S.task \in [TaskId -> Row]
  BY PurgedFacts DEF Store
<1>6. PurgedRows(T.task, B) = PurgedRows(S.task, A \cup B)
  <2>1. T.task = PurgedRows(S.task, A)
    BY PurgedFacts
  <2>2. \A t \in TaskId : S.task[t] \in Row
    BY <1>5
  <2> QED
    BY <1>3, <1>4, <2>1, <2>2 DEF PurgedRows
<1>7. PurgedEdges(T.dep, B) = PurgedEdges(S.dep, A \cup B) /\ T.project = S.project
  <2>1. T.dep = PurgedEdges(S.dep, A) /\ T.project = S.project
    BY PurgedFacts
  <2> QED
    BY <2>1 DEF PurgedEdges
<1> HIDE DEF T
<1>8. Purged(T, B) = Rec(PurgedRows(T.task, B), PurgedEdges(T.dep, B), T.project)
  BY <1>5, PurgedFacts
<1>9. Purged(S, A \cup B) = Rec(PurgedRows(S.task, A \cup B), PurgedEdges(S.dep, A \cup B), S.project)
  <2>1. A \cup B \in SUBSET TaskId
    OBVIOUS
  <2> QED
    BY <2>1, PurgedFacts
<1> QED
  BY <1>6, <1>7, <1>8, <1>9 DEF T

-----------------------------------------------------------------------------
(* A bulk purge in closed form                                              *)

\* A row that is left takes, of the rows that are left, what it took before.
LEMMA PurgeSetAfter ==
  ASSUME NEW S \in Store, NEW A \in SUBSET Trashed(S),
         NEW n \in Trashed(Purged(S, Swept(S, A)))
  PROVE  /\ n \in Trashed(S)
         /\ PurgeSet(Purged(S, Swept(S, A)), n) \cup Swept(S, A)
              = PurgeSet(S, n) \cup Swept(S, A)
<1> DEFINE U == Swept(S, A)
           T == Purged(S, U)
           new == PurgeSet(T, n)
           old == PurgeSet(S, n)
<1>1. U \in SUBSET Trashed(S) /\ U \in SUBSET TaskId
  BY SweptTrash DEF Trashed
<1>2. ASSUME NEW t \in U
      PROVE  \E a \in Trashed(S) : t \in PurgeSet(S, a) /\ PurgeSet(S, a) \subseteq U
  BY DEF Swept
<1> HIDE DEF U
<1>3. T \in Store /\ Trashed(T) = Trashed(S) \ U /\ Rows(T) = Rows(S) \ U
  BY <1>1, PurgedFacts, PurgedTrash
<1>4. n \in Trashed(S) /\ n \in Trashed(T) /\ n \notin U
  BY <1>3 DEF U
<1>5. ASSUME NEW t \in Rows(T)
      PROVE  /\ T.task[t].project = S.task[t].project
             /\ T.task[t].parent = ClearedRef(S.task[t].parent, U)
             /\ t \in Rows(S) /\ t \notin U
  <2>1. t \in Rows(S) /\ t \notin U /\ t \in TaskId
    BY <1>3 DEF Rows
  <2>2. T.task[t] = PurgedRow(S.task[t], U) /\ S.task[t] \in Row
    BY <1>1, <2>1, PurgedAt
  <2> QED
    BY <2>1, <2>2, PurgedRowShape
<1> HIDE DEF T
<1>6. /\ Trashed(T) \subseteq Rows(T) /\ Trashed(S) \subseteq Rows(S)
      /\ Trashed(S) \subseteq TaskId
  BY DEF Trashed, Rows
<1>7. Folder(T, n) = Folder(S, n) \ U
  BY <1>3, <1>4, <1>5, <1>6 DEF Folder
<1>8. None \notin TaskId
  BY RowBounds DEF TaskId, None
<1>9. Nested(T, n) \subseteq Nested(S, n)
  <2> SUFFICES ASSUME NEW e \in Nested(T, n)
               PROVE  e \in Nested(S, n)
    OBVIOUS
  <2>1. e[1] \in Folder(S, n) /\ e[2] \in Folder(S, n)
    BY <1>7 DEF Nested
  <2>2. PICK c \in Rows(T) : T.task[c].parent # None /\ e = <<T.task[c].parent, c>>
    BY DEF Nested, StoredNesting
  <2>3. T.task[c].parent = S.task[c].parent /\ c \in Rows(S)
    BY <1>5, <2>2 DEF ClearedRef
  <2>4. e \in StoredNesting(S)
    BY <2>2, <2>3 DEF StoredNesting
  <2> QED
    BY <2>1, <2>4 DEF Nested
<1>10. ASSUME NEW e \in Nested(S, n), e[1] \notin U, e[2] \notin U
       PROVE  e \in Nested(T, n)
  <2>1. e[1] \in Folder(T, n) /\ e[2] \in Folder(T, n)
    BY <1>7, <1>10 DEF Nested
  <2>2. PICK c \in Rows(S) : S.task[c].parent # None /\ e = <<S.task[c].parent, c>>
    BY DEF Nested, StoredNesting
  <2>3. c \in Rows(T) /\ T.task[c].parent = S.task[c].parent
    BY <1>3, <1>5, <1>10, <2>2 DEF ClearedRef
  <2>4. e \in StoredNesting(T)
    BY <2>2, <2>3 DEF StoredNesting
  <2> QED
    BY <2>1, <2>4 DEF Nested
<1>11. /\ new = Reach(Nested(T, n), {n}) /\ n \in new /\ new \subseteq Folder(T, n)
       /\ Closed(Nested(T, n), new)
  BY <1>4, PurgeSetFacts
<1>12. /\ old = Reach(Nested(S, n), {n}) /\ n \in old /\ old \subseteq Folder(S, n)
       /\ Closed(Nested(S, n), old)
  BY <1>4, PurgeSetFacts
<1>13. Folder(S, n) \subseteq TaskId /\ Folder(T, n) \subseteq TaskId
  BY DEF Folder, Trashed
<1> HIDE DEF new, old
<1>14. new \subseteq old
  <2>1. Closed(Nested(T, n), old) /\ old \in SUBSET TaskId /\ {n} \subseteq old
    BY <1>9, <1>12, <1>13 DEF Closed
  <2> QED
    BY <1>11, <2>1, ReachLeast
<1>15. old \subseteq new \cup U
  <2>1. new \cup U \in SUBSET TaskId /\ {n} \subseteq new \cup U
    BY <1>1, <1>11, <1>13
  <2>2. Closed(Nested(S, n), new \cup U)
    <3> SUFFICES ASSUME NEW e \in Nested(S, n), e[1] \in new \cup U, e[2] \notin U
                 PROVE  e[2] \in new
      BY DEF Closed
    <3>1. CASE e[1] \in U
      <4>1. PICK a \in Trashed(S) : e[1] \in PurgeSet(S, a) /\ PurgeSet(S, a) \subseteq U
        BY <1>2, <3>1
      <4>2. e[1] \in Folder(S, a) /\ Closed(Nested(S, a), PurgeSet(S, a))
        BY <4>1, PurgeSetFacts
      <4>3. e[1] \in Folder(S, n) /\ e[2] \in Folder(S, n) /\ e \in StoredNesting(S)
        BY DEF Nested
      <4>4. e \in Nested(S, a)
        BY <4>2, <4>3 DEF Nested, Folder
      <4> QED
        BY <4>1, <4>2, <4>4 DEF Closed
    <3>2. CASE e[1] \notin U
      BY <1>10, <1>11, <3>2 DEF Closed
    <3> QED
      BY <3>1, <3>2
  <2> QED
    BY <1>12, <2>1, <2>2, ReachLeast
<1> QED
  BY <1>4, <1>14, <1>15 DEF new, old, T, U

\* The selected rows up to an id.
UpTo(A, n) == {t \in A : t <= n}

PurgeNext(T, A, n) ==
  IF n \in A \cap Trashed(T) THEN Purged(T, PurgeSet(T, n)) ELSE T

LEMMA PurgedOneMore ==
  ASSUME NEW S \in Store, NEW A \in SUBSET Trashed(S), NEW n \in TaskId
  PROVE  PurgeNext(Purged(S, Swept(S, UpTo(A, n - 1))), A, n)
           = Purged(S, Swept(S, UpTo(A, n)))
<1> DEFINE B == UpTo(A, n - 1)
           U == Swept(S, B)
           T == Purged(S, U)
<1>1. B \in SUBSET Trashed(S) /\ A \subseteq TaskId
  BY DEF UpTo, Trashed
<1>2. U \in SUBSET Trashed(S) /\ U \in SUBSET TaskId
  BY <1>1, SweptTrash DEF Trashed
<1>3. UpTo(A, n) = IF n \in A THEN B \cup {n} ELSE B
  <2>1. n \in Int /\ \A t \in A : t \in Int
    BY <1>1, RowBounds DEF TaskId
  <2>2. \A t \in A : t <= n <=> t <= n - 1 \/ t = n
    BY <2>1
  <2> QED
    BY <2>1, <2>2 DEF UpTo
<1> HIDE DEF B
<1>4. Swept(S, B \cup {n}) = U \cup PurgeSet(S, n)
  BY DEF Swept
<1>5. Trashed(T) = Trashed(S) \ U
  BY <1>2, PurgedTrash
<1> SUFFICES PurgeNext(T, A, n) = Purged(S, Swept(S, UpTo(A, n)))
  BY DEF B
<1>6. CASE n \notin A
  <2>1. PurgeNext(T, A, n) = T
    BY <1>6 DEF PurgeNext
  <2> QED
    BY <1>3, <1>6, <2>1
<1>7. CASE n \in A /\ n \in Trashed(T)
  <2>1. PurgeNext(T, A, n) = Purged(T, PurgeSet(T, n))
    BY <1>7 DEF PurgeNext
  <2>2. PurgeSet(T, n) \cup U = PurgeSet(S, n) \cup U
    BY <1>1, <1>7, PurgeSetAfter
  <2>3. PurgeSet(T, n) \in SUBSET TaskId
    BY <1>7, PurgeSetFacts DEF Folder, Trashed
  <2>4. Purged(T, PurgeSet(T, n)) = Purged(S, U \cup PurgeSet(T, n))
    BY <1>2, <2>3, PurgedTwice
  <2> HIDE DEF U, T
  <2>5. U \cup PurgeSet(T, n) = Swept(S, UpTo(A, n))
    BY <1>3, <1>4, <1>7, <2>2
  <2> QED
    BY <2>1, <2>4, <2>5
<1>8. CASE n \in A /\ n \notin Trashed(T)
  <2>1. n \in U
    BY <1>5, <1>8
  <2>2. PurgeSet(S, n) \subseteq U
    BY <1>1, <2>1, SweptClosed
  <2>3. Swept(S, UpTo(A, n)) = U
    BY <1>3, <1>4, <1>8, <2>2
  <2>4. PurgeNext(T, A, n) = T
    BY <1>8 DEF PurgeNext
  <2> QED
    BY <2>3, <2>4
<1> QED
  BY <1>6, <1>7, <1>8

\* purge_task for each row in turn takes what the rows take between them.
LEMMA InTurnPurged ==
  ASSUME NEW S \in Store, NEW A \in SUBSET Trashed(S)
  PROVE  PurgedInTurn(S, A) = Purged(S, Swept(S, A))
<1> DEFINE of(f, n) == IF n = 0 THEN S ELSE PurgeNext(f[n - 1], A, n)
           after[n \in 0..MaxTasks] ==
             IF n = 0 THEN S
             ELSE LET T == after[n - 1]
                  IN  IF n \in A \cap Trashed(T) THEN Purged(T, PurgeSet(T, n)) ELSE T
           closed == [n \in 0..MaxTasks |-> Purged(S, Swept(S, UpTo(A, n)))]
<1>1. PurgedInTurn(S, A) = after[MaxTasks]
  BY DEF PurgedInTurn
<1>2. A \subseteq TaskId /\ MaxTasks \in Nat
  BY RowBounds DEF Trashed
<1>3. UpTo(A, 0) = {} /\ UpTo(A, MaxTasks) = A
  <2>1. \A t \in A : t \in Int /\ 1 <= t /\ t <= MaxTasks
    BY <1>2 DEF TaskId
  <2> QED
    BY <2>1 DEF UpTo
<1>4. Purged(S, Swept(S, UpTo(A, 0))) = S
  <2>1. Swept(S, {}) = {}
    BY DEF Swept
  <2> QED
    BY <1>3, <2>1, PurgedNothing
<1>5. \A n \in 0..MaxTasks : of(closed, n) = closed[n]
  <2> SUFFICES ASSUME NEW n \in 0..MaxTasks PROVE of(closed, n) = closed[n]
    OBVIOUS
  <2>1. CASE n = 0
    BY <1>4, <2>1
  <2>2. CASE n # 0
    <3>1. n \in TaskId /\ n - 1 \in 0..MaxTasks
      BY <1>2, <2>2 DEF TaskId
    <3>2. closed[n - 1] = Purged(S, Swept(S, UpTo(A, n - 1)))
      BY <3>1
    <3>3. PurgeNext(closed[n - 1], A, n) = Purged(S, Swept(S, UpTo(A, n)))
      BY <3>1, <3>2, PurgedOneMore
    <3> QED
      BY <2>2, <3>3
  <2> QED
    BY <2>1, <2>2
<1> DEFINE solves(f) == f = [n \in 0..MaxTasks |-> of(f, n)]
<1>6. solves(closed)
  BY <1>5
<1>7. \A f : [n \in 0..MaxTasks |->
                IF n = 0 THEN S
                ELSE LET T == f[n - 1]
                     IN  IF n \in A \cap Trashed(T) THEN Purged(T, PurgeSet(T, n)) ELSE T]
               = [n \in 0..MaxTasks |-> of(f, n)]
  BY DEF PurgeNext
<1>8. solves(after)
  BY <1>6, <1>7
<1> HIDE DEF after, closed
<1>9. after[MaxTasks] = closed[MaxTasks]
  <2> DEFINE N == {n \in 0..MaxTasks : after[n] # closed[n]}
  <2> SUFFICES N = {}
    BY <1>2
  <2> SUFFICES ASSUME N # {} PROVE FALSE
    OBVIOUS
  <2>1. N \in SUBSET Nat
    BY <1>2
  <2>2. PICK n \in N : \A m \in N : n <= m
    <3> HIDE DEF N
    <3> QED
      BY <2>1, LeastNatural
  <2>3. n # 0 => after[n - 1] = closed[n - 1]
    BY <1>2, <2>2
  <2>4. after[n] = of(after, n) /\ closed[n] = of(closed, n)
    BY <1>6, <1>8
  <2> QED
    BY <2>2, <2>3, <2>4
<1> QED
  BY <1>1, <1>2, <1>3, <1>9 DEF closed

\* The trashed rows filed in the projects P, and what is left of a store once the
\* projects themselves go.
Filed(S, P) == {t \in Trashed(S) : S.task[t].project \in P}

WithoutProjects(T, P) ==
  [T EXCEPT
     !.project = [p \in ProjectId |-> IF p \in P THEN "none" ELSE T.project[p]],
     !.task    = [t \in TaskId |-> IF T.task[t].dwp \in P
                                   THEN [T.task[t] EXCEPT !.dwp = None] ELSE T.task[t]]]

LEMMA RemovedSwept ==
  ASSUME NEW S, NEW A \in SUBSET Trashed(S), NEW P
  PROVE  /\ RemovedTaskIds(S, A, P) = Swept(S, A \cup Filed(S, P))
         /\ A \cup Filed(S, P) \in SUBSET Trashed(S)
         /\ RemovedTaskIds(S, A, P) \in SUBSET Trashed(S)
<1>1. RemovedTaskIds(S, A, P) = Swept(S, A \cup Filed(S, P))
  BY DEF RemovedTaskIds, Swept, Filed
<1>2. A \cup Filed(S, P) \in SUBSET Trashed(S)
  BY DEF Filed
<1> QED
  BY <1>1, <1>2, SweptTrash

\* The projects' rows are read after the selected tasks are gone: it makes no
\* difference to what goes.
LEMMA SweptInTwo ==
  ASSUME NEW S \in Store, NEW A \in SUBSET Trashed(S), NEW P
  PROVE  LET T == Purged(S, Swept(S, A))
         IN  Swept(S, A) \cup Swept(T, Filed(T, P)) = Swept(S, A \cup Filed(S, P))
<1> DEFINE U == Swept(S, A)
           T == Purged(S, U)
           B == Filed(T, P)
           C == Filed(S, P)
<1>1. U \in SUBSET Trashed(S) /\ U \in SUBSET TaskId
  BY SweptTrash DEF Trashed
<1>2. Trashed(T) = Trashed(S) \ U
  BY <1>1, PurgedTrash
<1>3. \A t \in Trashed(T) : T.task[t].project = S.task[t].project
  <2> SUFFICES ASSUME NEW t \in Trashed(T) PROVE T.task[t].project = S.task[t].project
    OBVIOUS
  <2>1. t \in TaskId /\ t \notin U
    BY <1>2 DEF Trashed
  <2>2. T.task[t] = PurgedRow(S.task[t], U) /\ S.task[t] \in Row
    BY <1>1, <2>1, PurgedAt
  <2> QED
    BY <2>2, PurgedRowShape
<1>4. B = C \ U
  BY <1>2, <1>3 DEF Filed
<1>5. C \in SUBSET Trashed(S)
  BY DEF Filed
<1>6. ASSUME NEW b \in B
      PROVE  PurgeSet(T, b) \cup U = PurgeSet(S, b) \cup U
  <2>1. b \in Trashed(T)
    BY DEF Filed
  <2> QED
    BY <2>1, PurgeSetAfter
<1>7. ASSUME NEW b \in C, b \in U
      PROVE  PurgeSet(S, b) \subseteq U
  BY <1>7, SweptClosed
<1>8. Swept(S, A \cup C) = U \cup Swept(S, C)
  BY DEF Swept
<1> HIDE DEF U, T, B, C
<1>9. Swept(T, B) \subseteq U \cup Swept(S, C)
  BY <1>4, <1>6 DEF Swept
<1>10. Swept(S, C) \subseteq U \cup Swept(T, B)
  <2> SUFFICES ASSUME NEW b \in C, NEW x \in PurgeSet(S, b), x \notin U
               PROVE  x \in Swept(T, B)
    BY DEF Swept
  <2>1. b \in B
    BY <1>4, <1>7
  <2>2. x \in PurgeSet(T, b)
    BY <1>6, <2>1
  <2> QED
    BY <2>1, <2>2 DEF Swept
<1>11. U \cup Swept(T, B) = Swept(S, A \cup C)
  BY <1>8, <1>9, <1>10
<1> QED
  BY <1>11 DEF U, T, B, C

LEMMA SelectionPurged ==
  ASSUME NEW S \in Store, NEW A \in SUBSET Trashed(S), NEW P \in SUBSET Purgeable(S)
  PROVE  PurgedSelection(S, A, P) = WithoutProjects(Purged(S, RemovedTaskIds(S, A, P)), P)
<1> DEFINE U == Swept(S, A)
           T == Purged(S, U)
           B == Filed(T, P)
<1>1. A \cap Trashed(S) = A /\ P \cap Purgeable(S) = P
  OBVIOUS
<1>2. PurgedSelection(S, A, P) = ProjectsPurgedInTurn(PurgedInTurn(S, A), P)
  BY <1>1 DEF PurgedSelection
<1>3. PurgedInTurn(S, A) = T
  BY InTurnPurged
<1>4. U \in SUBSET Trashed(S) /\ U \in SUBSET TaskId
  BY SweptTrash DEF Trashed
<1>5. U \cup Swept(T, B) = RemovedTaskIds(S, A, P)
  <2>1. U \cup Swept(T, B) = Swept(S, A \cup Filed(S, P))
    BY SweptInTwo
  <2> QED
    BY <2>1, RemovedSwept
<1> HIDE DEF U
<1>6. T \in Store
  BY <1>4, PurgedFacts
<1>7. B \in SUBSET Trashed(T)
  BY DEF Filed
<1>8. Swept(T, B) \in SUBSET TaskId
  BY <1>7, SweptTrash DEF Trashed
<1>9. PurgedInTurn(T, B) = Purged(T, Swept(T, B))
  BY <1>6, <1>7, InTurnPurged
<1>10. Purged(T, Swept(T, B)) = Purged(S, RemovedTaskIds(S, A, P))
  BY <1>4, <1>5, <1>8, PurgedTwice
<1>11. ProjectsPurgedInTurn(T, P) = WithoutProjects(PurgedInTurn(T, B), P)
  BY DEF ProjectsPurgedInTurn, WithoutProjects, Filed
<1> QED
  BY <1>2, <1>3, <1>9, <1>10, <1>11

\* The rows a bulk purge leaves are those it does not count.
LEMMA SelectionLeaves ==
  ASSUME NEW S \in Store, NEW A \in SUBSET Trashed(S), NEW P \in SUBSET Purgeable(S)
  PROVE  Rows(PurgedSelection(S, A, P)) = Rows(S) \ RemovedTaskIds(S, A, P)
<1> DEFINE R == RemovedTaskIds(S, A, P)
           T == Purged(S, R)
<1>1. R \in SUBSET TaskId
  BY RemovedSwept DEF Trashed
<1>2. T \in Store /\ Rows(T) = Rows(S) \ R
  BY <1>1, PurgedFacts, PurgedTrash
<1> HIDE DEF T
<1>3. \A t \in TaskId : WithoutProjects(T, P).task[t].state = T.task[t].state
  <2> SUFFICES ASSUME NEW t \in TaskId
               PROVE  WithoutProjects(T, P).task[t].state = T.task[t].state
    OBVIOUS
  <2>1. T.task[t] \in Row
    BY <1>2 DEF Store
  <2>2. WithoutProjects(T, P).task[t] = IF T.task[t].dwp \in P THEN Unbound(T.task[t])
                                        ELSE T.task[t]
    BY <1>2 DEF WithoutProjects, Unbound, Store
  <2> QED
    BY <2>1, <2>2, UnboundShape
<1>4. Rows(WithoutProjects(T, P)) = Rows(T)
  BY <1>3 DEF Rows
<1> QED
  BY <1>2, <1>4, SelectionPurged DEF T

-----------------------------------------------------------------------------
(* What the counts and the retention pass promise                           *)

\* A row that a cascade took never goes on its own age while the cascade's root is
\* younger and in the trash: if it goes, a row it is nested under goes.
LEMMA CascadeWaits ==
  ASSUME StoreWired
  PROVE  CascadeWaitsForItsRoot
<1> SUFFICES ASSUME NEW t \in Trashed(db), task[t].dwt \in Trashed(db),
                    NEW old \in SUBSET (Trashed(db) \ {task[t].dwt}), t \in old,
                    t \notin Rows(PurgedSelection(db, ExpiredTaskRoots(db, old), {}))
             PROVE  \E u \in old \ {t} : t \in PurgeSet(db, u)
  BY DEF CascadeWaitsForItsRoot
<1> DEFINE A == ExpiredTaskRoots(db, old)
<1>1. db \in Store /\ db.task = task
  BY WiredStore, DbFacts
<1>2. A \subseteq old /\ A \in SUBSET Trashed(db) /\ {} \in SUBSET Purgeable(db)
  BY DEF ExpiredTaskRoots
<1>3. t \notin A
  BY <1>1 DEF ExpiredTaskRoots
<1> HIDE DEF A
<1>4. Rows(PurgedSelection(db, A, {})) = Rows(db) \ RemovedTaskIds(db, A, {})
  BY <1>1, <1>2, SelectionLeaves
<1>5. t \in Rows(db)
  BY DEF Trashed, Rows
<1>6. RemovedTaskIds(db, A, {}) = Swept(db, A \cup Filed(db, {}))
  BY <1>2, RemovedSwept
<1>7. t \in Swept(db, A)
  <2>1. A \cup Filed(db, {}) = A
    BY DEF Filed
  <2>2. t \in RemovedTaskIds(db, A, {})
    BY <1>4, <1>5 DEF A
  <2> QED
    BY <1>6, <2>1, <2>2
<1>8. PICK u \in A : t \in PurgeSet(db, u)
  BY <1>7 DEF Swept
<1> QED
  BY <1>2, <1>3, <1>8

\* Every figure the trash names before a purge is what the purge destroys.
LEMMA CountsAreExact ==
  ASSUME StoreWired
  PROVE  PurgeCountsExact
<1> DEFINE gone(A, P) == Rows(db) \ Rows(PurgedSelection(db, A, P))
<1>1. /\ db \in Store /\ db.task = task /\ db.project = project
      /\ \A t \in TaskId : task[t] \in Row /\ RowSound(task[t], Present(task), project)
      /\ project[General] = "live"
  BY WiredStore, DbFacts DEF WiredDb, Sound
<1>2. Trashed(db) \subseteq Rows(db) /\ Trashed(db) \subseteq TaskId
  BY DEF Trashed, Rows
<1>3. ASSUME NEW A \in SUBSET Trashed(db), NEW P \in SUBSET Purgeable(db)
      PROVE  /\ RemovedTaskIds(db, A, P) = gone(A, P)
             /\ RemovedTaskIds(db, A, P) = Swept(db, A \cup Filed(db, P))
  <2>1. RemovedTaskIds(db, A, P) \in SUBSET Trashed(db)
    BY RemovedSwept
  <2>2. Rows(PurgedSelection(db, A, P)) = Rows(db) \ RemovedTaskIds(db, A, P)
    BY <1>1, SelectionLeaves
  <2> QED
    BY <1>2, <2>1, <2>2, RemovedSwept
<1>4. TrashCounts(db).purge
        = Cardinality(gone(Trashed(db), Purgeable(db))) + Cardinality(Purgeable(db))
  <2>1. Filed(db, Purgeable(db)) \subseteq Trashed(db)
    BY DEF Filed
  <2>2. Swept(db, Trashed(db)) = Trashed(db)
    BY SweptTrash
  <2>3. Trashed(db) \cup Filed(db, Purgeable(db)) = Trashed(db)
    BY <2>1
  <2>4. gone(Trashed(db), Purgeable(db)) = Swept(db, Trashed(db) \cup Filed(db, Purgeable(db)))
    BY <1>3
  <2> HIDE DEF gone
  <2>5. gone(Trashed(db), Purgeable(db)) = Trashed(db)
    BY <2>2, <2>3, <2>4
  <2>6. TrashCounts(db).purge = Cardinality(Trashed(db)) + Cardinality(Purgeable(db))
    BY DEF TrashCounts
  <2> QED
    BY <2>5, <2>6
<1>5. ASSUME NEW p \in Purgeable(db)
      PROVE  /\ Cardinality(gone({}, {p})) = TasksPurgedWithProject(db, p)
             /\ TasksDeletedWithProject(db, p) <= TasksPurgedWithProject(db, p)
  <2> DEFINE B == {t \in Trashed(db) : db.task[t].project = p}
  <2>1. Filed(db, {p}) = B /\ B \in SUBSET Trashed(db)
    BY DEF Filed
  <2>2. Swept(db, B) = B
    <3>1. B \subseteq Swept(db, B)
      BY <2>1, SweptTrash
    <3>2. ASSUME NEW b \in B PROVE PurgeSet(db, b) \subseteq B
      BY PurgeSetFacts DEF Folder
    <3> HIDE DEF B
    <3> QED
      BY <3>1, <3>2 DEF Swept
  <2>3. gone({}, {p}) = Swept(db, {} \cup Filed(db, {p}))
    <3>1. {} \in SUBSET Trashed(db) /\ {p} \in SUBSET Purgeable(db)
      OBVIOUS
    <3> QED
      BY <1>3, <3>1
  <2>4. TasksPurgedWithProject(db, p) = Cardinality(B)
    BY DEF TasksPurgedWithProject
  <2>5. ProjectCascade(db, p) \subseteq B
    <3> SUFFICES ASSUME NEW t \in Trashed(db), task[t].dwp = p
                 PROVE  task[t].project = p
      BY <1>1 DEF ProjectCascade
    <3>1. p # None
      BY RowBounds DEF Purgeable, ProjectId, None
    <3> QED
      BY <1>1, <1>2, <3>1 DEF RowSound
  <2>6. IsFiniteSet(B)
    <3>1. IsFiniteSet(TaskId)
      BY RowBounds, FS_Interval DEF TaskId
    <3> QED
      BY <1>2, <2>1, <3>1, FS_Subset
  <2> HIDE DEF B, gone
  <2>7. {} \cup Filed(db, {p}) = B
    BY <2>1
  <2>8. gone({}, {p}) = B
    BY <2>2, <2>3, <2>7
  <2>9. Cardinality(ProjectCascade(db, p)) <= Cardinality(B)
    BY <2>5, <2>6, FS_Subset
  <2> QED
    BY <2>4, <2>8, <2>9 DEF TasksDeletedWithProject
<1>6. ASSUME NEW t \in Trashed(db) \ StandaloneTrash(db)
      PROVE  task[t].superseded \/ \E p \in Purgeable(db) : t \in ProjectCascade(db, p)
  <2> SUFFICES ASSUME ~task[t].superseded
               PROVE  \E p \in Purgeable(db) : t \in ProjectCascade(db, p)
    OBVIOUS
  <2>1. t \in TaskId /\ task[t].dwp # None
    BY <1>1, <1>2 DEF StandaloneTrash
  <2>2. task[t].dwp = task[t].project /\ project[task[t].project] = "trashed"
    BY <1>1, <2>1 DEF RowSound
  <2>3. task[t].dwp \in ProjectId \ {General}
    BY <1>1, <2>1, <2>2 DEF Row
  <2>4. task[t].dwp \in Purgeable(db)
    BY <1>1, <2>2, <2>3 DEF Purgeable
  <2>5. t \in ProjectCascade(db, task[t].dwp)
    BY <1>1 DEF ProjectCascade
  <2> QED
    BY <2>4, <2>5
<1> QED
  BY <1>3, <1>4, <1>5, <1>6 DEF PurgeCountsExact

-----------------------------------------------------------------------------
(* A bulk purge leaves what every request finds                             *)

Unfiled(T, P) == [t \in TaskId |-> IF T[t].dwp \in P THEN Unbound(T[t]) ELSE T[t]]

ProjectsGone(Q, P) == [p \in ProjectId |-> IF p \in P THEN "none" ELSE Q[p]]

LEMMA WithoutProjectsRec ==
  ASSUME NEW T, NEW D, NEW Q, NEW P
  PROVE  WithoutProjects(Rec(T, D, Q), P) = Rec(Unfiled(T, P), D, ProjectsGone(Q, P))
<1>1. Rec(T, D, Q).task = T /\ Rec(T, D, Q).project = Q
  BY DEF Rec
<1>2. WithoutProjects(Rec(T, D, Q), P)
        = [Rec(T, D, Q) EXCEPT !.project = ProjectsGone(Q, P), !.task = Unfiled(T, P)]
  BY <1>1 DEF WithoutProjects, Unfiled, Unbound, ProjectsGone
<1> QED
  BY <1>2 DEF Rec

\* A project that goes disturbs no row that is not filed in it.
LEMMA ProjectsGoneSound ==
  ASSUME NEW row \in Row, NEW X, NEW Q \in [ProjectId -> Lifecycle], RowSound(row, X, Q),
         NEW P, row.project \in P => row.state = "none" /\ row.dwp = None
  PROVE  RowSound(row, X, ProjectsGone(Q, P))
<1>1. row.project \notin P => ProjectsGone(Q, P)[row.project] = Q[row.project]
  BY DEF ProjectsGone, Row
<1>2. CASE row.project \in P
  <2>1. row.state = "none" /\ row.dwp = None
    BY <1>2
  <2> QED
    BY <2>1 DEF RowSound
<1>3. CASE row.project \notin P
  BY <1>1, <1>3 DEF RowSound
<1> QED
  BY <1>2, <1>3

\* U is the column T up to the markers of rows taken by a project: what Sound and
\* InOrder read of a row is as it was.
SameButFolder(T, U) ==
  /\ U \in [TaskId -> Row]
  /\ \A t \in TaskId : /\ U[t].state = T[t].state /\ U[t].parent = T[t].parent
                       /\ U[t].project = T[t].project
                       /\ U[t].skipped = T[t].skipped /\ U[t].series = T[t].series
                       /\ U[t].due = T[t].due
                       /\ InOrder(T[t]) => InOrder(U[t])
                       /\ \A X, Y : RowSound(T[t], X, Y) => RowSound(U[t], X, Y)

LEMMA UnfiledShape ==
  ASSUME NEW T \in [TaskId -> Row], NEW P
  PROVE  SameButFolder(T, Unfiled(T, P))
<1> DEFINE U == Unfiled(T, P)
<1>1. /\ \A t \in TaskId : U[t] = IF T[t].dwp \in P THEN Unbound(T[t]) ELSE T[t]
      /\ U = [t \in TaskId |-> U[t]]
  BY DEF Unfiled
<1> HIDE DEF U
<1>2. ASSUME NEW t \in TaskId
      PROVE  /\ U[t] \in Row /\ U[t].state = T[t].state /\ U[t].parent = T[t].parent
             /\ U[t].project = T[t].project
             /\ U[t].skipped = T[t].skipped /\ U[t].series = T[t].series
             /\ U[t].due = T[t].due
             /\ InOrder(T[t]) => InOrder(U[t])
             /\ \A X, Y : RowSound(T[t], X, Y) => RowSound(U[t], X, Y)
  <2>1. CASE T[t].dwp \in P
    <3>1. U[t] = Unbound(T[t]) /\ T[t] \in Row
      BY <1>1, <2>1
    <3>2. /\ U[t] \in Row /\ U[t].state = T[t].state /\ U[t].parent = T[t].parent
          /\ U[t].skipped = T[t].skipped /\ U[t].series = T[t].series
          /\ U[t].due = T[t].due
          /\ InOrder(T[t]) => InOrder(U[t])
      BY <3>1, UnboundShape
    <3>3. U[t].project = T[t].project /\ U[t].dwp = None
      BY <3>1 DEF Unbound, Row
    <3>4. \A X, Y : RowSound(T[t], X, Y) => RowSound(U[t], X, Y)
      BY <3>1, UnboundSound
    <3> QED
      BY <3>2, <3>3, <3>4
  <2>2. CASE T[t].dwp \notin P
    BY <1>1, <2>2
  <2> QED
    BY <2>1, <2>2
<1> QED
  BY <1>1, <1>2 DEF U, SameButFolder

\* Every selection of rows and projects of the trash may go: what is left is sound.
LEMMA SelectionKept ==
  ASSUME WiredDb, NEW A \in SUBSET Trashed(db), NEW P \in SUBSET Purgeable(db),
         Write(PurgedSelection(db, A, P))
  PROVE  Kept /\ Stepped
<1> DEFINE R == RemovedTaskIds(db, A, P)
           Q == ProjectsGone(project, P)
<1>1. /\ db \in Store /\ SoundStore(db) /\ db.task = task /\ db.project = project
      /\ Live(db) \subseteq Present(task) /\ Sound(task, dep, project)
  BY DbFacts, DbStore DEF WiredDb, SoundStore
<1>2. R \in SUBSET Trashed(db) /\ Filed(db, P) \subseteq R
  <2>1. R = Swept(db, A \cup Filed(db, P)) /\ A \cup Filed(db, P) \in SUBSET Trashed(db)
        /\ R \in SUBSET Trashed(db)
    BY RemovedSwept
  <2>2. A \cup Filed(db, P) \subseteq Swept(db, A \cup Filed(db, P))
    BY <2>1, SweptTrash
  <2> QED
    BY <2>1, <2>2
<1>3. PurgedSelection(db, A, P) = WithoutProjects(Purged(db, R), P)
  BY <1>1, SelectionPurged
<1> HIDE DEF R
<1>4. R \in SUBSET TaskId
  BY <1>2 DEF Trashed
<1>5. PICK T, D : /\ T \in [TaskId -> Row] /\ Purged(db, R) = Rec(T, D, project)
                  /\ Shrunk(T, D)
  BY <1>4, PurgedShrunk
<1>6. /\ Sound(T, D, project) /\ Present(T) = Present(task) \ R
      /\ \A t \in TaskId : /\ T[t].state = "none" \/ T[t].project = task[t].project
                           /\ T[t].state # "none" => T[t].state = task[t].state
      /\ \A t \in R : T[t] = NoRow
  <2>1. PICK T2 \in [TaskId -> Row], D2 \in SUBSET (TaskId \X TaskId) :
          /\ Purged(db, R) = Rec(T2, D2, project)
          /\ Sound(T2, D2, project)
          /\ Present(T2) = Present(task) \ R
          /\ \A t \in TaskId : /\ T2[t].state = "none" \/ T2[t].project = task[t].project
                               /\ T2[t].state # "none" => T2[t].state = task[t].state
          /\ \A t \in R : T2[t] = NoRow
    BY <1>1, <1>2, PurgedSound
  <2>2. T2 = T /\ D2 = D
    BY <1>5, <2>1 DEF Rec
  <2> QED
    BY <2>1, <2>2
<1> DEFINE U == Unfiled(T, P)
<1>7. PurgedSelection(db, A, P) = Rec(U, D, Q)
  BY <1>3, <1>5, WithoutProjectsRec
<1>8. /\ U \in [TaskId -> Row]
      /\ \A t \in TaskId : /\ U[t].state = T[t].state /\ U[t].parent = T[t].parent
                           /\ U[t].project = T[t].project
                           /\ U[t].skipped = T[t].skipped /\ U[t].series = T[t].series
                           /\ U[t].due = T[t].due
                           /\ InOrder(T[t]) => InOrder(U[t])
                           /\ \A X, Y : RowSound(T[t], X, Y) => RowSound(U[t], X, Y)
  BY <1>5, UnfiledShape DEF SameButFolder
<1> HIDE DEF U
<1>9. Present(U) = Present(T) /\ Present(T) \subseteq TaskId
  BY <1>8 DEF Present
<1>10. project \in [ProjectId -> Lifecycle] /\ P \subseteq ProjectId \ {General}
       /\ \A p \in P : project[p] = "trashed"
  BY <1>1 DEF Purgeable, Store
<1>11. Q \in [ProjectId -> Lifecycle] /\ Q[General] = "live"
  <2>1. General \in ProjectId /\ project[General] = "live" /\ "none" \in Lifecycle
    BY <1>1, RowBounds DEF General, ProjectId, Sound, Lifecycle
  <2> QED
    BY <1>10, <2>1 DEF ProjectsGone
<1>12. \A t \in TaskId : RowSound(U[t], Present(U), Q)
  <2> SUFFICES ASSUME NEW t \in TaskId PROVE RowSound(U[t], Present(U), Q)
    OBVIOUS
  <2>1. U[t] \in Row /\ RowSound(U[t], Present(U), project)
    BY <1>6, <1>8, <1>9 DEF Sound
  <2>2. U[t].project \in P => U[t].state = "none"
    <3> SUFFICES ASSUME U[t].project \in P, U[t].state # "none" PROVE FALSE
      OBVIOUS
    <3>1. /\ task[t].project \in P /\ task[t].state # "none" /\ t \notin R
      BY <1>6, <1>8, NoRowType
    <3>2. task[t].state # "trashed"
      BY <1>1, <1>2, <3>1 DEF Filed, Trashed
    <3>3. task[t].state = "live"
      BY <1>1, <3>1, <3>2 DEF Store, Row, Lifecycle
    <3> QED
      BY <1>1, <1>10, <3>1, <3>3 DEF Sound, RowSound
  <2>3. U[t].project \in P => U[t].dwp = None
    BY <2>1, <2>2 DEF RowSound, Unmarked
  <2> QED
    BY <1>10, <2>1, <2>2, <2>3, ProjectsGoneSound
<1> HIDE DEF Q
<1>13. OneRowPerSlot(U)
  <2>1. OneRowPerSlot(T)
    BY <1>6 DEF Sound
  <2> QED
    BY <1>8, <2>1, SlotsShrink
<1>14. Sound(U, D, Q)
  BY <1>6, <1>8, <1>9, <1>11, <1>12, <1>13 DEF Sound
<1>15. Live(db) \subseteq Present(U)
  BY <1>1, <1>2, <1>6, <1>9 DEF Live, Trashed
<1>16. Kept
  BY <1>7, <1>14, <1>15, WriteKept
<1>17. Shrunk(U, D)
  BY <1>5, <1>8, <1>9 DEF Shrunk
<1> QED
  BY <1>7, <1>8, <1>11, <1>16, <1>17, ShrunkStepped

-----------------------------------------------------------------------------
(* What a receipt promises while nothing has overtaken it                   *)

\* The rows a restore brought back are live and as they were then; nothing else
\* could come back with a skipped root.
TaskReceipt(r) ==
  /\ r.kind = "task"
  /\ r.root \in r.ids /\ r.ids \in SUBSET Live(db) /\ r.skipped \in BOOLEAN
  /\ ~r.skipped => r.ids = {r.root}
  /\ r.skipped => /\ task[r.root].series # None /\ task[r.root].due # None
                  /\ MarkedDescendants(db, r.root) = {}

UnskipReceipt(r) ==
  /\ DOMAIN r = {"kind", "root", "original", "due", "previous", "same"}
  /\ r.kind = "unskip"
  /\ r.due \in Date /\ r.original \in TaskId
  /\ \A t \in DOMAIN r.previous : r.previous[t] \in Date \cup {None}

ProjectRestored(r) ==
  /\ r.kind = "project"
  /\ r.project \in ProjectId \ {General} /\ r.left = {}

ReceiptSound(r) ==
  r = NoReceipt \/ TaskReceipt(r) \/ UnskipReceipt(r) \/ ProjectRestored(r)

LEMMA ReceiptOfKind ==
  ASSUME NEW r, ReceiptSound(r)
  PROVE  /\ r.kind = "task" => TaskReceipt(r)
         /\ r.kind = "unskip" => UnskipReceipt(r)
         /\ r.kind = "project" => ProjectRestored(r)
<1>1. NoReceipt.kind = "none"
  BY DEF NoReceipt
<1> QED
  BY <1>1 DEF ReceiptSound, TaskReceipt, UnskipReceipt, ProjectRestored

LEMMA ForgottenSound ==
  ASSUME NEW r, UnskipReceipt(r)
  PROVE  UnskipReceipt([r EXCEPT !.same = FALSE])
<1> DEFINE f == [r EXCEPT !.same = FALSE]
<1>1. DOMAIN f = DOMAIN r /\ \A x \in DOMAIN r : x # "same" => f[x] = r[x]
  OBVIOUS
<1> HIDE DEF f
<1>2. f.kind = r.kind /\ f.original = r.original /\ f.due = r.due /\ f.previous = r.previous
  BY <1>1 DEF UnskipReceipt
<1>3. UnskipReceipt(f)
  BY <1>1, <1>2 DEF UnskipReceipt
<1> QED
  BY <1>3 DEF f

-----------------------------------------------------------------------------
(* The Undo of a task restore                                               *)

Rebinned(row, by, s) == [row EXCEPT !.state = "trashed", !.dwt = by, !.skipped = s]

LEMMA RebinnedShape ==
  ASSUME NEW row \in Row, row.state = "live", Unmarked(row), NEW by \in TaskId \cup {None},
         NEW s \in BOOLEAN, s => row.series # None /\ row.due # None
  PROVE  LET new == Rebinned(row, by, s)
         IN  /\ new \in Row /\ new.state = "trashed" /\ new.dwt = by /\ new.skipped = s
             /\ new.dwp = None /\ ~new.superseded /\ new.parent = row.parent
             /\ new.series = row.series /\ new.due = row.due
             /\ \A X, Q : by \in X \cup {None} /\ RowSound(row, X, Q) => RowSound(new, X, Q)
<1> DEFINE new == Rebinned(row, by, s)
<1>1. new \in Row
  BY DEF Rebinned, Row, Lifecycle
<1>2. /\ new.state = "trashed" /\ new.dwt = by /\ new.skipped = s
      /\ new.dwp = row.dwp /\ new.superseded = row.superseded
  BY DEF Rebinned, Row
<1>3. /\ new.parent = row.parent /\ new.series = row.series /\ new.due = row.due
      /\ new.project = row.project /\ new.repeat = row.repeat
  BY DEF Rebinned, Row
<1>4. row.dwp = None /\ ~row.superseded
  BY DEF Unmarked
<1> HIDE DEF new
<1>5. ASSUME NEW X, NEW Q, by \in X \cup {None}, RowSound(row, X, Q)
      PROVE  RowSound(new, X, Q)
  BY <1>2, <1>3, <1>4, <1>5 DEF RowSound
<1> QED
  BY <1>1, <1>2, <1>3, <1>4, <1>5 DEF new

\* Where a row of the receipt goes back to.
BinnedBy(r, t) ==
  IF t # r.root THEN r.root ELSE IF r.prior \in Trashed(db) THEN r.prior ELSE None

RetrashedRows(r) ==
  [t \in TaskId |-> IF t \in r.ids THEN Rebinned(task[t], BinnedBy(r, t), t = r.root /\ r.skipped)
                    ELSE task[t]]

LEMMA RetrashedFacts ==
  ASSUME WiredDb, NEW r, TaskReceipt(r)
  PROVE  /\ Retrashed(db, r) = Rec(RetrashedRows(r), dep, project)
         /\ RetrashedRows(r) \in [TaskId -> Row]
         /\ \A t \in TaskId \ r.ids : RetrashedRows(r)[t] = task[t]
         /\ \A t \in r.ids :
              /\ t \in TaskId /\ task[t].state = "live" /\ Unmarked(task[t])
              /\ RetrashedRows(r)[t] = Rebinned(task[t], BinnedBy(r, t), t = r.root /\ r.skipped)
              /\ RetrashedRows(r)[t].state = "trashed"
              /\ RetrashedRows(r)[t].dwt = BinnedBy(r, t)
              /\ RetrashedRows(r)[t].skipped = (t = r.root /\ r.skipped)
              /\ ~RetrashedRows(r)[t].superseded
              /\ RetrashedRows(r)[t].parent = task[t].parent
              /\ RowSound(RetrashedRows(r)[t], Present(task), project)
<1> DEFINE T == RetrashedRows(r)
           by(t) == BinnedBy(r, t)
<1>1. /\ db \in Store /\ db.task = task /\ db.dep = dep /\ db.project = project
      /\ Rows(db) = Present(task)
      /\ \A t \in TaskId : task[t] \in Row /\ RowSound(task[t], Present(task), project)
  BY DbFacts
<1>2. \A t \in TaskId : T[t] = IF t \in r.ids
                               THEN Rebinned(task[t], by(t), t = r.root /\ r.skipped)
                               ELSE task[t]
  BY DEF RetrashedRows
<1>3. T = [t \in TaskId |-> T[t]]
  BY DEF RetrashedRows
<1>4. Retrashed(db, r) = Rec(T, dep, project)
  <2>1. Retrashed(db, r) = OnTask(db, T)
    BY <1>1 DEF Retrashed, OnTask, RetrashedRows, Rebinned, BinnedBy
  <2> HIDE DEF T
  <2> QED
    BY <1>1, <2>1, OnTaskRec
<1> HIDE DEF T
<1>5. ASSUME NEW t \in r.ids
      PROVE  /\ t \in TaskId /\ task[t].state = "live" /\ Unmarked(task[t])
             /\ T[t] = Rebinned(task[t], by(t), t = r.root /\ r.skipped)
             /\ T[t] \in Row
             /\ T[t].state = "trashed"
             /\ T[t].dwt = by(t)
             /\ T[t].skipped = (t = r.root /\ r.skipped)
             /\ ~T[t].superseded
             /\ T[t].parent = task[t].parent
             /\ RowSound(T[t], Present(task), project)
  <2> DEFINE s == t = r.root /\ r.skipped
             row == task[t]
             b == by(t)
  <2>1. t \in TaskId /\ row.state = "live" /\ Unmarked(row)
    BY <1>1 DEF TaskReceipt, Live, RowSound
  <2>2. r.root \in Present(task) /\ r.root \in TaskId
    BY <1>1 DEF TaskReceipt, Live, Present
  <2>3. b \in Present(task) \cup {None} /\ b \in TaskId \cup {None}
    BY <1>1, <2>2 DEF BinnedBy, Trashed, Present
  <2>4. s \in BOOLEAN /\ (s => row.series # None /\ row.due # None)
    BY DEF TaskReceipt
  <2>5. T[t] = Rebinned(row, b, s) /\ row \in Row /\ RowSound(row, Present(task), project)
    BY <1>1, <1>2, <2>1
  <2> HIDE DEF s, b, row
  <2>6. /\ T[t] \in Row /\ T[t].state = "trashed" /\ T[t].dwt = b /\ T[t].skipped = s
        /\ ~T[t].superseded /\ T[t].parent = row.parent
        /\ RowSound(T[t], Present(task), project)
    BY <2>1, <2>3, <2>4, <2>5, RebinnedShape
  <2> QED
    BY <2>1, <2>5, <2>6 DEF s, b, row
<1>6. \A t \in TaskId : T[t] \in Row
  BY <1>1, <1>2, <1>5
<1>7. T \in [TaskId -> Row]
  BY <1>3, <1>6
<1> QED
  BY <1>2, <1>4, <1>5, <1>7 DEF T

\* Rows change, their parents and the edges do not: no new loop.
LEMMA SameWaits ==
  ASSUME WiredDb, NEW T \in [TaskId -> Row], NEW Q \in [ProjectId -> Lifecycle],
         \A t \in TaskId : /\ (T[t].state = "none") <=> (task[t].state = "none")
                           /\ T[t].parent = task[t].parent
  PROVE  Prepared(Rec(T, dep, Q), Rec(T, dep, Q))
<1> DEFINE S == Rec(T, dep, Q)
<1>1. db \in Store /\ db.task = task /\ db.dep = dep /\ db.project = project /\ Wired(db)
  BY DbFacts
<1>2. S.task = T /\ S.dep = dep /\ S \in Store
  BY <1>1 DEF Rec, Store
<1> HIDE DEF S
<1>3. Rows(S) = Rows(db)
  BY <1>1, <1>2 DEF Rows
<1>4. StoredWaits(S) = StoredWaits(db)
  BY <1>1, <1>2, <1>3 DEF StoredWaits, StoredNesting, Rows
<1>5. Wired(S)
  BY <1>1, <1>2, <1>3, <1>4 DEF Wired
<1>6. Follows(S, S)
  BY DEF Follows, Remembered
<1> QED
  BY <1>5, <1>6 DEF Prepared, S

LEMMA RetrashedWired ==
  ASSUME WiredDb, NEW r, TaskReceipt(r)
  PROVE  /\ Sound(RetrashedRows(r), dep, project)
         /\ Live(db) \subseteq Present(RetrashedRows(r))
         /\ Prepared(Retrashed(db, r), Retrashed(db, r))
<1> DEFINE T == RetrashedRows(r)
<1>1. /\ Retrashed(db, r) = Rec(T, dep, project) /\ T \in [TaskId -> Row]
      /\ \A t \in TaskId \ r.ids : T[t] = task[t]
      /\ \A t \in r.ids : /\ t \in TaskId /\ task[t].state = "live"
                          /\ T[t].state = "trashed" /\ T[t].parent = task[t].parent
                          /\ RowSound(T[t], Present(task), project)
  BY RetrashedFacts
<1> HIDE DEF T
<1>2. /\ Sound(task, dep, project) /\ project \in [ProjectId -> Lifecycle]
      /\ \A t \in TaskId : RowSound(task[t], Present(task), project)
      /\ OneRowPerSlot(task) /\ dep \in SUBSET (Present(task) \X Present(task))
      /\ db.task = task
  BY DbFacts DEF WiredDb, Sound
<1>3. \A t \in TaskId : /\ (T[t].state = "none") <=> (task[t].state = "none")
                        /\ T[t].parent = task[t].parent
  BY <1>1
<1>4. Present(T) = Present(task)
  BY <1>3 DEF Present
<1>5. OneRowPerSlot(T)
  BY <1>1, <1>2, SlotsShrink
<1>6. Sound(T, dep, project)
  BY <1>1, <1>2, <1>4, <1>5 DEF Sound
<1>7. Prepared(Rec(T, dep, project), Rec(T, dep, project))
  BY <1>1, <1>2, <1>3, SameWaits
<1>8. Live(db) \subseteq Present(T)
  BY <1>2, <1>4 DEF Live, Present
<1> QED
  BY <1>1, <1>6, <1>7, <1>8 DEF T

\* A store that may be rolled forward is wired, whatever it was built from.
LEMMA CommitWired ==
  ASSUME NEW S, Prepared(S, S), NEW seeds, Commit(S, seeds)
  PROVE  /\ Wired(db') /\ db' = Reconcile(S, seeds)
         /\ \A t \in Rows(S) : db'.task[t] = S.task[t]
         /\ db'.project = S.project
<1>1. /\ Prepared(S, Reconcile(S, seeds)) /\ Write(Reconcile(S, seeds))
      /\ \A t \in Rows(S) : Reconcile(S, seeds).task[t] = S.task[t]
      /\ Reconcile(S, seeds).project = S.project
  BY ReconcilePrepared DEF Commit
<1>2. db' = Reconcile(S, seeds)
  BY <1>1, WrittenStore DEF Prepared, Wired
<1>3. Wired(Reconcile(S, seeds))
  BY <1>1 DEF Prepared
<1> QED
  BY <1>1, <1>2, <1>3

LEMMA UndoTaskRestoreKept ==
  ASSUME WiredDb, ReceiptSound(receipt), UndoTaskRestore
  PROVE  Kept /\ Wired(db')
<1> DEFINE S == Retrashed(db, receipt)
<1>1. TaskReceipt(receipt) /\ Commit(S, Neighbours(db, receipt.ids))
  BY ReceiptOfKind DEF UndoTaskRestore
<1>2. /\ S = Rec(RetrashedRows(receipt), dep, project)
      /\ Sound(RetrashedRows(receipt), dep, project)
      /\ Live(db) \subseteq Present(RetrashedRows(receipt))
      /\ Prepared(S, S)
  BY <1>1, RetrashedFacts, RetrashedWired
<1> HIDE DEF S
<1>3. Kept
  BY <1>1, <1>2, CommitKept
<1>4. Wired(db')
  BY <1>1, <1>2, CommitWired
<1> QED
  BY <1>3, <1>4

-----------------------------------------------------------------------------
(* The Undo of an un-skip                                                   *)

LEMMA RedatedSound ==
  ASSUME NEW row \in Row, row.state = "live", NEW d \in Date \cup {None}
  PROVE  /\ WithDue(row, d) \in Row /\ WithDue(row, d).state = row.state
         /\ WithDue(row, d).parent = row.parent
         /\ \A X, Q : RowSound(row, X, Q) => RowSound(WithDue(row, d), X, Q)
<1> DEFINE new == WithDue(row, d)
<1>1. new \in Row
  BY DEF WithDue, Row
<1>2. /\ new.state = row.state /\ new.dwt = row.dwt /\ new.dwp = row.dwp
      /\ new.superseded = row.superseded /\ new.skipped = row.skipped
  BY DEF WithDue, Row
<1>3. /\ new.project = row.project /\ new.parent = row.parent
      /\ new.repeat = row.repeat /\ new.series = row.series
  BY DEF WithDue, Row
<1> HIDE DEF new
<1>4. ASSUME NEW X, NEW Q, RowSound(row, X, Q) PROVE RowSound(new, X, Q)
  BY <1>2, <1>3, <1>4 DEF RowSound, Unmarked
<1> QED
  BY <1>1, <1>2, <1>3, <1>4 DEF new

Reskipped(row) == [row EXCEPT !.superseded = FALSE, !.skipped = TRUE]

LEMMA ReskippedSound ==
  ASSUME NEW row \in Row, row.state = "trashed", row.superseded,
         row.series # None, row.due # None
  PROVE  /\ Reskipped(row) \in Row /\ Reskipped(row).state = row.state
         /\ Reskipped(row).parent = row.parent
         /\ \A X, Q : RowSound(row, X, Q) => RowSound(Reskipped(row), X, Q)
<1> DEFINE new == Reskipped(row)
<1>1. new \in Row
  BY DEF Reskipped, Row
<1>2. /\ new.state = row.state /\ new.dwt = row.dwt /\ new.dwp = row.dwp
      /\ ~new.superseded /\ new.skipped
  BY DEF Reskipped, Row
<1>3. /\ new.project = row.project /\ new.parent = row.parent /\ new.due = row.due
      /\ new.repeat = row.repeat /\ new.series = row.series
  BY DEF Reskipped, Row
<1> HIDE DEF new
<1>4. ASSUME NEW X, NEW Q, RowSound(row, X, Q) PROVE RowSound(new, X, Q)
  BY <1>2, <1>3, <1>4 DEF RowSound, Unmarked
<1> QED
  BY <1>1, <1>2, <1>3, <1>4 DEF new

Unretired(row) == [row EXCEPT !.superseded = FALSE]

LEMMA UnretiredSound ==
  ASSUME NEW row \in Row
  PROVE  /\ Unretired(row) \in Row /\ Unretired(row).state = row.state
         /\ Unretired(row).parent = row.parent
         /\ \A X, Q : RowSound(row, X, Q) => RowSound(Unretired(row), X, Q)
<1> DEFINE new == Unretired(row)
<1>1. new \in Row
  BY DEF Unretired, Row
<1>2. /\ new.state = row.state /\ new.dwt = row.dwt /\ new.dwp = row.dwp
      /\ ~new.superseded /\ new.skipped = row.skipped
  BY DEF Unretired, Row
<1>3. /\ new.project = row.project /\ new.parent = row.parent /\ new.due = row.due
      /\ new.repeat = row.repeat /\ new.series = row.series
  BY DEF Unretired, Row
<1> HIDE DEF new
<1>4. ASSUME NEW X, NEW Q, RowSound(row, X, Q) PROVE RowSound(new, X, Q)
  BY <1>2, <1>3, <1>4 DEF RowSound, Unmarked
<1> QED
  BY <1>1, <1>2, <1>3, <1>4 DEF new

\* The guards on the log let the rewind be undone only where the series still
\* stands as the rewind left it, and then the rows go back where they were.
LEMMA UndoUnskipKept ==
  ASSUME WiredDb, ReceiptSound(receipt), UndoUnskip
  PROVE  Kept /\ Wired(db')
<1> DEFINE r == receipt
           S == BackToSkipped(db, r)
           moved == DOMAIN r.previous
           T == [t \in TaskId |->
                   IF t \in moved THEN WithDue(task[t], r.previous[t])
                   ELSE IF t = r.original THEN Reskipped(task[t])
                   ELSE IF t \in Stamped(db, r.original) THEN Unretired(task[t])
                   ELSE task[t]]
<1>1. /\ UnskipReceipt(r) /\ SeriesStandsStill(db, r) /\ OneLivePerSlot(S) /\ Write(S)
  BY ReceiptOfKind DEF UndoUnskip
<1>2. /\ db \in Store /\ db.task = task /\ db.dep = dep /\ db.project = project
      /\ \A t \in TaskId : task[t] \in Row /\ RowSound(task[t], Present(task), project)
      /\ Sound(task, dep, project)
  BY DbFacts DEF WiredDb
<1>3. S = Rec(T, dep, project)
  <2>1. S = OnTask(db, T)
    BY <1>2 DEF BackToSkipped, OnTask, WithDue, Reskipped, Unretired
  <2> HIDE DEF T
  <2> QED
    BY <1>2, <2>1, OnTaskRec
<1>4. /\ \A t \in TaskId : T[t] =
                   IF t \in moved THEN WithDue(task[t], r.previous[t])
                   ELSE IF t = r.original THEN Reskipped(task[t])
                   ELSE IF t \in Stamped(db, r.original) THEN Unretired(task[t])
                   ELSE task[t]
      /\ T = [t \in TaskId |-> T[t]]
  OBVIOUS
<1> HIDE DEF T, S
<1>5. \A t \in moved : task[t].state = "live" /\ r.previous[t] \in Date \cup {None}
  <2>1. r.root \in Live(db) /\ \A t \in moved : t \in LiveSubtree(db, r.root)
    BY <1>1 DEF SeriesStandsStill
  <2>2. LiveSubtree(db, r.root) \subseteq Live(db)
    BY <1>2, <2>1, SubtreeLive
  <2> QED
    BY <1>1, <1>2, <2>1, <2>2 DEF UnskipReceipt, Live
<1>6. /\ r.original \in TaskId /\ task[r.original].state = "trashed"
      /\ task[r.original].superseded
      /\ task[r.original].series # None /\ task[r.original].due # None
  <2>1. r.due # None
    BY <1>1, RowBounds DEF UnskipReceipt, Date, None
  <2> QED
    BY <1>1, <1>2, <2>1 DEF SeriesStandsStill, UnskipReceipt, Trashed
<1> HIDE DEF r
<1>7. ASSUME NEW t \in TaskId
      PROVE  /\ T[t] \in Row /\ T[t].state = task[t].state /\ T[t].parent = task[t].parent
             /\ RowSound(T[t], Present(task), project)
  <2> DEFINE row == task[t]
  <2>1. row \in Row /\ RowSound(row, Present(task), project)
    BY <1>2
  <2>2. CASE t \in moved
    <3>1. T[t] = WithDue(row, r.previous[t]) /\ row.state = "live"
          /\ r.previous[t] \in Date \cup {None}
      BY <1>4, <1>5, <2>2
    <3> HIDE DEF row
    <3>2. /\ T[t] \in Row /\ T[t].state = row.state /\ T[t].parent = row.parent
          /\ RowSound(T[t], Present(task), project)
      BY <2>1, <3>1, RedatedSound
    <3> QED
      BY <3>2 DEF row
  <2>3. CASE t \notin moved /\ t = r.original
    <3>1. T[t] = Reskipped(row) /\ row.state = "trashed" /\ row.superseded
          /\ row.series # None /\ row.due # None
      BY <1>4, <1>6, <2>3
    <3> HIDE DEF row
    <3>2. /\ T[t] \in Row /\ T[t].state = row.state /\ T[t].parent = row.parent
          /\ RowSound(T[t], Present(task), project)
      BY <2>1, <3>1, ReskippedSound
    <3> QED
      BY <3>2 DEF row
  <2>4. CASE t \notin moved /\ t # r.original
    <3>1. T[t] = Unretired(row) \/ T[t] = row
      BY <1>4, <2>4
    <3> HIDE DEF row
    <3>2. /\ T[t] \in Row /\ T[t].state = row.state /\ T[t].parent = row.parent
          /\ RowSound(T[t], Present(task), project)
      BY <2>1, <3>1, UnretiredSound
    <3> QED
      BY <3>2 DEF row
  <2> QED
    BY <2>2, <2>3, <2>4
<1>8. T \in [TaskId -> Row]
  BY <1>4, <1>7
<1>9. Present(T) = Present(task)
  BY <1>7 DEF Present
<1>10. OneRowPerSlot(T)
  <2>1. S.task = T
    BY <1>3 DEF Rec
  <2> QED
    BY <1>1, <2>1, SlotsOfStore DEF S
<1>11. Sound(T, dep, project)
  BY <1>2, <1>7, <1>8, <1>9, <1>10 DEF Sound
<1>12. Live(db) \subseteq Present(T)
  BY <1>2, <1>9 DEF Live, Present
<1>13. Write(Rec(T, dep, project))
  BY <1>1, <1>3 DEF S
<1>14. Kept
  BY <1>11, <1>12, <1>13, WriteKept
<1>15. Wired(Rec(T, dep, project))
  <2>1. project \in [ProjectId -> Lifecycle]
    BY <1>2 DEF Sound
  <2>2. Prepared(Rec(T, dep, project), Rec(T, dep, project))
    BY <1>7, <1>8, <2>1, SameWaits
  <2> QED
    BY <2>2 DEF Prepared
<1>16. db' = Rec(T, dep, project)
  BY <1>13, <1>15, WrittenStore DEF Wired
<1> QED
  BY <1>14, <1>15, <1>16

-----------------------------------------------------------------------------
(* The Undo of a project restore                                            *)

\* No row is left behind by a restore with tasks: nothing is archived by itself.
LEMMA NothingRearchived ==
  ASSUME NEW S \in Store, NEW r, r.left = {}
  PROVE  Rearchived(S, r) = S
<1>1. Rearchived(S, r) = [S EXCEPT !.task = [t \in TaskId |-> S.task[t]]]
  BY DEF Rearchived
<1>2. S.task = [t \in TaskId |-> S.task[t]]
  BY DEF Store
<1> QED
  BY <1>1, <1>2 DEF Store

\* Then it is a project delete that looks at what it takes.
LEMMA UndoProjectIsDelete ==
  ASSUME WiredDb, ReceiptSound(receipt), UndoProjectRestore
  PROVE  /\ receipt.project \in ProjectId /\ SoftDeleteProject(receipt.project)
         /\ SameWork(db, receipt) /\ receipt.left = {}
<1>1. /\ receipt.project \in ProjectId \ {General} /\ receipt.left = {}
  BY ReceiptOfKind DEF UndoProjectRestore, ProjectRestored
<1>2. Rearchived(db, receipt) = db
  BY <1>1, DbFacts, NothingRearchived
<1> QED
  BY <1>1, <1>2 DEF UndoProjectRestore, SoftDeleteProject

LEMMA UndoProjectRestoreKept ==
  ASSUME WiredDb, ReceiptSound(receipt), UndoProjectRestore
  PROVE  Kept /\ Wired(db')
<1>1. Kept
  BY UndoProjectIsDelete, SoftDeleteProjectKept DEF WiredDb
<1>2. Stepped
  BY UndoProjectIsDelete, SoftDeleteProjectStepped
<1> QED
  BY <1>1, <1>2 DEF Stepped

-----------------------------------------------------------------------------
(* No request marks a row as taken by a row that it leaves live and alone   *)

Formed(row) == {"state", "dwt", "superseded"} \subseteq DOMAIN row

TakenBack(row, x) == row.state = "trashed" /\ row.dwt = x /\ ~row.superseded

\* In S no more rows would come back with x than in the store a request found.
NoneAdded(S, x) ==
  /\ "task" \in DOMAIN S
  /\ \A t \in TaskId : /\ Formed(S.task[t])
                       /\ TakenBack(S.task[t], x) => TakenBack(task[t], x)

\* What a request leaves.
NoneJoins(x) == \A t \in TaskId : TakenBack(task'[t], x) => TakenBack(task[t], x)

LEMMA WriteJoins ==
  ASSUME NEW S, NEW x, NoneAdded(S, x), Write(S)
  PROVE  NoneJoins(x)
  BY DEF NoneAdded, Write, NoneJoins

LEMMA InsertedAt ==
  ASSUME NEW S, "task" \in DOMAIN S, NEW H, NEW n \in TaskId
  PROVE  LET R == InsertOccurrences(S, H)
         IN  /\ "task" \in DOMAIN R
             /\ \/ R.task[n] = S.task[n]
                \/ /\ S.task[n].state = "none"
                   /\ R.task[n].state = "live" /\ R.task[n].dwt = None
                   /\ Formed(R.task[n])
<1> DEFINE new(m) == CopyRow(S, H, CHOOSE c \in Copies(S, H) : TakesId(S, H, c, m))
           T == [m \in TaskId |-> IF \E c \in Copies(S, H) : TakesId(S, H, c, m)
                                  THEN new(m) ELSE S.task[m]]
           D == S.dep \cup CopiedEdges(S, H)
<1>1. InsertOccurrences(S, H) = [S EXCEPT !.task = T, !.dep = D]
  BY DEF InsertOccurrences
<1>2. \A c : CopyRow(S, H, c).state = "live" /\ CopyRow(S, H, c).dwt = None
             /\ Formed(CopyRow(S, H, c))
  BY DEF CopyRow, NoRow, Formed
<1> HIDE DEF new
<1>3. \/ T[n] = S.task[n]
      \/ /\ S.task[n].state = "none"
         /\ T[n].state = "live" /\ T[n].dwt = None /\ Formed(T[n])
  <2>1. \/ T[n] = S.task[n]
        \/ T[n] = new(n) /\ S.task[n].state = "none"
    <3>1. ASSUME NEW c, TakesId(S, H, c, n)
          PROVE  S.task[n].state = "none"
      <4>1. \A t \in Rows(S) : t < n
        BY <3>1 DEF TakesId, FreeIds
      <4> QED
        BY <4>1 DEF Rows, TaskId
    <3> QED
      BY <3>1
  <2> QED
    BY <1>2, <2>1 DEF new
<1> HIDE DEF T, D
<1>4. "task" \in DOMAIN InsertOccurrences(S, H) /\ InsertOccurrences(S, H).task = T
  BY <1>1
<1> QED
  BY <1>3, <1>4

LEMMA InsertedColumn ==
  ASSUME NEW S, "task" \in DOMAIN S, NEW H
  PROVE  DOMAIN InsertOccurrences(S, H).task = TaskId
BY DEF InsertOccurrences

LEMMA RollForwardAdds ==
  ASSUME NEW S, NEW x, NoneAdded(S, x), NEW H
  PROVE  NoneAdded(RollForward(S, H), x)
<1> DEFINE R == RollForward(S, H)
<1>1. "task" \in DOMAIN R
  BY InsertedAt, RowBounds DEF NoneAdded, RollForward, TaskId
<1>2. ASSUME NEW t \in TaskId
      PROVE  Formed(R.task[t]) /\ (TakenBack(R.task[t], x) => TakenBack(task[t], x))
  <2>1. \/ R.task[t] = S.task[t]
        \/ (R.task[t].state = "live" /\ R.task[t].dwt = None /\ Formed(R.task[t]))
    BY InsertedAt DEF NoneAdded, RollForward
  <2> QED
    BY <2>1 DEF NoneAdded, TakenBack
<1> QED
  BY <1>1, <1>2 DEF NoneAdded

LEMMA CommitJoins ==
  ASSUME NEW S, NEW x, NoneAdded(S, x), NEW seeds, Commit(S, seeds)
  PROVE  NoneJoins(x)
  BY RollForwardAdds, WriteJoins DEF Commit, Reconcile

LEMMA FormedRow ==
  ASSUME NEW row \in Row
  PROVE  Formed(row)
  BY DEF Row, Formed

LEMMA DbAdds ==
  ASSUME WiredDb, NEW x
  PROVE  NoneAdded(db, x)
<1>1. /\ db.task = task /\ \A t \in TaskId : task[t] \in Row
  BY DbFacts
<1>2. "task" \in DOMAIN db
  BY DEF db
<1> QED
  BY <1>1, <1>2, FormedRow DEF NoneAdded

\* Rows of db that are rewritten one by one.
LEMMA RowsAdd ==
  ASSUME WiredDb, NEW x, NEW S, NEW T, S = [db EXCEPT !.task = T],
         \A t \in TaskId : /\ Formed(T[t])
                           /\ TakenBack(T[t], x) => TakenBack(task[t], x)
  PROVE  NoneAdded(S, x)
<1>1. "task" \in DOMAIN S /\ S.task = T
  BY DEF db
<1> QED
  BY <1>1 DEF NoneAdded

LEMMA CreateTaskJoins ==
  ASSUME WiredDb, NEW x, NEW id, NEW n, CreateTask(id, n)
  PROVE  NoneJoins(x)
<1> DEFINE S == [db EXCEPT !.task[id] = NewRow(db, n)]
           T == [task EXCEPT ![id] = NewRow(db, n)]
<1>1. Commit(S, {id})
  BY DEF CreateTask
<1>2. db.task = task /\ task \in [TaskId -> Row]
  BY DbFacts DEF WiredDb, Sound
<1>3. NewRow(db, n).state = "live" /\ Formed(NewRow(db, n))
  BY DEF NewRow, NoRow, Formed
<1>4. \A t \in TaskId : T[t] = task[t] \/ T[t] = NewRow(db, n)
  BY <1>2
<1>5. \A t \in TaskId : Formed(T[t]) /\ (TakenBack(T[t], x) => TakenBack(task[t], x))
  BY <1>2, <1>3, <1>4, FormedRow DEF TakenBack
<1>6. S = [db EXCEPT !.task = T]
  BY <1>2
<1> HIDE DEF S, T
<1>7. NoneAdded(S, x)
  BY <1>5, <1>6, RowsAdd
<1> QED
  BY <1>1, <1>7, CommitJoins

LEMMA StatusJoins ==
  ASSUME WiredDb, NEW x, NEW t, NEW s
  PROVE  NoneAdded([db EXCEPT !.task[t].status = s], x)
<1> DEFINE S == [db EXCEPT !.task[t].status = s]
           T == [task EXCEPT ![t].status = s]
<1>1. db.task = task /\ task \in [TaskId -> Row]
  BY DbFacts DEF WiredDb, Sound
<1>2. S = [db EXCEPT !.task = T]
  BY <1>1
<1>3. \A u \in TaskId : T[u] = task[u] \/ T[u] = [task[u] EXCEPT !.status = s]
  BY <1>1
<1>4. \A row \in Row : LET new == [row EXCEPT !.status = s]
                       IN  /\ Formed(new) /\ new.state = row.state /\ new.dwt = row.dwt
                           /\ new.superseded = row.superseded
  BY DEF Row, Formed
<1>5. \A u \in TaskId : Formed(T[u]) /\ (TakenBack(T[u], x) => TakenBack(task[u], x))
  BY <1>1, <1>3, <1>4, FormedRow DEF TakenBack
<1> HIDE DEF S, T
<1> QED
  BY <1>2, <1>5, RowsAdd DEF S

LEMMA UpdateTaskJoins ==
  ASSUME WiredDb, NEW x, NEW t, NEW f, UpdateTask(t, f)
  PROVE  NoneJoins(x)
<1> DEFINE S == Edited(db, t, f)
           old == task[t]
           row == EditedRow(db, t, f)
           new == WithSeries(db, row)
           S1 == [db EXCEPT !.task[t] = new]
           T1 == [task EXCEPT ![t] = new]
           fwd == IF EditsFuture(f) /\ Given(f, "repeat") /\ new.due # None
                  THEN LaterOccurrences(S1, t, new.due) ELSE {}
           U == [u \in TaskId |-> IF u \in fwd THEN [T1[u] EXCEPT !.repeat = f.repeat]
                                  ELSE T1[u]]
<1>1. Commit(S, EditSeeds(db, t, f)) /\ t \in TaskId
  BY DEF UpdateTask, Live
<1>2. db.task = task /\ task \in [TaskId -> Row] /\ old \in Row
  BY <1>1, DbFacts DEF WiredDb, Sound
<1>3. /\ Formed(new) /\ new.state = old.state /\ new.dwt = old.dwt
      /\ new.superseded = old.superseded
  <2>1. /\ Formed(row) /\ row.state = old.state /\ row.dwt = old.dwt
        /\ row.superseded = old.superseded
    BY <1>2 DEF EditedRow, Formed, Row
  <2>2. \E s : new = [row EXCEPT !.series = s]
    BY DEF WithSeries
  <2> HIDE DEF row, new
  <2> QED
    BY <2>1, <2>2 DEF Formed
<1>6. S = [S1 EXCEPT !.task = [u \in TaskId |-> IF u \in fwd
                                  THEN [S1.task[u] EXCEPT !.repeat = f.repeat]
                                  ELSE S1.task[u]]]
  BY DEF Edited
<1> HIDE DEF new, row, fwd
<1>4. S1.task = T1 /\ S1 = [db EXCEPT !.task = T1]
  BY <1>2 DEF db
<1>5. \A u \in TaskId : /\ Formed(T1[u]) /\ T1[u].state = task[u].state
                        /\ T1[u].dwt = task[u].dwt /\ T1[u].superseded = task[u].superseded
  BY <1>2, <1>3, FormedRow
<1> HIDE DEF T1
<1>7. S = [db EXCEPT !.task = U]
  <2> HIDE DEF S, S1
  <2>1. S = [S1 EXCEPT !.task = U]
    BY <1>4, <1>6
  <2> HIDE DEF U
  <2>2. S = [[db EXCEPT !.task = T1] EXCEPT !.task = U]
    BY <1>4, <2>1
  <2>3. DOMAIN db = {"task", "dep", "project"}
    BY DEF db
  <2> QED
    BY <2>2, <2>3
<1>8. \A u \in TaskId : Formed(U[u]) /\ (TakenBack(U[u], x) => TakenBack(task[u], x))
  <2> SUFFICES ASSUME NEW u \in TaskId
               PROVE  Formed(U[u]) /\ (TakenBack(U[u], x) => TakenBack(task[u], x))
    OBVIOUS
  <2>1. /\ Formed(U[u]) /\ U[u].state = T1[u].state /\ U[u].dwt = T1[u].dwt
        /\ U[u].superseded = T1[u].superseded
    BY <1>5 DEF Formed
  <2> QED
    BY <1>5, <2>1 DEF TakenBack
<1> HIDE DEF S, U
<1>9. NoneAdded(S, x)
  BY <1>7, <1>8, RowsAdd
<1> QED
  BY <1>1, <1>9, CommitJoins

LEMMA MarkDoneJoins ==
  ASSUME WiredDb, NEW x, NEW t, MarkDone(t) \/ ReopenTask(t)
  PROVE  NoneJoins(x)
<1>1. PICK s : \/ Commit([db EXCEPT !.task[t].status = s], {t})
               \/ Write([db EXCEPT !.task[t].status = s])
  BY DEF MarkDone, ReopenTask
<1>2. NoneAdded([db EXCEPT !.task[t].status = s], x)
  BY StatusJoins
<1> QED
  BY <1>1, <1>2, CommitJoins, WriteJoins

LEMMA StopRecurrenceJoins ==
  ASSUME WiredDb, NEW x, NEW t, StopRecurrence(t)
  PROVE  NoneJoins(x)
<1>1. PICK rows : Write([db EXCEPT !.task = [u \in TaskId |->
                      IF u \in rows THEN [task[u] EXCEPT !.repeat = 0] ELSE task[u]]])
  BY DEF StopRecurrence
<1> DEFINE T == [u \in TaskId |-> IF u \in rows THEN [task[u] EXCEPT !.repeat = 0] ELSE task[u]]
           S == [db EXCEPT !.task = T]
<1>2. ASSUME NEW u \in TaskId
      PROVE  Formed(T[u]) /\ (TakenBack(T[u], x) => TakenBack(task[u], x))
  <2>1. Formed(task[u])
    BY DbFacts, FormedRow
  <2>2. \/ T[u] = task[u]
        \/ /\ Formed(T[u]) /\ T[u].state = task[u].state /\ T[u].dwt = task[u].dwt
           /\ T[u].superseded = task[u].superseded
    BY <2>1 DEF Formed
  <2> QED
    BY <2>1, <2>2 DEF TakenBack
<1>3. Write(S)
  BY <1>1
<1> HIDE DEF T
<1>4. NoneAdded(S, x)
  BY <1>2, RowsAdd
<1> HIDE DEF S
<1> QED
  BY <1>3, <1>4, WriteJoins

LEMMA LinkJoins ==
  ASSUME WiredDb, NEW x, NEW t, NEW b, AddDependency(t, b)
  PROVE  NoneJoins(x)
<1>1. task' = task
  BY DbFacts DEF AddDependency, Write, db
<1> QED
  BY <1>1 DEF NoneJoins

LEMMA UnlinkJoins ==
  ASSUME WiredDb, NEW x, NEW e, RemoveDependency(e)
  PROVE  NoneJoins(x)
<1> DEFINE S == [db EXCEPT !.dep = @ \ {e}]
<1>1. Commit(S, {e[1]})
  BY DEF RemoveDependency
<1>2. "task" \in DOMAIN S /\ S.task = db.task
  BY DEF db
<1> HIDE DEF S
<1>3. NoneAdded(S, x)
  BY <1>2, DbAdds DEF NoneAdded
<1> QED
  BY <1>1, <1>3, CommitJoins

LEMMA NewProjectJoins ==
  ASSUME WiredDb, NEW x, NEW p, CreateProject(p)
  PROVE  NoneJoins(x)
<1>1. task' = task
  BY DbFacts DEF CreateProject, Write, db
<1> QED
  BY <1>1 DEF NoneJoins

\* A cascade of another row takes nothing for x.
LEMMA TrashingAdds ==
  ASSUME NEW S, NEW x, NoneAdded(S, x), NEW A, NEW root, root # x,
         root \in A => root \in TaskId /\ S.task[root].dwt # x
  PROVE  NoneAdded(Trashing(S, A, root), x)
<1> DEFINE T == [t \in TaskId |->
                   IF t \notin A THEN S.task[t]
                   ELSE [S.task[t] EXCEPT !.state = "trashed",
                                          !.dwt = IF t = root THEN @ ELSE root]]
           R == [S EXCEPT !.task = T]
<1>1. Trashing(S, A, root) = R
  BY DEF Trashing
<1>2. ASSUME NEW t \in TaskId
      PROVE  Formed(T[t]) /\ (TakenBack(T[t], x) => TakenBack(task[t], x))
  <2>1. Formed(S.task[t]) /\ (TakenBack(S.task[t], x) => TakenBack(task[t], x))
    BY DEF NoneAdded
  <2>2. CASE t \in A
    <3>1. /\ Formed(T[t])
          /\ T[t].dwt = IF t = root THEN S.task[t].dwt ELSE root
      BY <2>1, <2>2 DEF Formed
    <3> QED
      BY <2>2, <3>1 DEF TakenBack
  <2> QED
    BY <2>1, <2>2
<1> HIDE DEF T
<1>3. "task" \in DOMAIN R /\ R.task = T
  BY DEF NoneAdded
<1> HIDE DEF R
<1> QED
  BY <1>1, <1>2, <1>3 DEF NoneAdded

\* A row the request leaves live and alone.
Untouched(x) == x \in Live(db) /\ task'[x] = task[x]

LEMMA LiveUnmarked ==
  ASSUME WiredDb, NEW t \in Live(db)
  PROVE  t \in TaskId /\ task[t].state = "live" /\ task[t].dwt = None
<1>1. t \in TaskId /\ task[t].state = "live"
  BY DbFacts DEF Live
<1> QED
  BY <1>1, DbFacts DEF RowSound, Unmarked

\* A row that a store holds is as it was once its series have rolled forward.
LEMMA CommitHolds ==
  ASSUME NEW S, "task" \in DOMAIN S, NEW seeds, Commit(S, seeds), NEW t \in TaskId,
         S.task[t].state # "none"
  PROVE  task'[t] = S.task[t]
<1> DEFINE H == Inserting(S, DueHeads(S, seeds))
           R == InsertOccurrences(S, H)
<1>1. task' = R.task
  BY DEF Commit, Reconcile, RollForward, Write
<1> HIDE DEF H, R
<1>2. R.task[t] = S.task[t]
  BY InsertedAt DEF R
<1> QED
  BY <1>1, <1>2

LEMMA SoftDeleteTaskJoins ==
  ASSUME WiredDb, NEW x, x # None, NEW t, SoftDeleteTask(t), Untouched(x)
  PROVE  NoneJoins(x)
<1> DEFINE A == LiveSubtree(db, t)
           S == Trashing(db, A, t)
<1>1. t \in Live(db) /\ Commit(S, Neighbours(db, A))
  BY DEF SoftDeleteTask
<1>2. t \in TaskId /\ task[t].dwt = None /\ db.task = task /\ db \in Store /\ task[t] \in Row
  BY <1>1, LiveUnmarked, DbFacts
<1>3. t \in A
  BY <1>2, ReachHolds DEF LiveSubtree
<1> HIDE DEF A
<1>4. "task" \in DOMAIN S /\ S.task[t].state = "trashed"
  BY <1>2, <1>3 DEF Trashing, db, Row
<1> HIDE DEF S
<1>5. task'[t].state = "trashed"
  BY <1>1, <1>2, <1>4, CommitHolds
<1>6. x # t
  BY <1>2, <1>5 DEF Untouched, Live
<1>7. NoneAdded(S, x)
  BY <1>2, <1>6, DbAdds, TrashingAdds DEF S
<1> QED
  BY <1>1, <1>7, CommitJoins

LEMMA SkipOccurrenceJoins ==
  ASSUME WiredDb, NEW x, x # None, NEW t, SkipOccurrence(t), Untouched(x)
  PROVE  NoneJoins(x)
<1> DEFINE next == RollForward(db, {t})
           A == Checklist(next, t)
           gone == Trashing(next, A, t)
           done == Reconcile(gone, SkipSeeds(db, t))
           row == done.task[t]
           S == [done EXCEPT !.task[t] = [@ EXCEPT !.state = "trashed", !.skipped = TRUE]]
<1>1. t \in Live(db) /\ Write(S)
  BY DEF SkipOccurrence, Skipped, ChecklistGone
<1>2. /\ t \in TaskId /\ task[t].dwt = None /\ task[t].state = "live"
      /\ db.task = task /\ "task" \in DOMAIN db
  BY <1>1, LiveUnmarked, DbFacts DEF db
<1>3. NoneAdded(next, x)
  BY DbAdds, RollForwardAdds
<1>4. next.task[t] = task[t]
  BY <1>2, InsertedAt DEF RollForward
<1>5. t \notin A
  BY DEF Checklist
<1> HIDE DEF next, A
<1>6. gone.task[t] = task[t] /\ "task" \in DOMAIN gone
  BY <1>2, <1>3, <1>4, <1>5 DEF Trashing, NoneAdded
<1> HIDE DEF gone
<1>7. done.task[t] = task[t]
  BY <1>2, <1>6, InsertedAt DEF Reconcile, RollForward
<1>8. "task" \in DOMAIN done /\ DOMAIN done.task = TaskId /\ Formed(task[t])
  BY <1>2, <1>6, InsertedAt, InsertedColumn, DbFacts, FormedRow DEF Reconcile, RollForward
<1> HIDE DEF done
<1> DEFINE new == [done.task[t] EXCEPT !.state = "trashed", !.skipped = TRUE]
<1>9. /\ Formed(new) /\ new.state = "trashed" /\ new.dwt = None
  BY <1>2, <1>7, <1>8 DEF Formed
<1>10. "task" \in DOMAIN S /\ \A u \in TaskId : S.task[u] = IF u = t THEN new ELSE done.task[u]
  BY <1>8
<1> HIDE DEF S, new
<1>11. x # t
  BY <1>1, <1>2, <1>9, <1>10 DEF Write, Untouched, Live
<1>12. NoneAdded(done, x)
  <2>1. NoneAdded(gone, x)
    BY <1>3, <1>5, <1>11, TrashingAdds DEF gone
  <2> QED
    BY <2>1, RollForwardAdds DEF done, Reconcile
<1>13. NoneAdded(S, x)
  BY <1>9, <1>10, <1>12 DEF NoneAdded, TakenBack
<1> QED
  BY <1>1, <1>13, WriteJoins

LEMMA RestoredJoins ==
  ASSUME WiredDb, NEW x, NEW A, Commit(Restored(db, A), A)
  PROVE  NoneJoins(x)
<1> DEFINE T == [t \in TaskId |-> IF t \in A THEN RestoredRow(db, t) ELSE db.task[t]]
           S == [db EXCEPT !.task = T]
<1>1. Commit(S, A)
  BY DEF Restored
<1>2. ASSUME NEW t \in TaskId
      PROVE  Formed(T[t]) /\ (TakenBack(T[t], x) => TakenBack(task[t], x))
  <2>1. Formed(task[t]) /\ db.task = task
    BY DbFacts, FormedRow
  <2>2. CASE t \in A
    <3>1. Formed(RestoredRow(db, t)) /\ RestoredRow(db, t).state = "live"
      BY <2>1 DEF RestoredRow, Formed
    <3> QED
      BY <2>2, <3>1 DEF TakenBack
  <2> QED
    BY <2>1, <2>2
<1> HIDE DEF T
<1>3. NoneAdded(S, x)
  BY <1>2, RowsAdd
<1> HIDE DEF S
<1> QED
  BY <1>1, <1>3, CommitJoins

LEMMA RewindJoins ==
  ASSUME WiredDb, NEW x, NEW t, CommitRewind(t)
  PROVE  NoneJoins(x)
<1> DEFINE M == Rescheduled(db, NextLive(db, t), db.task[t].due)
           S == Supersede(M, t)
<1>1. Commit(S, {NextLive(db, t)})
  BY DEF CommitRewind, Rewound
<1>2. NoneAdded(M, x)
  <2> DEFINE T == [u \in TaskId |-> IF u \in LiveSubtree(db, NextLive(db, t))
                                    THEN [db.task[u] EXCEPT !.due = db.task[t].due]
                                    ELSE db.task[u]]
             R == [db EXCEPT !.task = T]
  <2>1. M = R
    BY DEF Rescheduled
  <2>2. ASSUME NEW u \in TaskId
        PROVE  Formed(T[u]) /\ (TakenBack(T[u], x) => TakenBack(task[u], x))
    <3>1. Formed(task[u]) /\ db.task = task
      BY DbFacts, FormedRow
    <3>2. \/ T[u] = task[u]
          \/ /\ Formed(T[u]) /\ T[u].state = task[u].state /\ T[u].dwt = task[u].dwt
             /\ T[u].superseded = task[u].superseded
      BY <3>1 DEF Formed
    <3> HIDE DEF T
    <3> QED
      BY <3>1, <3>2 DEF TakenBack
  <2> HIDE DEF T
  <2>3. NoneAdded(R, x)
    BY <2>2, RowsAdd
  <2> QED
    BY <2>1, <2>3
<1> HIDE DEF M
<1>3. NoneAdded(S, x)
  <2> DEFINE A == {t} \cup Stamped(M, t)
             T == [u \in TaskId |-> IF u \in A
                     THEN [M.task[u] EXCEPT !.superseded = TRUE,
                                            !.skipped = IF u = t THEN FALSE ELSE @]
                     ELSE M.task[u]]
  <2>1. S = [M EXCEPT !.task = T]
    BY DEF Supersede
  <2>2. ASSUME NEW u \in TaskId
        PROVE  Formed(T[u]) /\ (TakenBack(T[u], x) => TakenBack(task[u], x))
    <3>1. Formed(M.task[u]) /\ (TakenBack(M.task[u], x) => TakenBack(task[u], x))
      BY <1>2 DEF NoneAdded
    <3>2. \/ T[u] = M.task[u]
          \/ Formed(T[u]) /\ T[u].superseded = TRUE
      BY <3>1 DEF Formed
    <3> HIDE DEF T
    <3> QED
      BY <3>1, <3>2 DEF TakenBack
  <2> HIDE DEF T, S
  <2>3. "task" \in DOMAIN S /\ S.task = T
    BY <1>2, <2>1 DEF NoneAdded
  <2> QED
    BY <2>2, <2>3 DEF NoneAdded
<1> HIDE DEF S
<1> QED
  BY <1>1, <1>3, CommitJoins

LEMMA RestoreJoins ==
  ASSUME WiredDb, NEW x, NEW t, RestoreTask(t) \/ RestoreTaskSubtree(t)
  PROVE  NoneJoins(x)
<1>1. \/ CommitRewind(t)
      \/ \E A : Commit(Restored(db, A), A)
  BY DEF RestoreTask, RestoreTaskSubtree
<1> QED
  BY <1>1, RestoredJoins, RewindJoins

LEMMA PurgedAdds ==
  ASSUME WiredDb, NEW x, x # None, NEW A \in SUBSET TaskId
  PROVE  NoneAdded(Purged(db, A), x) /\ Purged(db, A) \in Store
<1>1. /\ db \in Store /\ db.task = task
  BY DbFacts
<1>2. Purged(db, A) \in Store
  BY <1>1, PurgedFacts
<1>3. "task" \in DOMAIN Purged(db, A)
  BY <1>2 DEF Store
<1>4. ASSUME NEW t \in TaskId
      PROVE  /\ Formed(Purged(db, A).task[t])
             /\ TakenBack(Purged(db, A).task[t], x) => TakenBack(task[t], x)
  <2> DEFINE new == Purged(db, A).task[t]
  <2>1. new \in Row
    BY <1>2 DEF Store
  <2>2. new = NoRow \/ new = PurgedRow(task[t], A)
    BY <1>1, PurgedAt
  <2>3. task[t] \in Row
    BY DbFacts
  <2> HIDE DEF new
  <2>4. CASE new = PurgedRow(task[t], A)
    <3>1. /\ new.state = task[t].state /\ new.superseded = task[t].superseded
          /\ new.dwt = ClearedRef(task[t].dwt, A)
      BY <2>3, <2>4, PurgedRowShape
    <3> QED
      BY <2>1, <3>1, FormedRow DEF TakenBack, ClearedRef, new
  <2> QED
    BY <2>1, <2>2, <2>4, FormedRow, NoRowType DEF TakenBack, new
<1> QED
  BY <1>2, <1>3, <1>4 DEF NoneAdded

LEMMA PurgeTaskJoins ==
  ASSUME WiredDb, NEW x, x # None, NEW t, PurgeTask(t)
  PROVE  NoneJoins(x)
<1> DEFINE A == PurgeSet(db, t)
<1>1. t \in Trashed(db) /\ Write(Purged(db, A))
  BY DEF PurgeTask
<1>2. A \in SUBSET TaskId
  BY ReachHolds DEF PurgeSet, Reach
<1> HIDE DEF A
<1> QED
  BY <1>1, <1>2, PurgedAdds, WriteJoins

\* Rows of S that are let go of by a project, if at all.
LEMMA LetGoAdds ==
  ASSUME NEW S, NEW x, NoneAdded(S, x), NEW P, NEW T, "task" \in DOMAIN T,
         T.task = [t \in TaskId |-> IF S.task[t].dwp \in P
                                    THEN [S.task[t] EXCEPT !.dwp = None] ELSE S.task[t]]
  PROVE  NoneAdded(T, x)
<1>1. ASSUME NEW t \in TaskId
      PROVE  /\ Formed(T.task[t])
             /\ TakenBack(T.task[t], x) => TakenBack(task[t], x)
  <2>1. Formed(S.task[t]) /\ (TakenBack(S.task[t], x) => TakenBack(task[t], x))
    BY DEF NoneAdded
  <2>2. T.task[t] = S.task[t] \/ T.task[t] = [S.task[t] EXCEPT !.dwp = None]
    OBVIOUS
  <2>3. \/ T.task[t] = S.task[t]
        \/ /\ Formed(T.task[t]) /\ T.task[t].state = S.task[t].state
           /\ T.task[t].dwt = S.task[t].dwt /\ T.task[t].superseded = S.task[t].superseded
    BY <2>1, <2>2 DEF Formed
  <2> QED
    BY <2>1, <2>3 DEF TakenBack
<1> QED
  BY <1>1 DEF NoneAdded

LEMMA PurgeProjectJoins ==
  ASSUME WiredDb, NEW x, x # None, NEW p, PurgeProject(p)
  PROVE  NoneJoins(x)
<1> DEFINE A == {t \in Trashed(db) : task[t].project = p}
           S == Purged(db, A)
           T == [S EXCEPT !.project[p] = "none",
                          !.task = [t \in TaskId |-> IF S.task[t].dwp = p
                                                     THEN [S.task[t] EXCEPT !.dwp = None]
                                                     ELSE S.task[t]]]
<1>1. Write(T)
  BY DEF PurgeProject
<1>2. A \in SUBSET TaskId
  BY DEF Trashed
<1> HIDE DEF A
<1>3. NoneAdded(S, x) /\ S \in Store
  BY <1>2, PurgedAdds
<1> HIDE DEF S
<1>4. /\ "task" \in DOMAIN T
      /\ T.task = [t \in TaskId |-> IF S.task[t].dwp \in {p}
                                    THEN [S.task[t] EXCEPT !.dwp = None] ELSE S.task[t]]
  BY <1>3 DEF Store
<1> HIDE DEF T
<1>5. NoneAdded(T, x)
  BY <1>3, <1>4, LetGoAdds
<1> QED
  BY <1>1, <1>5, WriteJoins

LEMMA SelectionJoins ==
  ASSUME WiredDb, NEW x, x # None, NEW A \in SUBSET Trashed(db),
         NEW P \in SUBSET Purgeable(db), Write(PurgedSelection(db, A, P))
  PROVE  NoneJoins(x)
<1> DEFINE R == RemovedTaskIds(db, A, P)
           S == Purged(db, R)
           T == WithoutProjects(S, P)
<1>1. db \in Store
  BY DbFacts
<1>2. PurgedSelection(db, A, P) = T
  BY <1>1, SelectionPurged
<1>3. R \in SUBSET TaskId
  BY <1>1, RemovedSwept DEF Trashed
<1> HIDE DEF R
<1>4. NoneAdded(S, x) /\ S \in Store
  BY <1>3, PurgedAdds
<1> HIDE DEF S
<1>5. /\ "task" \in DOMAIN T
      /\ T.task = [t \in TaskId |-> IF S.task[t].dwp \in P
                                    THEN [S.task[t] EXCEPT !.dwp = None] ELSE S.task[t]]
  BY <1>4 DEF Store, WithoutProjects
<1> HIDE DEF T
<1>6. NoneAdded(T, x)
  BY <1>4, <1>5, LetGoAdds
<1> QED
  BY <1>2, <1>6, WriteJoins

LEMMA RestoreProjectAloneJoins ==
  ASSUME WiredDb, NEW x, NEW p, RestoreProjectAlone(p)
  PROVE  NoneJoins(x)
<1> DEFINE T == [db EXCEPT
              !.project[p] = "live",
              !.task = [t \in TaskId |-> IF task[t].dwp = p
                                         THEN [task[t] EXCEPT !.dwp = None] ELSE task[t]]]
<1>1. Write(T)
  BY DEF RestoreProjectAlone
<1>2. NoneAdded(db, x) /\ db.task = task /\ db \in Store
  BY DbAdds, DbFacts
<1>3. /\ "task" \in DOMAIN T
      /\ T.task = [t \in TaskId |-> IF db.task[t].dwp \in {p}
                                    THEN [db.task[t] EXCEPT !.dwp = None] ELSE db.task[t]]
  BY <1>2 DEF db
<1> HIDE DEF T
<1>4. NoneAdded(T, x)
  BY <1>2, <1>3, LetGoAdds
<1> QED
  BY <1>1, <1>4, WriteJoins

LEMMA RestoreProjectWithTasksJoins ==
  ASSUME WiredDb, NEW x, NEW p, RestoreProjectWithTasks(p)
  PROVE  NoneJoins(x)
<1> DEFINE A == ProjectCascade(db, p)
           T == [t \in TaskId |-> IF t \in A
                                  THEN [task[t] EXCEPT !.state = "live", !.dwp = None]
                                  ELSE task[t]]
           S == [db EXCEPT !.project[p] = "live", !.task = T]
<1>1. Commit(S, A)
  BY DEF RestoreProjectWithTasks
<1>2. "task" \in DOMAIN S /\ S.task = T
  BY DEF db
<1>3. ASSUME NEW t \in TaskId
      PROVE  Formed(T[t]) /\ (TakenBack(T[t], x) => TakenBack(task[t], x))
  <2>1. Formed(task[t])
    BY DbFacts, FormedRow
  <2>2. T[t] = task[t] \/ (Formed(T[t]) /\ T[t].state = "live")
    BY <2>1 DEF Formed
  <2> HIDE DEF T
  <2> QED
    BY <2>1, <2>2 DEF TakenBack
<1> HIDE DEF T, S
<1>4. NoneAdded(S, x)
  BY <1>2, <1>3 DEF NoneAdded
<1> QED
  BY <1>1, <1>4, CommitJoins

LEMMA SoftDeleteProjectJoins ==
  ASSUME WiredDb, NEW x, x # None, NEW p, SoftDeleteProject(p)
  PROVE  NoneJoins(x)
<1> DEFINE T == [t \in TaskId |-> IF t \in ProjectTasks(db, p)
                                  THEN [db.task[t] EXCEPT !.state = "trashed", !.dwp = p]
                                  ELSE db.task[t]]
           S == [db EXCEPT !.task = T]
           M == Reconcile(S, ProjectNeighbours(db, p))
           R == [M EXCEPT !.project[p] = "trashed"]
<1>1. Write(R)
  BY DEF SoftDeleteProject, TrashedWithProject
<1>2. ASSUME NEW t \in TaskId
      PROVE  Formed(T[t]) /\ (TakenBack(T[t], x) => TakenBack(task[t], x))
  <2>1. Formed(task[t]) /\ db.task = task
    BY DbFacts, FormedRow
  <2>2. CASE t \in ProjectTasks(db, p)
    <3>1. task[t].dwt = None
      BY <2>2, LiveUnmarked DEF ProjectTasks
    <3>2. Formed(T[t]) /\ T[t].dwt = None
      BY <2>1, <2>2, <3>1 DEF Formed
    <3> QED
      BY <3>2 DEF TakenBack
  <2> QED
    BY <2>1, <2>2
<1> HIDE DEF T
<1>3. NoneAdded(S, x)
  BY <1>2, RowsAdd
<1> HIDE DEF S
<1>4. NoneAdded(M, x)
  BY <1>3, RollForwardAdds DEF Reconcile
<1> HIDE DEF M
<1>5. "task" \in DOMAIN R /\ R.task = M.task
  BY <1>4 DEF NoneAdded
<1> HIDE DEF R
<1>6. NoneAdded(R, x)
  BY <1>4, <1>5 DEF NoneAdded
<1> QED
  BY <1>1, <1>6, WriteJoins

LEMMA NextJoins ==
  ASSUME WiredDb, Next, NEW x, x # None, Untouched(x)
  PROVE  NoneJoins(x)
<1>1. ASSUME NEW id \in 1..MaxPosted, NEW n \in NewTasks, CreateTask(id, n)
      PROVE  NoneJoins(x)
  BY <1>1, CreateTaskJoins
<1>2. ASSUME NEW t \in TaskId, NEW f \in Patches, UpdateTask(t, f)
      PROVE  NoneJoins(x)
  BY <1>2, UpdateTaskJoins
<1>3. ASSUME NEW t \in TaskId, MarkDone(t) \/ ReopenTask(t)
      PROVE  NoneJoins(x)
  BY <1>3, MarkDoneJoins
<1>4. ASSUME NEW t \in TaskId, SoftDeleteTask(t)
      PROVE  NoneJoins(x)
  BY <1>4, SoftDeleteTaskJoins
<1>5. ASSUME NEW t \in TaskId, SkipOccurrence(t)
      PROVE  NoneJoins(x)
  BY <1>5, SkipOccurrenceJoins
<1>6. ASSUME NEW t \in TaskId, StopRecurrence(t)
      PROVE  NoneJoins(x)
  BY <1>6, StopRecurrenceJoins
<1>7. ASSUME NEW t \in 1..MaxPosted, NEW b \in 1..MaxPosted, AddDependency(t, b)
      PROVE  NoneJoins(x)
  BY <1>7, LinkJoins
<1>8. ASSUME NEW e \in TaskId \X TaskId, RemoveDependency(e)
      PROVE  NoneJoins(x)
  BY <1>8, UnlinkJoins
<1>9. ASSUME NEW t \in TaskId, RestoreTask(t) \/ RestoreTaskSubtree(t)
      PROVE  NoneJoins(x)
  BY <1>9, RestoreJoins
<1>10. ASSUME NEW t \in TaskId, PurgeTask(t)
       PROVE  NoneJoins(x)
  BY <1>10, PurgeTaskJoins
<1>11. ASSUME NEW p \in ProjectId, CreateProject(p)
       PROVE  NoneJoins(x)
  BY <1>11, NewProjectJoins
<1>12. ASSUME NEW p \in ProjectId, SoftDeleteProject(p)
       PROVE  NoneJoins(x)
  BY <1>12, SoftDeleteProjectJoins
<1>13. ASSUME NEW p \in ProjectId, RestoreProjectWithTasks(p)
       PROVE  NoneJoins(x)
  BY <1>13, RestoreProjectWithTasksJoins
<1>14. ASSUME NEW p \in ProjectId, RestoreProjectAlone(p)
       PROVE  NoneJoins(x)
  BY <1>14, RestoreProjectAloneJoins
<1>15. ASSUME NEW p \in ProjectId, PurgeProject(p)
       PROVE  NoneJoins(x)
  BY <1>15, PurgeProjectJoins
<1> QED
  BY <1>1, <1>2, <1>3, <1>4, <1>5, <1>6, <1>7, <1>8, <1>9, <1>10, <1>11, <1>12, <1>13,
     <1>14, <1>15 DEF Next

-----------------------------------------------------------------------------
(* A receipt that nothing has overtaken still tells the truth               *)

\* A request that marks nothing for a row it leaves alone.
MarksNoOther == \A x \in TaskId : Untouched(x) => NoneJoins(x)

LEMMA StampsKept ==
  ASSUME WiredDb, NEW x, NoneJoins(x)
  PROVE  MarkedDescendants(db', x) \subseteq MarkedDescendants(db, x)
<1>1. db.task = task /\ db'.task = task'
  BY DEF db
<1> QED
  BY <1>1 DEF MarkedDescendants, Stamped, Trashed, NoneJoins, TakenBack

LEMMA TaskReceiptStays ==
  ASSUME WiredDb, TaskReceipt(receipt), ~Overtaken(receipt), MarksNoOther, receipt' = receipt
  PROVE  TaskReceipt(receipt)'
<1> DEFINE r == receipt
<1>1. /\ r.kind = "task" /\ r.root \in r.ids /\ r.ids \in SUBSET Live(db)
      /\ r.skipped \in BOOLEAN /\ (~r.skipped => r.ids = {r.root})
      /\ r.skipped => /\ task[r.root].series # None /\ task[r.root].due # None
                      /\ MarkedDescendants(db, r.root) = {}
  BY DEF TaskReceipt
<1>2. \A t \in r.ids : task'[t] = task[t] /\ t \in TaskId /\ task[t].state = "live"
  BY <1>1, LiveUnmarked DEF Overtaken, Touched
<1>3. db'.task = task'
  BY DEF db
<1>4. r.ids \in SUBSET Live(db')
  BY <1>2, <1>3 DEF Live
<1>5. ASSUME r.skipped
      PROVE  MarkedDescendants(db', r.root) = {}
  <2>1. r.root \in TaskId /\ Untouched(r.root)
    BY <1>1, <1>2 DEF Untouched
  <2>2. NoneJoins(r.root)
    BY <2>1 DEF MarksNoOther
  <2>3. MarkedDescendants(db', r.root) \subseteq MarkedDescendants(db, r.root)
    BY <2>2, StampsKept
  <2> QED
    BY <1>1, <1>5, <2>3
<1>6. receipt' = r
  OBVIOUS
<1> HIDE DEF r
<1> QED
  BY <1>1, <1>2, <1>4, <1>5, <1>6 DEF TaskReceipt

\* What the log leaves of a receipt after a request that overtakes it or not.
LEMMA AgedSound ==
  ASSUME WiredDb, ReceiptSound(receipt), MarksNoOther, Ages
  PROVE  ReceiptSound(receipt)'
<1>1. CASE receipt' = NoReceipt
  BY <1>1 DEF ReceiptSound
<1>2. CASE receipt' = receipt /\ ~Overtaken(receipt)
  <2>1. CASE receipt = NoReceipt
    BY <1>2, <2>1 DEF ReceiptSound
  <2>2. CASE TaskReceipt(receipt)
    <3>1. TaskReceipt(receipt)'
      BY <1>2, <2>2, TaskReceiptStays
    <3> QED
      BY <3>1 DEF ReceiptSound
  <2>3. CASE UnskipReceipt(receipt)
    <3>1. UnskipReceipt(receipt)'
      BY <1>2, <2>3 DEF UnskipReceipt
    <3> QED
      BY <3>1 DEF ReceiptSound
  <2>4. CASE ProjectRestored(receipt)
    <3>1. ProjectRestored(receipt)'
      BY <1>2, <2>4 DEF ProjectRestored
    <3> QED
      BY <3>1 DEF ReceiptSound
  <2> QED
    BY <2>1, <2>2, <2>3, <2>4 DEF ReceiptSound
<1>3. CASE /\ receipt.kind = "project"
           /\ receipt' = ProjectReceipt(receipt.project, {}, {})
  <2>1. ProjectRestored(receipt)
    BY <1>3, ReceiptOfKind
  <2>2. ProjectRestored(receipt)'
    BY <1>3, <2>1 DEF ProjectRestored, ProjectReceipt
  <2> QED
    BY <2>2 DEF ReceiptSound
<1>4. CASE receipt.kind = "unskip" /\ receipt' = [receipt EXCEPT !.same = FALSE]
  <2>1. UnskipReceipt(receipt)
    BY <1>4, ReceiptOfKind
  <2>2. UnskipReceipt([receipt EXCEPT !.same = FALSE])
    BY <2>1, ForgottenSound
  <2>3. UnskipReceipt(receipt')
    BY <1>4, <2>2
  <2> QED
    BY <2>3 DEF ReceiptSound, UnskipReceipt
<1> QED
  BY <1>1, <1>2, <1>3, <1>4 DEF Ages, Aged, Reusable

-----------------------------------------------------------------------------
(* The receipt of a restore                                                 *)

LEMMA UnskipReceiptSound ==
  ASSUME WiredDb, NEW t \in TaskId, Rewinds(db, t), receipt' = RestoreReceipt(db, t)
  PROVE  UnskipReceipt(receipt)'
<1> DEFINE P == PreviousDues(db, t)
<1>1. /\ db \in Store /\ db.task = task /\ \A u \in TaskId : task[u] \in Row
  BY DbFacts
<1>2. receipt' = [kind |-> "unskip", root |-> NextLive(db, t), original |-> t,
                  due |-> task[t].due, previous |-> P, same |-> TRUE]
  BY <1>1 DEF RestoreReceipt
<1>3. task[t].due \in Date
  BY <1>1 DEF Rewinds, Row
<1>4. \A u \in DOMAIN P : P[u] \in Date \cup {None}
  <2>1. LiveSubtree(db, NextLive(db, t)) \subseteq TaskId
    BY DEF LiveSubtree, Reach
  <2> QED
    BY <1>1, <2>1 DEF PreviousDues, Row
<1> HIDE DEF P
<1> QED
  BY <1>2, <1>3, <1>4, SMTT(30) DEF UnskipReceipt

LEMMA TaskReceiptSound ==
  ASSUME WiredDb, NEW t \in TaskId, RestoreTask(t), ~Rewinds(db, t),
         receipt' = RestoreReceipt(db, t)
  PROVE  TaskReceipt(receipt)'
<1> DEFINE A == PlainRestoreSet(db, t)
           T == [u \in TaskId |-> IF u \in A THEN RestoredRow(db, u) ELSE db.task[u]]
           S == Restored(db, A)
           r == receipt'
<1>1. t \in Trashed(db) /\ Commit(S, A)
  BY DEF RestoreTask
<1>2. db.task = task /\ \A u \in TaskId : task[u] \in Row /\ RowSound(task[u], Present(task), project)
  BY DbFacts
<1>3. /\ r.kind = "task" /\ r.root = t /\ r.ids = A /\ r.skipped = task[t].skipped
  BY <1>2 DEF RestoreReceipt
<1>4. t \in A /\ A \subseteq Trashed(db) /\ (~task[t].skipped => A = {t})
      /\ (task[t].skipped => MarkedDescendants(db, t) \subseteq A)
  BY <1>1, <1>2 DEF PlainRestoreSet, MarkedDescendants, Stamped
<1>5. ASSUME NEW u \in A
      PROVE  /\ u \in TaskId /\ task'[u] = RestoredRow(db, u)
             /\ task'[u].state = "live" /\ task'[u].series = task[u].series
             /\ task'[u].due = task[u].due
  <2>1. u \in TaskId
    BY <1>4 DEF Trashed
  <2>2. "task" \in DOMAIN S /\ S.task[u] = RestoredRow(db, u)
    BY <2>1 DEF Restored, db
  <2>3. /\ RestoredRow(db, u).state = "live"
        /\ RestoredRow(db, u).series = task[u].series /\ RestoredRow(db, u).due = task[u].due
    BY <1>2, <2>1 DEF RestoredRow, Row
  <2> HIDE DEF S, A
  <2>4. task'[u] = S.task[u]
    BY <1>1, <2>1, <2>2, <2>3, CommitHolds
  <2> QED
    BY <2>1, <2>2, <2>3, <2>4
<1>6. ASSUME task[t].skipped
      PROVE  /\ task'[t].series # None /\ task'[t].due # None
             /\ MarkedDescendants(db', t) = {}
  <2>1. task'[t].series # None /\ task'[t].due # None
    BY <1>2, <1>4, <1>5, <1>6, OnlyTrashIsSkipped
  <2>2. NoneJoins(t)
    BY <1>1, RestoredJoins
  <2>3. MarkedDescendants(db', t) \subseteq MarkedDescendants(db, t)
    BY <2>2, StampsKept
  <2>4. \A u \in MarkedDescendants(db', t) : task'[u].state = "trashed"
    BY DEF MarkedDescendants, Stamped, Trashed, db
  <2> QED
    BY <1>4, <1>5, <1>6, <2>1, <2>3, <2>4
<1>7. A \in SUBSET Live(db')
  BY <1>5 DEF Live, db
<1>8. task[t].skipped \in BOOLEAN
  BY <1>2 DEF Row
<1> HIDE DEF A, S, T
<1> QED
  BY <1>3, <1>4, <1>6, <1>7, <1>8 DEF TaskReceipt

LEMMA RestoreReceiptSound ==
  ASSUME WiredDb, NEW t \in TaskId, RestoreWithUndo(t)
  PROVE  ReceiptSound(receipt)'
<1>1. RestoreTask(t) /\ receipt' = RestoreReceipt(db, t)
  BY DEF RestoreWithUndo
<1>2. CASE Rewinds(db, t)
  <2>1. UnskipReceipt(receipt)'
    BY <1>1, <1>2, UnskipReceiptSound
  <2> QED
    BY <2>1 DEF ReceiptSound
<1>3. CASE ~Rewinds(db, t)
  <2>1. TaskReceipt(receipt)'
    BY <1>1, <1>3, TaskReceiptSound
  <2> QED
    BY <2>1 DEF ReceiptSound
<1> QED
  BY <1>2, <1>3

LEMMA ProjectReceiptSound ==
  ASSUME WiredDb, NEW p \in ProjectId, RestoreProjectWithUndo(p)
  PROVE  ReceiptSound(receipt)'
<1>1. project[p] = "trashed" /\ receipt' = ProjectReceipt(p, ProjectCascade(db, p), {})
  BY DEF RestoreProjectWithUndo, RestoreProjectWithTasks
<1>2. p # General
  BY <1>1 DEF WiredDb, Sound
<1>3. ProjectRestored(receipt)'
  BY <1>1, <1>2 DEF ProjectRestored, ProjectReceipt
<1> QED
  BY <1>3 DEF ReceiptSound

-----------------------------------------------------------------------------
(* The step: what a request finds, with a receipt in hand                   *)

\* The store is sound and wired, and the receipt followed is to be believed.
UndoReady == StoreWired /\ ReceiptSound(receipt)

\* What a request leaves, whichever it was.
LeftReady == StoreWired' /\ ReceiptSound(receipt)' /\ Live(db) \subseteq Present(task')

LEMMA KeptWired ==
  ASSUME Kept, Wired(db')
  PROVE  StoreWired' /\ Live(db) \subseteq Present(task')
<1>1. Acyclic(StoredWaits(db'))
  BY DEF Wired
<1>2. WaitsAcyclic'
  BY <1>1 DEF WaitsAcyclic
<1> QED
  BY <1>2 DEF Kept, StoreWired, StoreSound

LEMMA StutterReady ==
  ASSUME UndoReady, UNCHANGED uvars
  PROVE  LeftReady
<1>1. UNCHANGED vars /\ receipt' = receipt /\ db' = db
  BY DEF uvars, vars, db
<1>2. StoreWired' /\ Live(db) \subseteq Present(task')
  BY <1>1, StepWired, StepKept DEF UndoReady, StoreWired
<1>3. ReceiptSound(receipt)'
  BY <1>1 DEF UndoReady, ReceiptSound, TaskReceipt, UnskipReceipt, ProjectRestored, uvars
<1> QED
  BY <1>2, <1>3 DEF LeftReady

LEMMA NextReady ==
  ASSUME UndoReady, Next, Ages
  PROVE  LeftReady
<1>1. WiredDb
  BY WiredStore DEF UndoReady
<1>2. MarksNoOther
  BY <1>1, NextJoins DEF MarksNoOther, TaskId, None
<1>3. ReceiptSound(receipt)'
  BY <1>1, <1>2, AgedSound DEF UndoReady
<1>4. StoreWired' /\ Live(db) \subseteq Present(task')
  BY StepWired, StepKept DEF UndoReady, StoreWired
<1> QED
  BY <1>3, <1>4 DEF LeftReady

LEMMA RestoreReady ==
  ASSUME UndoReady, NEW t \in TaskId, RestoreWithUndo(t)
  PROVE  LeftReady
<1>1. WiredDb /\ RestoreTask(t)
  BY WiredStore DEF UndoReady, RestoreWithUndo
<1>2. Kept /\ Wired(db')
  BY <1>1, RestoreTaskKept, RestoreTaskStepped DEF WiredDb, Stepped
<1> QED
  BY <1>1, <1>2, KeptWired, RestoreReceiptSound DEF LeftReady

LEMMA RestoreProjectReady ==
  ASSUME UndoReady, NEW p \in ProjectId, RestoreProjectWithUndo(p)
  PROVE  LeftReady
<1>1. WiredDb /\ RestoreProjectWithTasks(p)
  BY WiredStore DEF UndoReady, RestoreProjectWithUndo
<1>2. Kept /\ Wired(db')
  BY <1>1, RestoreProjectWithTasksKept, RestoreProjectWithTasksStepped DEF WiredDb, Stepped
<1> QED
  BY <1>1, <1>2, KeptWired, ProjectReceiptSound DEF LeftReady

\* The Undo of a restore touches the rows the receipt names.
LEMMA UndoOvertakes ==
  ASSUME WiredDb, ReceiptSound(receipt), UndoTaskRestore
  PROVE  Overtaken(receipt)
<1> DEFINE r == receipt
           S == Retrashed(db, r)
<1>1. TaskReceipt(r) /\ Commit(S, Neighbours(db, r.ids))
  BY ReceiptOfKind DEF UndoTaskRestore
<1>2. r.kind = "task" /\ r.root \in r.ids
  BY <1>1 DEF TaskReceipt
<1>3. /\ r.root \in TaskId /\ task[r.root].state = "live" /\ S.task[r.root].state = "trashed"
      /\ "task" \in DOMAIN S
  BY <1>1, <1>2, RetrashedFacts DEF Rec
<1> HIDE DEF S
<1>4. task'[r.root] = S.task[r.root]
  BY <1>1, <1>3, CommitHolds
<1> QED
  BY <1>2, <1>3, <1>4 DEF Overtaken, Touched

LEMMA UndoReadyStep ==
  ASSUME UndoReady, UndoTaskRestore \/ UndoUnskip \/ UndoProjectRestore, Ages
  PROVE  LeftReady
<1>1. WiredDb /\ ReceiptSound(receipt)
  BY WiredStore DEF UndoReady
<1>2. Kept /\ Wired(db')
  BY <1>1, UndoTaskRestoreKept, UndoUnskipKept, UndoProjectRestoreKept
<1>3. ReceiptSound(receipt)'
  <2>1. CASE UndoTaskRestore
    <3>1. receipt' = NoReceipt
      BY <1>1, <2>1, UndoOvertakes DEF Ages, Aged
    <3> QED
      BY <3>1 DEF ReceiptSound
  <2>2. CASE UndoUnskip
    <3>1. /\ UnskipReceipt(receipt)
          /\ \/ receipt' = NoReceipt
             \/ receipt' = receipt
             \/ receipt' = [receipt EXCEPT !.same = FALSE]
      <4>1. UnskipReceipt(receipt) /\ receipt.kind = "unskip"
        BY <1>1, <2>2, ReceiptOfKind DEF UndoUnskip
      <4> QED
        BY <4>1 DEF Ages, Aged
    <3>2. receipt' = NoReceipt \/ UnskipReceipt(receipt')
      BY <3>1, ForgottenSound
    <3> QED
      BY <3>2 DEF ReceiptSound, UnskipReceipt
  <2>3. CASE UndoProjectRestore
    <3>1. /\ ProjectRestored(receipt)
          /\ \/ receipt' = NoReceipt
             \/ receipt' = receipt
             \/ receipt' = ProjectReceipt(receipt.project, {}, {})
      <4>1. ProjectRestored(receipt) /\ receipt.kind = "project"
        BY <1>1, <2>3, ReceiptOfKind DEF UndoProjectRestore
      <4> QED
        BY <4>1 DEF Ages, Aged, Reusable
    <3>2. receipt' = receipt => ProjectRestored(receipt)'
      BY <3>1 DEF ProjectRestored
    <3>3. receipt' = ProjectReceipt(receipt.project, {}, {}) => ProjectRestored(receipt)'
      BY <3>1 DEF ProjectRestored, ProjectReceipt
    <3> QED
      BY <3>1, <3>2, <3>3 DEF ReceiptSound
  <2> QED
    BY <2>1, <2>2, <2>3
<1> QED
  BY <1>2, <1>3, KeptWired DEF LeftReady

LEMMA PurgeReady ==
  ASSUME UndoReady, NEW A \in SUBSET Trashed(db), NEW P \in SUBSET Purgeable(db),
         Write(PurgedSelection(db, A, P)), Ages
  PROVE  LeftReady
<1>1. WiredDb /\ ReceiptSound(receipt)
  BY WiredStore DEF UndoReady
<1>2. Kept /\ Wired(db')
  BY <1>1, SelectionKept DEF Stepped
<1>3. MarksNoOther
  BY <1>1, SelectionJoins DEF MarksNoOther, TaskId, None
<1> QED
  BY <1>1, <1>2, <1>3, AgedSound, KeptWired DEF LeftReady

LEMMA StepReady ==
  ASSUME UndoReady, [UNext]_uvars
  PROVE  LeftReady
<1>1. CASE Next /\ Ages
  BY <1>1, NextReady
<1>2. ASSUME NEW t \in TaskId, RestoreWithUndo(t)
      PROVE  LeftReady
  BY <1>2, RestoreReady
<1>3. ASSUME NEW p \in ProjectId, RestoreProjectWithUndo(p)
      PROVE  LeftReady
  BY <1>3, RestoreProjectReady
<1>4. CASE (UndoTaskRestore \/ UndoUnskip \/ UndoProjectRestore) /\ Ages
  BY <1>4, UndoReadyStep
<1>5. ASSUME NEW A \in SUBSET Trashed(db), NEW P \in SUBSET Purgeable(db),
             PurgeSelected(A, P), Ages
      PROVE  LeftReady
  BY <1>5, PurgeReady DEF PurgeSelected
<1>6. CASE EmptyTrash /\ Ages
  BY <1>6, PurgeReady DEF EmptyTrash
<1>7. ASSUME NEW old \in Expired, NEW P \in {{}, Purgeable(db)}, PurgeExpired(old, P), Ages
      PROVE  LeftReady
  <2>1. old \in SUBSET Trashed(db) /\ ExpiredTaskRoots(db, old) \subseteq old
    BY DEF Expired, ExpiredTaskRoots
  <2> QED
    BY <1>7, <2>1, PurgeReady DEF PurgeExpired
<1>8. CASE UNCHANGED uvars
  BY <1>8, StutterReady
<1> QED
  BY <1>1, <1>2, <1>3, <1>4, <1>5, <1>6, <1>7, <1>8 DEF UNext

\* The inductive invariant with a receipt in hand: the store stays sound and wired
\* under the Undo of a restore and the bulk purges too, and the receipt is true to
\* the rows it names for as long as the log accepts it.
THEOREM UndoStaysReady == UndoSpec => []UndoReady
<1>1. UInit => UndoReady
  BY InitWired DEF UInit, UndoReady, ReceiptSound
<1>2. UndoReady /\ [UNext]_uvars => UndoReady'
  <2>1. UndoReady /\ [UNext]_uvars => StoreWired' /\ ReceiptSound(receipt)'
    BY StepReady DEF LeftReady
  <2> QED
    BY <2>1 DEF UndoReady
<1> QED
  BY <1>1, <1>2, PTL DEF UndoSpec

-----------------------------------------------------------------------------
(* Undo is the inverse                                                      *)

\* What restoring a row that was taken back would put there, its project live.
Unbinned(new, p) ==
  [new EXCEPT !.state = "live", !.project = p, !.dwt = None, !.dwp = None, !.skipped = FALSE]

LEMMA RebinnedRestores ==
  ASSUME NEW row \in Row, row.state = "live", Unmarked(row), NEW by \in TaskId \cup {None},
         NEW s \in BOOLEAN, NEW new, new = Rebinned(row, by, s)
  PROVE  Unbinned(new, row.project) = row /\ new.project = row.project
<1> DEFINE old == Unbinned(new, row.project)
<1>1. row.dwt = None /\ row.dwp = None /\ row.skipped = FALSE
  BY DEF Unmarked, Row
<1>2. new \in Row /\ new.project = row.project
  BY DEF Rebinned, Row, Lifecycle
<1>3. /\ new.status = row.status /\ new.parent = row.parent /\ new.due = row.due
      /\ new.repeat = row.repeat /\ new.series = row.series
      /\ new.superseded = row.superseded
  BY DEF Rebinned, Row
<1> HIDE DEF Rebinned
<1>4. old \in Row
  <2>1. row.project \in ProjectId
    BY DEF Row
  <2> QED
    BY <1>2, <2>1 DEF Unbinned, Row, Lifecycle
<1>5. /\ old.state = "live" /\ old.project = row.project /\ old.dwt = None
      /\ old.dwp = None /\ old.skipped = FALSE
  BY <1>2 DEF Unbinned, Row
<1>6. /\ old.status = row.status /\ old.parent = row.parent /\ old.due = row.due
      /\ old.repeat = row.repeat /\ old.series = row.series
      /\ old.superseded = row.superseded
  BY <1>2, <1>3 DEF Unbinned, Row
<1> HIDE DEF old
<1>7. old = row
  BY <1>1, <1>4, <1>5, <1>6 DEF Row
<1> QED
  BY <1>2, <1>7 DEF old

LEMMA UndoRestoreInverts ==
  ASSUME WiredDb, ReceiptSound(receipt), UndoTaskRestore
  PROVE  LET r == receipt
         IN  /\ \A t \in Rows(db) \ r.ids : task'[t] = task[t]
             /\ PlainRestoreSet(db', r.root) = r.ids
             /\ \A t \in r.ids : RestoredRow(db', t) = task[t]
<1> DEFINE r == receipt
           S == Retrashed(db, r)
<1>1. TaskReceipt(r) /\ Commit(S, Neighbours(db, r.ids))
  BY ReceiptOfKind DEF UndoTaskRestore
<1>2. /\ r.root \in r.ids /\ r.ids \in SUBSET Live(db) /\ r.skipped \in BOOLEAN
      /\ ~r.skipped => r.ids = {r.root}
      /\ r.skipped => MarkedDescendants(db, r.root) = {}
  BY <1>1 DEF TaskReceipt
<1>3. /\ S = Rec(RetrashedRows(r), dep, project) /\ Prepared(S, S)
      /\ RetrashedRows(r) \in [TaskId -> Row]
      /\ \A t \in TaskId \ r.ids : RetrashedRows(r)[t] = task[t]
      /\ \A t \in r.ids :
           /\ t \in TaskId /\ task[t].state = "live" /\ Unmarked(task[t])
           /\ RetrashedRows(r)[t] = Rebinned(task[t], BinnedBy(r, t), t = r.root /\ r.skipped)
           /\ RetrashedRows(r)[t].state = "trashed"
           /\ RetrashedRows(r)[t].dwt = BinnedBy(r, t)
           /\ RetrashedRows(r)[t].skipped = (t = r.root /\ r.skipped)
           /\ ~RetrashedRows(r)[t].superseded
  BY <1>1, RetrashedFacts, RetrashedWired
<1>4. "task" \in DOMAIN S /\ S.task = RetrashedRows(r) /\ S.project = project
  BY <1>3 DEF Rec
<1>5. /\ db.task = task /\ db.project = project
      /\ \A t \in TaskId : task[t] \in Row /\ RowSound(task[t], Present(task), project)
  BY DbFacts
<1> HIDE DEF S, r
<1>6. db'.project = project /\ db'.task = task'
  BY <1>1, <1>3, <1>4, CommitWired DEF db
<1>7. ASSUME NEW t \in TaskId
      PROVE  /\ t \in r.ids => task'[t] = S.task[t]
             /\ t \in Rows(db) \ r.ids => task'[t] = task[t]
             /\ t \notin Rows(db) => task'[t].state # "trashed"
  <2>1. S.task[t].state # "none" => task'[t] = S.task[t]
    BY <1>1, <1>4, CommitHolds
  <2>2. t \notin Rows(db) => S.task[t].state = "none"
    BY <1>2, <1>3, <1>4, <1>5 DEF Rows, Live
  <2>3. S.task[t].state = "none" => task'[t].state # "trashed"
    <3> DEFINE H == Inserting(S, DueHeads(S, Neighbours(db, r.ids)))
    <3>1. task' = InsertOccurrences(S, H).task
      BY <1>1 DEF Commit, Reconcile, RollForward, Write
    <3> HIDE DEF H
    <3>2. \/ task'[t] = S.task[t]
          \/ task'[t].state = "live"
      BY <1>4, <3>1, InsertedAt
    <3> QED
      BY <3>2
  <2> QED
    BY <1>3, <1>4, <1>5, <2>1, <2>2, <2>3 DEF Rows
<1>8. \A t \in Rows(db) \ r.ids : task'[t] = task[t]
  BY <1>7 DEF Rows
<1>9. PlainRestoreSet(db', r.root) = r.ids
  <2>1. task'[r.root].skipped = r.skipped
    BY <1>2, <1>3, <1>4, <1>7
  <2>2. CASE ~r.skipped
    BY <1>2, <1>6, <2>1, <2>2 DEF PlainRestoreSet
  <2>3. CASE r.skipped
    <3>1. ASSUME NEW t \in r.ids, t # r.root
          PROVE  t \in MarkedDescendants(db', r.root)
      <4>1. /\ t \in TaskId /\ task'[t].state = "trashed" /\ task'[t].dwt = r.root
            /\ ~task'[t].superseded
        BY <1>3, <1>4, <1>7, <3>1 DEF BinnedBy
      <4> QED
        BY <1>6, <4>1 DEF MarkedDescendants, Stamped, Trashed
    <3>2. ASSUME NEW t \in MarkedDescendants(db', r.root), t \notin r.ids
          PROVE  FALSE
      <4>1. /\ t \in TaskId /\ task'[t].state = "trashed" /\ task'[t].dwt = r.root
            /\ ~task'[t].superseded
        BY <1>6, <3>2 DEF MarkedDescendants, Stamped, Trashed
      <4>2. task'[t] = task[t]
        BY <1>7, <3>2, <4>1
      <4> QED
        BY <1>2, <1>5, <2>3, <4>1, <4>2 DEF MarkedDescendants, Stamped, Trashed
    <3>3. PlainRestoreSet(db', r.root) = {r.root} \cup MarkedDescendants(db', r.root)
      BY <1>6, <2>1, <2>3 DEF PlainRestoreSet
    <3> QED
      BY <1>2, <3>1, <3>2, <3>3
  <2> QED
    BY <1>2, <2>2, <2>3
<1>10. ASSUME NEW t \in r.ids
       PROVE  RestoredRow(db', t) = task[t]
  <2> DEFINE row == task[t]
             by == BinnedBy(r, t)
             s == t = r.root /\ r.skipped
             new == task'[t]
  <2>1. /\ t \in TaskId /\ row \in Row /\ row.state = "live" /\ Unmarked(row)
        /\ new = Rebinned(row, by, s)
    BY <1>3, <1>4, <1>5, <1>7
  <2>2. by \in TaskId \cup {None}
    BY <1>2, <1>3, <1>5 DEF BinnedBy, Trashed
  <2>3. s \in BOOLEAN
    BY <1>2
  <2>4. row.project \in LiveProjects(db')
    <3>1. project[row.project] = "live" /\ row.project \in ProjectId
      BY <1>5, <2>1 DEF RowSound, Row
    <3> QED
      BY <1>6, <3>1 DEF LiveProjects
  <2>5. RestoredRow(db', t) = [new EXCEPT !.state = "live",
                                 !.project = IF @ \in LiveProjects(db') THEN @ ELSE General,
                                 !.dwt = None, !.dwp = None, !.skipped = FALSE]
    BY <1>6 DEF RestoredRow
  <2> HIDE DEF row, by, s, new
  <2>6. Unbinned(new, row.project) = row /\ new.project = row.project
    BY ONLY <2>1, <2>2, <2>3, RebinnedRestores
  <2>7. RestoredRow(db', t) = Unbinned(new, row.project)
    BY <2>4, <2>5, <2>6 DEF Unbinned
  <2> QED
    BY <2>6, <2>7 DEF row
<1> QED
  BY <1>8, <1>9, <1>10 DEF r

LEMMA UndoProjectInverts ==
  ASSUME WiredDb, ReceiptSound(receipt), UndoProjectRestore
  PROVE  LET p == receipt.project
         IN  /\ Trashed(db)' \ Trashed(db) = receipt.restored
             /\ receipt.restored \subseteq ProjectCascade(db', p)
             /\ \A t \in Rows(db) \ (receipt.restored \cup receipt.left) : task'[t] = task[t]
<1> DEFINE r == receipt
           p == r.project
           A == ProjectTasks(db, p)
           T == [t \in TaskId |-> IF t \in A
                                  THEN [db.task[t] EXCEPT !.state = "trashed", !.dwp = p]
                                  ELSE db.task[t]]
           S == [db EXCEPT !.task = T]
           H == Inserting(S, DueHeads(S, ProjectNeighbours(db, p)))
           M == InsertOccurrences(S, H)
<1>1. SoftDeleteProject(p) /\ A = r.restored /\ r.left = {}
  BY UndoProjectIsDelete DEF SameWork
<1>2. Write([M EXCEPT !.project[p] = "trashed"])
  BY <1>1 DEF SoftDeleteProject, TrashedWithProject, Reconcile, RollForward
<1>3. /\ db.task = task /\ \A t \in TaskId : task[t] \in Row
      /\ A \subseteq TaskId /\ \A t \in A : task[t].state = "live"
  BY DbFacts DEF ProjectTasks, Live
<1>4. "task" \in DOMAIN S /\ S.task = T
  BY DEF db
<1>5. \A t \in TaskId : /\ t \in A => T[t].state = "trashed" /\ T[t].dwp = p
                        /\ t \notin A => T[t] = task[t]
  BY <1>3 DEF Row
<1> HIDE DEF A, T, S, H
<1>6. "task" \in DOMAIN M
  <2>1. 1 \in TaskId
    BY RowBounds DEF TaskId
  <2> QED
    BY ONLY <1>4, <2>1, InsertedAt
<1>7. task' = M.task
  BY <1>2, <1>6 DEF Write
<1>8. ASSUME NEW t \in TaskId
      PROVE  \/ task'[t] = T[t]
             \/ T[t].state = "none" /\ task'[t].state = "live"
  BY <1>4, <1>7, InsertedAt
<1>9. db'.task = task'
  BY DEF db
<1> HIDE DEF M
<1>10. ASSUME NEW t \in TaskId
       PROVE  /\ t \in A => task'[t].state = "trashed" /\ task'[t].dwp = p
              /\ t \notin A /\ task'[t].state = "trashed" => task[t].state = "trashed"
              /\ t \notin A /\ task[t].state # "none" => task'[t] = task[t]
  BY <1>5, <1>8
<1>11. Trashed(db)' \ Trashed(db) = A
  BY <1>3, <1>9, <1>10 DEF Trashed
<1>12. A \subseteq ProjectCascade(db', p)
  BY <1>3, <1>9, <1>10 DEF ProjectCascade, Trashed
<1>13. \A t \in Rows(db) \ A : task'[t] = task[t]
  BY <1>3, <1>10 DEF Rows
<1> HIDE DEF p, r
<1> QED
  BY <1>1, <1>11, <1>12, <1>13 DEF p, r

-----------------------------------------------------------------------------
(* What holds with Undo and bulk purges among the requests                  *)

\* What no request breaks, no Undo and no bulk purge breaks: references, projects
\* and series dates are in order, nothing waits for itself and nothing reads as
\* done over unfinished work.
THEOREM UndoKeepsTheStore ==
  UndoSpec => [](/\ TypeOK /\ NoDanglingReference /\ LiveTaskInLiveProject
                 /\ OneOccurrencePerDate /\ WaitsAcyclic /\ DoneMeansAllDone)
<1>1. UndoReady => /\ TypeOK /\ NoDanglingReference /\ LiveTaskInLiveProject
                   /\ OneOccurrencePerDate /\ WaitsAcyclic /\ DoneMeansAllDone
  BY StoreTyped, StoreResolves, StoreFiled, StoreOneSlot, WiredIsDone DEF UndoReady, StoreWired
<1> QED
  BY <1>1, UndoStaysReady, PTL

\* The figures that the trash page names, and the answer of a bulk purge, are what
\* is destroyed, in every store that requests can reach and for every selection.
THEOREM TrashCountsTrue == UndoSpec => []PurgeCountsExact
<1>1. UndoReady => PurgeCountsExact
  BY CountsAreExact DEF UndoReady
<1> QED
  BY <1>1, UndoStaysReady, PTL

\* The retention pass never destroys a row that a cascade took for its own age
\* alone while the root of the cascade is younger and still in the trash.
THEOREM RetentionSparesCascades == UndoSpec => []CascadeWaitsForItsRoot
<1>1. UndoReady => CascadeWaitsForItsRoot
  BY CascadeWaits DEF UndoReady
<1> QED
  BY <1>1, UndoStaysReady, PTL

\* No bulk purge and no Undo destroys a live row.
THEOREM BulkPurgesSpareTheLive == UndoSpec => LiveNeverDestroyed
<1>1. UndoReady /\ [UNext]_uvars => [\A t \in Live(db) : t \in Rows(db)']_vars
  <2> SUFFICES ASSUME UndoReady, [UNext]_uvars
               PROVE  \A t \in Live(db) : t \in Rows(db)'
    OBVIOUS
  <2>1. Live(db) \subseteq Present(task')
    BY StepReady DEF LeftReady
  <2>2. Rows(db)' = Present(task')
    BY DEF Rows, Present, db
  <2> QED
    BY <2>1, <2>2
<1> QED
  BY <1>1, UndoStaysReady, PTL DEF UndoSpec, LiveNeverDestroyed

\* Undoing a task restore is its inverse, whatever was done in between: it takes
\* back the rows the restore brought and no others, and restoring the root once
\* more would bring those rows back exactly as they were.
THEOREM UndoneRestoresRedo == UndoSpec => UndoneRestoreRedoes
<1> DEFINE inverse ==
      LET r == receipt
      IN  /\ \A t \in Rows(db) \ r.ids : task'[t] = task[t]
          /\ PlainRestoreSet(db', r.root) = r.ids
          /\ \A t \in r.ids : RestoredRow(db', t) = task[t]
<1>1. UndoReady => [UndoTaskRestore => inverse]_uvars
  BY WiredStore, UndoRestoreInverts DEF UndoReady
<1> QED
  BY <1>1, UndoStaysReady, PTL DEF UndoneRestoreRedoes

\* Undoing a project restore takes into the trash exactly the tasks the restore
\* brought out of it, with the project, and changes no other row.
THEOREM UndoneProjectsRedo == UndoSpec => UndoneProjectRedoes
<1> DEFINE inverse ==
      LET p == receipt.project
      IN  /\ Trashed(db)' \ Trashed(db) = receipt.restored
          /\ receipt.restored \subseteq ProjectCascade(db', p)
          /\ \A t \in Rows(db) \ (receipt.restored \cup receipt.left) : task'[t] = task[t]
<1>1. UndoReady => [UndoProjectRestore => inverse]_uvars
  BY WiredStore, UndoProjectInverts DEF UndoReady
<1> QED
  BY <1>1, UndoStaysReady, PTL DEF UndoneProjectRedoes
=============================================================================
