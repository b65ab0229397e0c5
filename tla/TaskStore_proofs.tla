-------------------------- MODULE TaskStore_proofs --------------------------
(***************************************************************************)
(* The safety invariants of TaskStore, for every number of rows, projects,  *)
(* series and dates, every set of request bodies and every mix of requests. *)
(*                                                                          *)
(* They are proved together, as the one inductive invariant Sound: a clone  *)
(* is filed in a live project because what it copies was, a row can be      *)
(* retired because a stamped row is no project's, and a purged project      *)
(* leaves no reference because its tasks were all in the trash.  Sound      *)
(* speaks of the three columns of the store rather than of a store, because *)
(* trashing a project rolls series forward while its own row is still live. *)
(* What an Undo of an un-skip need not keep is left to TaskSteps_proofs.     *)
(*                                                                          *)
(* First, what every roll-forward leaves behind, whichever heads it starts  *)
(* from: the rows that were there are untouched, and each row it inserts is *)
(* a clean live row, filed where a live row was filed.                      *)
(***************************************************************************)
EXTENDS TaskStore, TLAPS, FiniteSetTheorems, WellFoundedInduction

-----------------------------------------------------------------------------
(* Reach is the least set that holds A and is closed under E.               *)

LEMMA ReachLeast ==
  ASSUME NEW E, NEW A, NEW B \in SUBSET TaskId, A \subseteq B, Closed(E, B)
  PROVE  Reach(E, A) \subseteq B
  BY DEF Reach

LEMMA ReachHolds ==
  ASSUME NEW E, NEW A \in SUBSET TaskId
  PROVE  A \subseteq Reach(E, A) /\ Reach(E, A) \subseteq TaskId
  BY DEF Reach

LEMMA ReachClosed ==
  ASSUME NEW E \in SUBSET (TaskId \X TaskId), NEW A \in SUBSET TaskId
  PROVE  Closed(E, Reach(E, A))
<1> SUFFICES ASSUME NEW e \in E, e[1] \in Reach(E, A)
             PROVE  e[2] \in Reach(E, A)
  BY DEF Closed
<1>1. e[2] \in TaskId
  OBVIOUS
<1>2. ASSUME NEW B \in SUBSET TaskId, A \subseteq B, Closed(E, B)
      PROVE  e[2] \in B
  BY <1>2 DEF Reach, Closed
<1> QED
  BY <1>1, <1>2 DEF Reach

\* Everything but the start is entered from inside.
LEMMA ReachEntered ==
  ASSUME NEW E \in SUBSET (TaskId \X TaskId), NEW a \in TaskId,
         NEW x \in Reach(E, {a}), x # a
  PROVE  \E e \in E : e[2] = x /\ e[1] \in Reach(E, {a})
<1> DEFINE R == Reach(E, {a})
<1> SUFFICES ASSUME \A e \in E : e[1] \in R => e[2] # x
             PROVE  FALSE
  OBVIOUS
<1>1. R \subseteq TaskId /\ a \in R /\ Closed(E, R)
  BY ReachHolds, ReachClosed
<1>2. Closed(E, R \ {x})
  BY <1>1 DEF Closed
<1>3. R \subseteq R \ {x}
  <2> HIDE DEF R
  <2> R \ {x} \in SUBSET TaskId /\ {a} \subseteq R \ {x}
    BY <1>1
  <2> Reach(E, {a}) \subseteq R \ {x}
    BY <1>2, ReachLeast
  <2> QED
    BY DEF R
<1> QED
  BY <1>3

-----------------------------------------------------------------------------
(* Live rows and live subtrees                                             *)

LEMMA NestingType ==
  ASSUME NEW S \in Store
  PROVE  /\ LiveEdges(S, StoredNesting(S)) \in SUBSET (TaskId \X TaskId)
         /\ \A e \in LiveEdges(S, StoredNesting(S)) :
              e[1] = S.task[e[2]].parent /\ e[1] \in Live(S) /\ e[2] \in Live(S)
  BY DEF LiveEdges, StoredNesting, Rows, Live, Store, Row

LEMMA SubtreeLive ==
  ASSUME NEW S \in Store, NEW h \in Live(S)
  PROVE  h \in LiveSubtree(S, h) /\ LiveSubtree(S, h) \subseteq Live(S)
<1>1. h \in TaskId /\ Live(S) \in SUBSET TaskId
  BY DEF Live
<1>2. Closed(LiveEdges(S, StoredNesting(S)), Live(S))
  BY DEF Closed, LiveEdges
<1> QED
  BY <1>1, <1>2, ReachHolds, ReachLeast DEF LiveSubtree

\* Below the root of a live subtree, parents are in it too.
LEMMA SubtreeParent ==
  ASSUME NEW S \in Store, NEW h \in Live(S), NEW r \in LiveSubtree(S, h), r # h
  PROVE  S.task[r].parent \in LiveSubtree(S, h)
<1>1. h \in TaskId
  BY DEF Live
<1>2. PICK e \in LiveEdges(S, StoredNesting(S)) : e[2] = r /\ e[1] \in LiveSubtree(S, h)
  BY <1>1, NestingType, ReachEntered DEF LiveSubtree
<1> QED
  BY <1>2, NestingType

LEMMA HeadsLive ==
  ASSUME NEW S \in Store, NEW seeds
  PROVE  DueHeads(S, seeds) \subseteq Live(S)
  BY DEF DueHeads, EffectivelyDone
-----------------------------------------------------------------------------
(* One copied row *)

\* A row that carries no marker of the trash.
Unmarked(row) ==
  row.dwt = None /\ row.dwp = None /\ ~row.skipped /\ ~row.superseded

\* The ids the copies of the heads H take.
Taken(S, H) == {n \in TaskId : \E c \in Copies(S, H) : TakesId(S, H, c, n)}

\* What the row n looks like when it is a successor of one of the heads H, or a
\* row of its checklist.  Only the successor itself is in the series.
FreshCopy(S, H, n, row) ==
  /\ row \in Row
  /\ row.state = "live"
  /\ Unmarked(row)
  /\ row.parent \in Taken(S, H) \cup {None}
  /\ \E r \in Live(S) : row.project = S.task[r].project
  /\ \/ row.repeat = 0 /\ row.series = None
     \/ \E h \in H : /\ TakesId(S, H, <<h, h>>, n)
                     /\ row.repeat = S.task[h].repeat
                     /\ row.series = S.task[h].series
                     /\ Lands(S, h, row.due)

LEMMA NoRowType == NoRow \in Row /\ NoRow.state = "none" /\ Unmarked(NoRow)
  BY RowBounds DEF NoRow, Row, Lifecycle, WorkflowStatus, General, None, ProjectId, Unmarked

LEMMA CopyIdType ==
  ASSUME NEW S, NEW H, HasRoom(S, H), NEW c \in Copies(S, H)
  PROVE  CopyId(S, H, c) \in Taken(S, H)
  BY DEF HasRoom, CopyId, Taken

Copied(p, q, d, e, s) ==
  [NoRow EXCEPT !.state = "live", !.project = p, !.parent = q, !.due = d,
                !.repeat = e, !.series = s]

LEMMA CopyShape ==
  ASSUME NEW p \in ProjectId, NEW q \in TaskId \cup {None}, NEW d \in Date \cup {None},
         NEW e \in 0..MaxEvery, NEW s \in Series \cup {None}
  PROVE  LET copy == Copied(p, q, d, e, s)
         IN  /\ copy \in Row /\ copy.state = "live" /\ Unmarked(copy)
             /\ copy.project = p /\ copy.parent = q /\ copy.due = d
             /\ copy.repeat = e /\ copy.series = s
<1> DEFINE copy == Copied(p, q, d, e, s)
<1>1. copy \in Row
  BY NoRowType DEF Copied, Row, Lifecycle
<1>2. copy.state = "live" /\ copy.project = p /\ copy.parent = q /\ copy.due = d
  BY NoRowType DEF Copied, Row
<1>3. copy.repeat = e /\ copy.series = s
  BY NoRowType DEF Copied, Row
<1>4. Unmarked(copy)
  BY NoRowType DEF Copied, Row, Unmarked
<1> QED
  BY <1>1, <1>2, <1>3, <1>4

LEMMA CopyRowFresh ==
  ASSUME NEW S \in Store, NEW H \in SUBSET Live(S), HasRoom(S, H),
         \A h \in H : \E d \in Date : Lands(S, h, d),
         NEW c \in Copies(S, H), NEW n \in TaskId, TakesId(S, H, c, n)
  PROVE  FreshCopy(S, H, n, CopyRow(S, H, c))
<1> DEFINE row == S.task[c[2]]
           isTop == c[1] = c[2]
           parent == IF isTop THEN None ELSE CopyId(S, H, <<c[1], row.parent>>)
           due == CHOOSE d \in Date : Lands(S, c[1], d)
           every == IF isTop THEN row.repeat ELSE 0
           series == IF isTop THEN row.series ELSE None
<1>1. c[1] \in H /\ c[1] \in Live(S) /\ c[2] \in LiveSubtree(S, c[1])
  BY DEF Copies
<1>2. c[2] \in Live(S) /\ c[2] \in TaskId
  BY <1>1, SubtreeLive DEF Live
<1>3. row \in Row
  BY <1>2 DEF Store
<1>4. due \in Date /\ Lands(S, c[1], due)
  BY <1>1
<1>5. parent \in Taken(S, H) \cup {None}
  <2>1. CASE isTop
    BY <2>1
  <2>2. CASE ~isTop
    <3>1. row.parent \in LiveSubtree(S, c[1])
      BY <1>1, <2>2, SubtreeParent
    <3>2. row.parent \in TaskId
      BY <1>1, <3>1, SubtreeLive DEF Live
    <3>3. <<c[1], row.parent>> \in Copies(S, H)
      BY <1>1, <3>1, <3>2 DEF Copies
    <3> QED
      BY <2>2, <3>3, CopyIdType
  <2> QED
    BY <2>1, <2>2
<1>6. parent \in TaskId \cup {None}
  BY <1>5 DEF Taken
<1>7. row.project \in ProjectId /\ every \in 0..MaxEvery /\ series \in Series \cup {None}
  BY <1>3, RowBounds DEF Row
<1>8. \/ every = 0 /\ series = None
      \/ /\ TakesId(S, H, <<c[1], c[1]>>, n)
         /\ every = S.task[c[1]].repeat /\ series = S.task[c[1]].series
  <2>1. CASE isTop
    <3>1. c = <<c[1], c[1]>>
      BY <2>1 DEF Copies
    <3> QED
      BY <2>1, <3>1
  <2>2. CASE ~isTop
    BY <2>2
  <2> QED
    BY <2>1, <2>2
<1>9. CopyRow(S, H, c) = Copied(row.project, parent, due, every, series)
  BY DEF CopyRow, Copied
<1> DEFINE copy == Copied(row.project, parent, due, every, series)
<1> HIDE DEF parent, due, every, series, isTop
<1>10. due \in Date \cup {None}
  BY <1>4
<1>11. /\ copy \in Row /\ copy.state = "live" /\ Unmarked(copy)
       /\ copy.project = row.project /\ copy.parent = parent /\ copy.due = due
       /\ copy.repeat = every /\ copy.series = series
  BY <1>6, <1>7, <1>10, CopyShape
<1> HIDE DEF copy
<1>12. \E r \in Live(S) : copy.project = S.task[r].project
  BY <1>2, <1>11
<1>13. \/ copy.repeat = 0 /\ copy.series = None
       \/ \E h \in H : /\ TakesId(S, H, <<h, h>>, n)
                       /\ copy.repeat = S.task[h].repeat
                       /\ copy.series = S.task[h].series
                       /\ Lands(S, h, copy.due)
  BY <1>1, <1>4, <1>8, <1>11
<1>14. FreshCopy(S, H, n, copy)
  BY <1>5, <1>11, <1>12, <1>13 DEF FreshCopy
<1> QED
  BY <1>9, <1>14 DEF copy

-----------------------------------------------------------------------------
(* Inserting the successors *)

LEMMA CopiedEdgesType ==
  ASSUME NEW S \in Store, NEW H \in SUBSET Live(S), HasRoom(S, H)
  PROVE  CopiedEdges(S, H) \subseteq Taken(S, H) \X Taken(S, H)
<1> SUFFICES ASSUME NEW x \in CopiedEdges(S, H)
             PROVE  x \in Taken(S, H) \X Taken(S, H)
  OBVIOUS
<1>0. PICK h \in H, e \in S.dep :
        /\ {e[1], e[2]} \subseteq LiveSubtree(S, h) \ {h}
        /\ x = <<CopyId(S, H, <<h, e[1]>>), CopyId(S, H, <<h, e[2]>>)>>
  BY DEF CopiedEdges
<1>1. e[1] \in TaskId /\ e[2] \in TaskId
  BY DEF Store
<1>2. <<h, e[1]>> \in Copies(S, H) /\ <<h, e[2]>> \in Copies(S, H)
  BY <1>0, <1>1 DEF Copies
<1> QED
  BY <1>0, <1>2, CopyIdType

\* A row id that a copy takes was free.
LEMMA TakenFree ==
  ASSUME NEW S, NEW H
  PROVE  Taken(S, H) \cap Rows(S) = {}
<1> SUFFICES ASSUME NEW n \in Taken(S, H), n \in Rows(S)
             PROVE  FALSE
  OBVIOUS
<1>1. n \in FreeIds(S)
  BY DEF Taken, TakesId
<1>2. n < n /\ n \in 1..MaxTasks
  BY <1>1 DEF FreeIds, TaskId
<1> QED
  BY <1>2, RowBounds

WithRows(S, T, D) == [S EXCEPT !.task = T, !.dep = D]

LEMMA StoreParts ==
  ASSUME NEW S \in Store, NEW T \in [TaskId -> Row], NEW D \in SUBSET (TaskId \X TaskId)
  PROVE  /\ WithRows(S, T, D) \in Store
         /\ WithRows(S, T, D).task = T
         /\ WithRows(S, T, D).dep = D
         /\ WithRows(S, T, D).project = S.project
  BY DEF Store, WithRows

\* What a transaction that rolls the heads H forward has done to S.
RolledForward(S, H, R) ==
  /\ R \in Store
  /\ R.project = S.project
  /\ \A t \in Rows(S) : R.task[t] = S.task[t]
  /\ \A t \in TaskId \ Rows(S) :
       \/ t \notin Taken(S, H) /\ R.task[t] = S.task[t]
       \/ t \in Taken(S, H) /\ FreshCopy(S, H, t, R.task[t])
  /\ S.dep \subseteq R.dep
  /\ R.dep \subseteq S.dep \cup (Taken(S, H) \X Taken(S, H))

LEMMA InsertOccurrencesEffect ==
  ASSUME NEW S \in Store, NEW H \in SUBSET Live(S), HasRoom(S, H),
         \A h \in H : \E d \in Date : Lands(S, h, d)
  PROVE  RolledForward(S, H, InsertOccurrences(S, H))
<1> DEFINE T == [n \in TaskId |->
                   IF \E c \in Copies(S, H) : TakesId(S, H, c, n)
                   THEN CopyRow(S, H, CHOOSE c \in Copies(S, H) : TakesId(S, H, c, n))
                   ELSE S.task[n]]
           D == S.dep \cup CopiedEdges(S, H)
<1>1. \A n \in TaskId : T[n] = IF n \in Taken(S, H)
                             THEN CopyRow(S, H, CHOOSE c \in Copies(S, H) : TakesId(S, H, c, n))
                             ELSE S.task[n]
  BY DEF Taken
<1>2. ASSUME NEW n \in Taken(S, H)
      PROVE  n \in TaskId /\ FreshCopy(S, H, n, T[n])
  <2>1. n \in TaskId /\ \E c \in Copies(S, H) : TakesId(S, H, c, n)
    BY <1>2 DEF Taken
  <2>2. PICK c \in Copies(S, H) : TakesId(S, H, c, n) /\ T[n] = CopyRow(S, H, c)
    BY <2>1
  <2> QED
    BY <2>1, <2>2, CopyRowFresh
<1>3. T \in [TaskId -> Row]
  <2> SUFFICES ASSUME NEW n \in TaskId PROVE T[n] \in Row
    OBVIOUS
  <2>1. CASE n \in Taken(S, H)
    BY <1>2, <2>1 DEF FreshCopy
  <2>2. CASE n \notin Taken(S, H)
    <3> HIDE DEF T
    <3> QED
      BY <1>1, <2>2 DEF Store
  <2> QED
    BY <2>1, <2>2
<1>4. D \in SUBSET (TaskId \X TaskId)
  BY CopiedEdgesType DEF Store, Taken
<1>5. InsertOccurrences(S, H) = WithRows(S, T, D)
  BY DEF InsertOccurrences, WithRows
<1> HIDE DEF T, D
<1>6. /\ InsertOccurrences(S, H) \in Store
      /\ InsertOccurrences(S, H).task = T
      /\ InsertOccurrences(S, H).dep = D
      /\ InsertOccurrences(S, H).project = S.project
  BY <1>3, <1>4, <1>5, StoreParts
<1>7. S.dep \subseteq D /\ D \subseteq S.dep \cup (Taken(S, H) \X Taken(S, H))
  BY CopiedEdgesType DEF D
<1>8. \A t \in Rows(S) : T[t] = S.task[t]
  BY <1>1, TakenFree DEF Rows
<1> QED
  BY <1>1, <1>2, <1>6, <1>7, <1>8 DEF RolledForward

\* create_next_occurrence for live heads, as the services call it.
LEMMA RollForwardEffect ==
  ASSUME NEW S \in Store, NEW H \in SUBSET Live(S), CanRollForward(S, H)
  PROVE  RolledForward(S, Inserting(S, H), RollForward(S, H))
<1> DEFINE G == Inserting(S, H)
<1>1. G \subseteq H /\ \A h \in G : \E d \in Date : Lands(S, h, d)
  BY DEF Inserting
<1>2. HasRoom(S, G)
  BY DEF CanRollForward
<1> HIDE DEF G
<1>3. RolledForward(S, G, InsertOccurrences(S, G))
  BY <1>1, <1>2, InsertOccurrencesEffect
<1> QED
  BY <1>1, <1>3 DEF RollForward, G

LEMMA ReconcileEffect ==
  ASSUME NEW S \in Store, NEW seeds, CanReconcile(S, seeds)
  PROVE  RolledForward(S, Inserting(S, DueHeads(S, seeds)), Reconcile(S, seeds))
  BY HeadsLive, RollForwardEffect DEF CanReconcile, Reconcile

-----------------------------------------------------------------------------
(* Sound stores                                                             *)

Present(T) == {t \in TaskId : T[t].state # "none"}

\* What holds of one row beside the present rows P and the projects Q.
RowSound(row, P, Q) ==
  /\ row.state # "trashed" => Unmarked(row)
  /\ row.dwt # None => row.dwp = None
  /\ row.dwp # None => /\ ~row.skipped /\ ~row.superseded
                       /\ row.dwp = row.project
                       /\ Q[row.project] = "trashed"
  /\ row.skipped => row.series # None /\ row.due # None
  /\ row.state = "live" => Q[row.project] = "live"
  /\ row.state # "none" =>
       /\ row.parent \in P \cup {None}
       /\ row.dwt \in P \cup {None}
       /\ Q[row.project] # "none"
       /\ row.repeat # 0 => row.series # None

SameSlot(row, other) ==
  /\ row.state = "live" /\ other.state = "live"
  /\ row.series # None /\ row.due # None
  /\ row.series = other.series /\ row.due = other.due

OneRowPerSlot(T) == \A t, u \in TaskId : SameSlot(T[t], T[u]) => t = u

Sound(T, D, Q) ==
  /\ T \in [TaskId -> Row]
  /\ D \in SUBSET (Present(T) \X Present(T))
  /\ Q \in [ProjectId -> Lifecycle]
  /\ Q[General] = "live"
  /\ \A t \in TaskId : RowSound(T[t], Present(T), Q)
  /\ OneRowPerSlot(T)

SoundStore(S) == Sound(S.task, S.dep, S.project)

-----------------------------------------------------------------------------

\* More present rows spoil nothing.
LEMMA RowSoundMono ==
  ASSUME NEW row, NEW P, NEW P2, NEW Q, P \subseteq P2, RowSound(row, P, Q)
  PROVE  RowSound(row, P2, Q)
  BY DEF RowSound

\* Taking live rows away, or leaving their series and dates alone, keeps the slots.
LEMMA SlotsShrink ==
  ASSUME NEW T, NEW U, OneRowPerSlot(T),
         \A t \in TaskId : U[t].state = "live" =>
           T[t].state = "live" /\ U[t].series = T[t].series /\ U[t].due = T[t].due
  PROVE  OneRowPerSlot(U)
  BY DEF OneRowPerSlot, SameSlot

LEMMA SlotsOfStore ==
  ASSUME NEW S
  PROVE  OneLivePerSlot(S) <=> OneRowPerSlot(S.task)
  BY DEF OneLivePerSlot, OneRowPerSlot, SameSlot, Live

LEMMA PresentRows ==
  ASSUME NEW S
  PROVE  Rows(S) = Present(S.task)
  BY DEF Rows, Present

-----------------------------------------------------------------------------
(* Rolling forward keeps a store sound *)

\* Of the free ids, as many lie below n as below m only if they are the same.
LEMMA FreeIdRank ==
  ASSUME NEW S, NEW n \in FreeIds(S), NEW m \in FreeIds(S),
         Cardinality({k \in FreeIds(S) : k < n}) = Cardinality({k \in FreeIds(S) : k < m})
  PROVE  n = m
<1>1. ASSUME NEW a \in FreeIds(S), NEW b \in FreeIds(S), a < b
      PROVE  Cardinality({k \in FreeIds(S) : k < a}) < Cardinality({k \in FreeIds(S) : k < b})
  <2> DEFINE A == {k \in FreeIds(S) : k < a}
             B == {k \in FreeIds(S) : k < b}
  <2>1. FreeIds(S) \subseteq 1..MaxTasks /\ MaxTasks \in Int
    BY RowBounds DEF FreeIds, TaskId
  <2>2. IsFiniteSet(B)
    <3>1. IsFiniteSet(1..MaxTasks)
      BY <2>1, FS_Interval
    <3>2. B \in SUBSET (1..MaxTasks)
      BY <2>1
    <3> QED
      BY <3>1, <3>2, FS_Subset
  <2>3. A \subseteq B \ {a} /\ a \in B
    BY <1>1, <2>1
  <2> HIDE DEF A, B
  <2>4. IsFiniteSet(B \ {a}) /\ Cardinality(B \ {a}) = Cardinality(B) - 1
    BY <2>2, <2>3, FS_RemoveElement
  <2>5. Cardinality(A) <= Cardinality(B \ {a})
    BY <2>3, <2>4, FS_Subset
  <2>6. Cardinality(A) \in Nat /\ Cardinality(B) \in Nat
    BY <2>2, <2>3, <2>4, FS_CardinalityType, FS_Subset
  <2> QED
    BY <2>4, <2>5, <2>6 DEF A, B
<1>2. n \in Int /\ m \in Int
  BY DEF FreeIds, TaskId
<1>3. \A a \in FreeIds(S) : Cardinality({k \in FreeIds(S) : k < a}) \in Nat
  <2> SUFFICES ASSUME NEW a \in FreeIds(S)
               PROVE  Cardinality({k \in FreeIds(S) : k < a}) \in Nat
    OBVIOUS
  <2>1. IsFiniteSet(1..MaxTasks)
    BY RowBounds, FS_Interval
  <2>2. {k \in FreeIds(S) : k < a} \in SUBSET (1..MaxTasks)
    BY DEF FreeIds, TaskId
  <2> QED
    BY <2>1, <2>2, FS_Subset, FS_CardinalityType
<1> QED
  BY <1>1, <1>2, <1>3

\* The lowest landing date is one.
LEMMA LandsOnce ==
  ASSUME NEW S, NEW t, NEW d, NEW e, Lands(S, t, d), Lands(S, t, e)
  PROVE  d = e /\ d \in Date
<1>1. d \in Date /\ e \in Date /\ d <= e /\ e <= d
  BY DEF Lands, LandingDates
<1> QED
  BY <1>1, RowBounds DEF Date

\* The row that a roll-forward from the heads H leaves at a taken id.
LEMMA FreshCopySound ==
  ASSUME NEW S \in Store, NEW H \in SUBSET Live(S), NEW n, NEW row,
         FreshCopy(S, H, n, row), NEW P, Taken(S, H) \subseteq P,
         NEW Q, Sound(S.task, S.dep, Q)
  PROVE  RowSound(row, P, Q)
<1>1. PICK r \in Live(S) : row.project = S.task[r].project
  BY DEF FreshCopy
<1>2. Q[row.project] = "live"
  BY <1>1 DEF Sound, RowSound, Live
<1>3. row.repeat # 0 => row.series # None /\ row.due # None
  <2> SUFFICES ASSUME row.repeat # 0
               PROVE  row.series # None /\ row.due # None
    OBVIOUS
  <2>1. PICK h \in H : /\ row.repeat = S.task[h].repeat
                      /\ row.series = S.task[h].series
                      /\ Lands(S, h, row.due)
    BY DEF FreshCopy
  <2>2. S.task[h].series # None
    BY <2>1 DEF Sound, RowSound, Live
  <2>3. row.due \in Date
    BY <2>1, LandsOnce
  <2> QED
    BY <2>1, <2>2, <2>3, RowBounds DEF Date, None
<1> QED
  BY <1>2, <1>3 DEF FreshCopy, RowSound, Unmarked

\* Two successors on one slot are one row, and no live row was there before.
LEMMA FreshSlots ==
  ASSUME NEW S \in Store, NEW H0 \in SUBSET Live(S), NEW H, H = Inserting(S, H0),
         NEW n \in TaskId, NEW row, FreshCopy(S, H, n, row), row.series # None
  PROVE  /\ Occurrences(S, row.series, row.due) = {}
         /\ \A m \in TaskId : \A other :
              /\ FreshCopy(S, H, m, other)
              /\ other.series = row.series /\ other.due = row.due
              => m = n
<1>1. PICK h \in H : /\ TakesId(S, H, <<h, h>>, n)
                    /\ row.series = S.task[h].series
                    /\ Lands(S, h, row.due)
  BY DEF FreshCopy
<1>2. PICK d \in Date : /\ Lands(S, h, d)
                       /\ Occurrences(S, S.task[h].series, d) = {}
                       /\ \A g \in H0 : /\ S.task[g].series = S.task[h].series
                                        /\ Lands(S, g, d)
                                        => h <= g
  BY <1>1 DEF Inserting
<1>3. d = row.due
  BY <1>1, <1>2, LandsOnce
<1>4. ASSUME NEW m \in TaskId, NEW other, FreshCopy(S, H, m, other),
             other.series = row.series, other.due = row.due
      PROVE  m = n
  <2>1. PICK g \in H : /\ TakesId(S, H, <<g, g>>, m)
                      /\ other.series = S.task[g].series
                      /\ Lands(S, g, other.due)
    BY <1>4 DEF FreshCopy
  <2>2. PICK e \in Date : /\ Lands(S, g, e)
                         /\ \A k \in H0 : /\ S.task[k].series = S.task[g].series
                                          /\ Lands(S, k, e)
                                          => g <= k
    BY <2>1 DEF Inserting
  <2>3. e = row.due
    BY <1>4, <2>1, <2>2, LandsOnce
  <2>4. h <= g /\ g <= h
    BY <1>1, <1>2, <1>3, <1>4, <2>1, <2>2, <2>3 DEF Inserting
  <2>5. h = g
    <3>1. Live(S) \subseteq TaskId /\ H \subseteq H0
      BY DEF Live, Inserting
    <3>2. h \in TaskId /\ g \in TaskId
      BY <3>1
    <3> QED
      BY <2>4, <3>2, RowBounds DEF TaskId
  <2>6. FreeIds(S) \in SUBSET TaskId /\ n \in FreeIds(S) /\ m \in FreeIds(S)
    BY <1>1, <2>1 DEF TakesId, FreeIds
  <2>7. Cardinality({k \in FreeIds(S) : k < n}) = Cardinality({k \in FreeIds(S) : k < m})
    BY <1>1, <2>1, <2>5 DEF TakesId
  <2> QED
    BY <2>6, <2>7, FreeIdRank
<1> QED
  BY <1>1, <1>2, <1>3, <1>4

LEMMA RolledForwardSound ==
  ASSUME NEW S \in Store, NEW H0 \in SUBSET Live(S), NEW R,
         RolledForward(S, Inserting(S, H0), R),
         NEW Q, Sound(S.task, S.dep, Q)
  PROVE  Sound(R.task, R.dep, Q) /\ Rows(S) \subseteq Rows(R)
<1> DEFINE H == Inserting(S, H0)
<1>1. H \in SUBSET Live(S)
  BY DEF Inserting
<1>2. R \in Store /\ R.task \in [TaskId -> Row]
  BY DEF RolledForward, Store
<1>3. /\ \A t \in Rows(S) : R.task[t] = S.task[t]
      /\ \A t \in TaskId \ Rows(S) :
           \/ t \notin Taken(S, H) /\ R.task[t] = S.task[t]
           \/ t \in Taken(S, H) /\ FreshCopy(S, H, t, R.task[t])
      /\ R.dep \subseteq S.dep \cup (Taken(S, H) \X Taken(S, H))
  BY DEF RolledForward
<1> HIDE DEF H
<1>4. Taken(S, H) \subseteq TaskId /\ Taken(S, H) \cap Rows(S) = {}
  BY TakenFree DEF Taken
<1>5. \A t \in TaskId :
        \/ t \notin Taken(S, H) /\ R.task[t] = S.task[t]
        \/ t \in Taken(S, H) /\ FreshCopy(S, H, t, R.task[t])
  BY <1>3, <1>4
<1>6. Present(S.task) \subseteq Present(R.task) /\ Taken(S, H) \subseteq Present(R.task)
  BY <1>3, <1>4, <1>5 DEF Present, Rows, FreshCopy
<1>7. R.dep \in SUBSET (Present(R.task) \X Present(R.task))
  BY <1>3, <1>6 DEF Sound
<1>8. ASSUME NEW t \in TaskId
      PROVE  RowSound(R.task[t], Present(R.task), Q)
  <2>1. CASE t \in Taken(S, H)
    BY <1>1, <1>5, <1>6, <2>1, FreshCopySound
  <2>2. CASE t \notin Taken(S, H)
    <3>1. RowSound(S.task[t], Present(S.task), Q)
      BY DEF Sound
    <3> QED
      BY <1>5, <1>6, <2>2, <3>1, RowSoundMono
  <2> QED
    BY <2>1, <2>2
<1>9. ASSUME NEW t \in TaskId, NEW u \in TaskId, SameSlot(R.task[t], R.task[u])
      PROVE  t = u
  <2>1. ASSUME NEW a \in TaskId, NEW b \in TaskId, a \in Taken(S, H), b \notin Taken(S, H),
               SameSlot(R.task[a], R.task[b])
        PROVE  FALSE
    <3>1. FreshCopy(S, H, a, R.task[a]) /\ R.task[b] = S.task[b]
      BY <1>5, <2>1
    <3>2. b \in Occurrences(S, R.task[a].series, R.task[a].due)
      BY <2>1, <3>1 DEF SameSlot, Occurrences, Live
    <3>3. Occurrences(S, R.task[a].series, R.task[a].due) = {}
      BY <2>1, <3>1, FreshSlots DEF H, SameSlot
    <3> QED
      BY <3>2, <3>3
  <2>2. CASE t \in Taken(S, H) /\ u \in Taken(S, H)
    <3>1. FreshCopy(S, H, t, R.task[t]) /\ FreshCopy(S, H, u, R.task[u])
      BY <1>5, <2>2
    <3> QED
      BY <1>9, <3>1, FreshSlots DEF H, SameSlot
  <2>3. CASE t \notin Taken(S, H) /\ u \notin Taken(S, H)
    BY <1>5, <1>9, <2>3 DEF Sound, OneRowPerSlot
  <2>4. SameSlot(R.task[u], R.task[t])
    BY <1>9 DEF SameSlot
  <2> QED
    BY <1>9, <2>1, <2>2, <2>3, <2>4
<1>10. Sound(R.task, R.dep, Q)
  BY <1>2, <1>7, <1>8, <1>9 DEF Sound, OneRowPerSlot
<1> QED
  BY <1>6, <1>10, PresentRows

\* A reconcile anywhere keeps a sound store sound and destroys nothing.
LEMMA ReconcileSound ==
  ASSUME NEW S \in Store, NEW seeds, CanReconcile(S, seeds),
         NEW Q, Sound(S.task, S.dep, Q)
  PROVE  /\ Reconcile(S, seeds) \in Store
         /\ Reconcile(S, seeds).project = S.project
         /\ Sound(Reconcile(S, seeds).task, Reconcile(S, seeds).dep, Q)
         /\ \A t \in Rows(S) : Reconcile(S, seeds).task[t] = S.task[t]
         /\ Rows(S) \subseteq Rows(Reconcile(S, seeds))
<1>1. RolledForward(S, Inserting(S, DueHeads(S, seeds)), Reconcile(S, seeds))
  BY ReconcileEffect
<1>2. DueHeads(S, seeds) \in SUBSET Live(S)
  BY HeadsLive
<1> QED
  BY <1>1, <1>2, RolledForwardSound DEF RolledForward

-----------------------------------------------------------------------------
(* Requests, one by one.  Kept is what each of them leaves.                 *)

Kept == Sound(task', dep', project') /\ Live(db) \subseteq Present(task')

Rec(T, D, Q) == [task |-> T, dep |-> D, project |-> Q]

LEMMA RecStore ==
  ASSUME NEW T, NEW D, NEW Q, Sound(T, D, Q)
  PROVE  /\ Rec(T, D, Q) \in Store
         /\ Rec(T, D, Q).task = T /\ Rec(T, D, Q).dep = D /\ Rec(T, D, Q).project = Q
<1>1. D \in SUBSET (TaskId \X TaskId)
  BY DEF Sound, Present
<1> QED
  BY <1>1 DEF Rec, Store, Sound

OnTask(S, T) == [S EXCEPT !.task = T]

LEMMA OnTaskRec ==
  ASSUME NEW S \in Store, NEW T
  PROVE  OnTask(S, T) = Rec(T, S.dep, S.project)
  BY DEF OnTask, Rec, Store

LEMMA DbRec == db = Rec(task, dep, project)
  BY DEF db, Rec

LEMMA DbStore ==
  ASSUME Sound(task, dep, project)
  PROVE  /\ db \in Store /\ db.task = task /\ db.dep = dep /\ db.project = project
         /\ Rows(db) = Present(task) /\ Live(db) \subseteq Present(task)
  BY DbRec, RecStore DEF Rows, Live, Present

LEMMA WriteKept ==
  ASSUME NEW T, NEW D, NEW Q, Sound(T, D, Q), Live(db) \subseteq Present(T),
         Write(Rec(T, D, Q))
  PROVE  Kept
  BY RecStore DEF Write, Kept

LEMMA CommitKept ==
  ASSUME NEW T, NEW D, NEW Q, Sound(T, D, Q), Live(db) \subseteq Present(T),
         NEW seeds, Commit(Rec(T, D, Q), seeds)
  PROVE  Kept
<1> DEFINE S == Rec(T, D, Q)
<1>1. S \in Store /\ S.task = T /\ S.dep = D /\ S.project = Q
  BY RecStore
<1> HIDE DEF S
<1>2. /\ Reconcile(S, seeds).project = Q
      /\ Sound(Reconcile(S, seeds).task, Reconcile(S, seeds).dep, Q)
      /\ Rows(S) \subseteq Rows(Reconcile(S, seeds))
  BY <1>1, ReconcileSound DEF Commit, S
<1>3. Write(Reconcile(S, seeds))
  BY DEF Commit, S
<1>4. Sound(task', dep', project')
  BY <1>2, <1>3 DEF Write
<1>5. Present(T) \subseteq Present(task')
  BY <1>1, <1>2, <1>3, PresentRows DEF Write
<1> QED
  BY <1>4, <1>5 DEF Kept

\* One row is replaced by a sound row in its place: same presence, or a new row.
Replaced(T, t, row) == [T EXCEPT ![t] = row]

LEMMA OneRowSound ==
  ASSUME NEW T, NEW D, NEW Q, Sound(T, D, Q), NEW t \in TaskId, NEW row \in Row,
         row.state # "none",
         RowSound(row, Present(T) \cup {t}, Q),
         row.state = "live" /\ row.series # None /\ row.due # None =>
           \A u \in TaskId \ {t} : ~SameSlot(row, T[u])
  PROVE  /\ Sound(Replaced(T, t, row), D, Q)
         /\ Present(Replaced(T, t, row)) = Present(T) \cup {t}
<1> DEFINE U == Replaced(T, t, row)
<1>1. U \in [TaskId -> Row] /\ U[t] = row /\ \A u \in TaskId \ {t} : U[u] = T[u]
  BY DEF Sound, Replaced
<1> HIDE DEF U
<1>2. Present(U) = Present(T) \cup {t}
  BY <1>1 DEF Present
<1>3. \A u \in TaskId : RowSound(U[u], Present(U), Q)
  BY <1>1, <1>2, RowSoundMono DEF Sound
<1>4. OneRowPerSlot(U)
  BY <1>1 DEF OneRowPerSlot, SameSlot, Sound
<1>5. D \in SUBSET (Present(U) \X Present(U))
  BY <1>2 DEF Sound
<1> QED
  BY <1>1, <1>2, <1>3, <1>4, <1>5 DEF Sound, U

Posted(s, q, p, d) ==
  [NoRow EXCEPT !.state = "live", !.status = s, !.parent = q, !.project = p, !.due = d]

LEMMA PostedShape ==
  ASSUME NEW s \in WorkflowStatus, NEW q \in TaskId \cup {None}, NEW p \in ProjectId,
         NEW d \in Date \cup {None}
  PROVE  LET row == Posted(s, q, p, d)
         IN  /\ row \in Row /\ row.state = "live" /\ Unmarked(row)
             /\ row.parent = q /\ row.project = p /\ row.series = None /\ row.repeat = 0
<1> DEFINE row == Posted(s, q, p, d)
<1>1. row \in Row
  BY NoRowType DEF Posted, Row, Lifecycle
<1>2. row.state = "live" /\ row.parent = q /\ row.project = p
  BY NoRowType DEF Posted, Row
<1>3. row.series = None /\ row.repeat = 0
  BY NoRowType DEF Posted, Row, NoRow
<1>4. Unmarked(row)
  BY NoRowType DEF Posted, Row, Unmarked
<1> QED
  BY <1>1, <1>2, <1>3, <1>4

LEMMA CreateTaskKept ==
  ASSUME Sound(task, dep, project), NEW id, NEW n \in NewTasks, CreateTask(id, n)
  PROVE  Kept
<1>1. id \in TaskId /\ id \notin Present(task)
  BY TakenFree, DbStore, RowBounds DEF CreateTask, NextId, FreeIds, TaskId
<1> DEFINE has == n.parent \in Live(db)
           p == IF n.project # None THEN n.project
                ELSE IF has THEN task[n.parent].project ELSE General
           d == IF n.due = None /\ has THEN task[n.parent].due ELSE n.due
           s == n.status
           q == n.parent
           row == Posted(s, q, p, d)
<1>2. /\ n.project \in ProjectId \cup {None} /\ n.parent \in TaskId \cup {None}
      /\ n.due \in Date \cup {None} /\ n.status \in WorkflowStatus
  BY RequestShapes
<1>3. has => /\ n.parent \in Present(task) /\ task[n.parent] \in Row
             /\ task[n.parent].state = "live"
  BY DbStore DEF Sound, Live, Present
<1>4. p \in ProjectId /\ project[p] = "live"
  <2>1. n.project # None => n.project \in ProjectId /\ project[n.project] = "live"
    BY DbStore DEF CreateTask, LiveProjects
  <2>2. has => project[task[n.parent].project] = "live" /\ task[n.parent].project \in ProjectId
    BY <1>3 DEF Sound, RowSound, Row, Present
  <2>3. General \in ProjectId /\ project[General] = "live"
    BY RowBounds DEF Sound, General, ProjectId
  <2> QED
    BY <2>1, <2>2, <2>3
<1>5. d \in Date \cup {None}
  BY <1>2, <1>3 DEF Row
<1>6. n.parent \in Present(task) \cup {None}
  BY <1>3 DEF CreateTask
<1>7. NewRow(db, n) = row
  BY DbStore DEF NewRow, Posted
<1>8. s \in WorkflowStatus /\ q \in TaskId \cup {None}
  BY <1>2
<1> HIDE DEF p, d, s, q
<1>9. /\ row \in Row /\ row.state = "live" /\ Unmarked(row)
      /\ row.parent = q /\ row.project = p /\ row.series = None /\ row.repeat = 0
  BY <1>4, <1>5, <1>8, PostedShape
<1> HIDE DEF row
<1>10. RowSound(row, Present(task) \cup {id}, project)
  BY <1>4, <1>6, <1>9 DEF RowSound, Unmarked, q
<1>11. /\ Sound(Replaced(task, id, row), dep, project)
       /\ Present(Replaced(task, id, row)) = Present(task) \cup {id}
  <2>1. row.state # "none"
    BY <1>9
  <2>2. ~(row.state = "live" /\ row.series # None /\ row.due # None)
    BY <1>9
  <2>3. row \in Row
    BY <1>9
  <2> QED
    BY <1>1, <1>10, <2>1, <2>2, <2>3, OneRowSound
<1>12. [db EXCEPT !.task[id] = row] = Rec(Replaced(task, id, row), dep, project)
  BY DEF db, Rec, Replaced
<1>13. Commit(Rec(Replaced(task, id, row), dep, project), {id})
  BY <1>7, <1>12 DEF CreateTask
<1> QED
  BY <1>11, <1>13, CommitKept, DbStore

\* A live row of a sound store.
LEMMA LiveRow ==
  ASSUME Sound(task, dep, project), NEW t \in Live(db)
  PROVE  /\ t \in TaskId /\ t \in Present(task) /\ task[t] \in Row /\ task[t].state = "live"
         /\ RowSound(task[t], Present(task), project)
         /\ Unmarked(task[t])
<1>1. t \in TaskId /\ task[t].state = "live"
  BY DbStore DEF Live
<1>2. task[t] \in Row /\ RowSound(task[t], Present(task), project) /\ t \in Present(task)
  BY <1>1 DEF Sound, Present
<1> QED
  BY <1>1, <1>2 DEF RowSound

\* What RowSound and SameSlot read of a row.
SameFacts(row, old) ==
  /\ row.state = old.state /\ row.project = old.project /\ row.parent = old.parent
  /\ row.due = old.due /\ row.repeat = old.repeat /\ row.series = old.series
  /\ row.dwt = old.dwt /\ row.dwp = old.dwp
  /\ row.skipped = old.skipped /\ row.superseded = old.superseded

WithStatus(row, s) == [row EXCEPT !.status = s]

LEMMA WithStatusShape ==
  ASSUME NEW row \in Row, NEW s \in WorkflowStatus
  PROVE  WithStatus(row, s) \in Row /\ SameFacts(WithStatus(row, s), row)
<1>1. WithStatus(row, s) \in Row
  BY DEF WithStatus, Row
<1>2. SameFacts(WithStatus(row, s), row)
  BY DEF WithStatus, Row, SameFacts
<1> QED
  BY <1>1, <1>2

LEMMA StatusWriteSound ==
  ASSUME Sound(task, dep, project), NEW t \in Live(db), NEW s \in WorkflowStatus
  PROVE  /\ Sound(Replaced(task, t, WithStatus(task[t], s)), dep, project)
         /\ Live(db) \subseteq Present(Replaced(task, t, WithStatus(task[t], s)))
<1> DEFINE row == WithStatus(task[t], s)
<1>1. row \in Row /\ SameFacts(row, task[t])
  BY LiveRow, WithStatusShape
<1> HIDE DEF row
<1>2. RowSound(row, Present(task) \cup {t}, project)
  <2>1. RowSound(task[t], Present(task) \cup {t}, project)
    BY LiveRow, RowSoundMono
  <2> QED
    BY <1>1, <2>1 DEF RowSound, SameFacts, Unmarked
<1>3. row.state # "none"
  BY <1>1, LiveRow DEF SameFacts
<1>4. \A u \in TaskId \ {t} : ~SameSlot(row, task[u])
  BY <1>1, LiveRow DEF SameFacts, SameSlot, Sound, OneRowPerSlot
<1> QED
  BY <1>1, <1>2, <1>3, <1>4, LiveRow, OneRowSound, DbStore DEF row

LEMMA MarkDoneKept ==
  ASSUME Sound(task, dep, project), NEW t, MarkDone(t)
  PROVE  Kept
<1> DEFINE T == Replaced(task, t, WithStatus(task[t], "done"))
<1>1. t \in Live(db) /\ Commit([db EXCEPT !.task[t].status = "done"], {t})
  BY DEF MarkDone
<1>2. [db EXCEPT !.task[t].status = "done"] = Rec(T, dep, project)
  BY DEF db, Rec, Replaced, WithStatus
<1>3. "done" \in WorkflowStatus
  BY DEF WorkflowStatus
<1>4. Sound(T, dep, project) /\ Live(db) \subseteq Present(T)
  BY <1>1, <1>3, StatusWriteSound
<1> HIDE DEF T
<1> QED
  BY <1>1, <1>2, <1>4, CommitKept

LEMMA ReopenTaskKept ==
  ASSUME Sound(task, dep, project), NEW t, ReopenTask(t)
  PROVE  Kept
<1> DEFINE T == Replaced(task, t, WithStatus(task[t], "open"))
<1>1. t \in Live(db) /\ Write([db EXCEPT !.task[t].status = "open"])
  BY DEF ReopenTask
<1>2. [db EXCEPT !.task[t].status = "open"] = Rec(T, dep, project)
  BY DEF db, Rec, Replaced, WithStatus
<1>3. "open" \in WorkflowStatus
  BY DEF WorkflowStatus
<1>4. Sound(T, dep, project) /\ Live(db) \subseteq Present(T)
  BY <1>1, <1>3, StatusWriteSound
<1> HIDE DEF T
<1> QED
  BY <1>1, <1>2, <1>4, WriteKept

\* Rows are rewritten in place: each stays present or absent, and sound.
LEMMA RewriteSound ==
  ASSUME NEW T, NEW D, NEW Q, Sound(T, D, Q), NEW U \in [TaskId -> Row],
         \A t \in TaskId : (U[t].state = "none") <=> (T[t].state = "none"),
         \A t \in TaskId : RowSound(U[t], Present(T), Q),
         OneRowPerSlot(U)
  PROVE  Sound(U, D, Q) /\ Present(U) = Present(T)
<1>1. Present(U) = Present(T)
  BY DEF Present
<1> QED
  BY <1>1 DEF Sound

WithRepeat(row, every) == [row EXCEPT !.repeat = every]

LEMMA WithRepeatShape ==
  ASSUME NEW row \in Row, NEW every \in 0..MaxEvery
  PROVE  /\ WithRepeat(row, every) \in Row
         /\ WithRepeat(row, every).repeat = every
         /\ WithRepeat(row, every).state = row.state
         /\ WithRepeat(row, every).series = row.series
         /\ WithRepeat(row, every).due = row.due
         /\ \A P, Q : /\ RowSound(row, P, Q)
                      /\ every # 0 /\ row.state # "none" => row.series # None /\ row.due # None
                      => RowSound(WithRepeat(row, every), P, Q)
<1> DEFINE new == WithRepeat(row, every)
<1>1. new \in Row
  BY DEF WithRepeat, Row
<1>2. /\ new.repeat = every /\ new.state = row.state /\ new.series = row.series
      /\ new.due = row.due /\ new.project = row.project
  BY DEF WithRepeat, Row
<1>3. /\ new.parent = row.parent /\ new.dwt = row.dwt /\ new.dwp = row.dwp
      /\ new.skipped = row.skipped /\ new.superseded = row.superseded
  BY DEF WithRepeat, Row
<1> HIDE DEF new
<1>4. \A P, Q : /\ RowSound(row, P, Q)
                /\ every # 0 /\ row.state # "none" => row.series # None /\ row.due # None
                => RowSound(new, P, Q)
  BY <1>2, <1>3 DEF RowSound, Unmarked
<1> QED
  BY <1>1, <1>2, <1>4 DEF new

\* A change of interval on the rows A, all of them in a series and dated.
Reinterval(T, A, every) ==
  [u \in TaskId |-> IF u \in A THEN WithRepeat(T[u], every) ELSE T[u]]

LEMMA ReintervalSound ==
  ASSUME NEW T, NEW D, NEW Q, Sound(T, D, Q), NEW A, NEW every \in 0..MaxEvery,
         \A u \in A : u \in TaskId /\ every # 0 =>
           T[u].series # None /\ T[u].due # None
  PROVE  /\ Sound(Reinterval(T, A, every), D, Q)
         /\ Present(Reinterval(T, A, every)) = Present(T)
<1> DEFINE U == Reinterval(T, A, every)
<1>1. \A u \in TaskId : T[u] \in Row /\ RowSound(T[u], Present(T), Q)
  BY DEF Sound
<1>2. \A u \in TaskId : U[u] = IF u \in A THEN WithRepeat(T[u], every) ELSE T[u]
  BY DEF Reinterval
<1>3. DOMAIN U = TaskId /\ U = [u \in TaskId |-> U[u]]
  BY DEF Reinterval
<1> HIDE DEF U
<1>4. ASSUME NEW u \in TaskId
      PROVE  /\ U[u] \in Row /\ RowSound(U[u], Present(T), Q)
             /\ U[u].state = T[u].state /\ U[u].series = T[u].series /\ U[u].due = T[u].due
  <2>1. T[u] \in Row /\ RowSound(T[u], Present(T), Q)
    BY <1>1
  <2>2. CASE u \in A
    <3>1. U[u] = WithRepeat(T[u], every)
      BY <1>2, <2>2
    <3>2. every # 0 => T[u].series # None /\ T[u].due # None
      BY <2>2
    <3> QED
      BY <2>1, <3>1, <3>2, WithRepeatShape
  <2>3. CASE u \notin A
    BY <1>2, <2>1, <2>3
  <2> QED
    BY <2>2, <2>3
<1>5. U \in [TaskId -> Row]
  BY <1>3, <1>4
<1>6. OneRowPerSlot(U)
  BY <1>4, SlotsShrink DEF Sound
<1> QED
  BY <1>4, <1>5, <1>6, RewriteSound DEF U

LEMMA StopRecurrenceKept ==
  ASSUME Sound(task, dep, project), NEW t, StopRecurrence(t)
  PROVE  Kept
<1> DEFINE series == {u \in Rows(db) : task[u].series = task[t].series}
           rows == IF task[t].series = None THEN {t} ELSE series
           T == Reinterval(task, rows, 0)
<1>1. Write([db EXCEPT !.task = [u \in TaskId |->
               IF u \in rows THEN [task[u] EXCEPT !.repeat = 0] ELSE task[u]]])
  BY DEF StopRecurrence
<1>2. [db EXCEPT !.task = [u \in TaskId |->
               IF u \in rows THEN [task[u] EXCEPT !.repeat = 0] ELSE task[u]]]
        = Rec(T, dep, project)
  BY DEF db, Rec, Reinterval, WithRepeat
<1>3. 0 \in 0..MaxEvery
  BY RowBounds
<1>4. Sound(T, dep, project) /\ Present(T) = Present(task)
  BY <1>3, ReintervalSound
<1> HIDE DEF T, rows
<1> QED
  BY <1>1, <1>2, <1>4, WriteKept, DbStore

LEMMA AddDependencyKept ==
  ASSUME Sound(task, dep, project), NEW t, NEW b, AddDependency(t, b)
  PROVE  Kept
<1> DEFINE D == dep \cup {<<t, b>>}
<1>1. Write([db EXCEPT !.dep = @ \cup {<<t, b>>}])
  BY DEF AddDependency
<1>2. [db EXCEPT !.dep = @ \cup {<<t, b>>}] = Rec(task, D, project)
  BY DEF db, Rec
<1>3. t \in Present(task) /\ b \in Present(task)
  BY DbStore DEF AddDependency
<1>4. Sound(task, D, project)
  BY <1>3 DEF Sound
<1> HIDE DEF D
<1> QED
  BY <1>1, <1>2, <1>4, WriteKept, DbStore

LEMMA RemoveDependencyKept ==
  ASSUME Sound(task, dep, project), NEW e, RemoveDependency(e)
  PROVE  Kept
<1> DEFINE D == dep \ {e}
<1>1. Commit([db EXCEPT !.dep = @ \ {e}], {e[1]})
  BY DEF RemoveDependency
<1>2. [db EXCEPT !.dep = @ \ {e}] = Rec(task, D, project)
  BY DEF db, Rec
<1>3. Sound(task, D, project)
  BY DEF Sound
<1> HIDE DEF D
<1> QED
  BY <1>1, <1>2, <1>3, CommitKept, DbStore

Retouched(row, s, q, p, d, e) ==
  [row EXCEPT !.status = s, !.parent = q, !.project = p, !.due = d, !.repeat = e]

LEMMA RetouchedShape ==
  ASSUME NEW row \in Row, NEW s \in WorkflowStatus, NEW q \in TaskId \cup {None},
         NEW p \in ProjectId, NEW d \in Date \cup {None}, NEW e \in 0..MaxEvery
  PROVE  LET new == Retouched(row, s, q, p, d, e)
         IN  /\ new \in Row
             /\ new.parent = q /\ new.project = p /\ new.due = d /\ new.repeat = e
             /\ new.state = row.state /\ new.series = row.series
             /\ Unmarked(row) => Unmarked(new)
<1> DEFINE new == Retouched(row, s, q, p, d, e)
<1>1. new \in Row
  BY DEF Retouched, Row
<1>2. new.parent = q /\ new.project = p /\ new.due = d /\ new.repeat = e
  BY DEF Retouched, Row
<1>3. new.state = row.state /\ new.series = row.series
  BY DEF Retouched, Row
<1>4. Unmarked(row) => Unmarked(new)
  BY DEF Retouched, Row, Unmarked
<1> QED
  BY <1>1, <1>2, <1>3, <1>4

Minted(row, s) == [row EXCEPT !.series = s]

LEMMA MintedShape ==
  ASSUME NEW row \in Row, NEW s \in Series \cup {None}
  PROVE  LET new == Minted(row, s)
         IN  /\ new \in Row
             /\ new.parent = row.parent /\ new.project = row.project
             /\ new.due = row.due /\ new.repeat = row.repeat
             /\ new.state = row.state /\ new.series = s
             /\ Unmarked(row) => Unmarked(new)
<1> DEFINE new == Minted(row, s)
<1>1. new \in Row
  BY DEF Minted, Row
<1>2. new.parent = row.parent /\ new.project = row.project /\ new.due = row.due
  BY DEF Minted, Row
<1>3. new.state = row.state /\ new.series = s /\ new.repeat = row.repeat
  BY DEF Minted, Row
<1>4. Unmarked(row) => Unmarked(new)
  BY DEF Minted, Row, Unmarked
<1> QED
  BY <1>1, <1>2, <1>3, <1>4

\* The fields of the row that a PATCH leaves, before a series is minted.
LEMMA EditedRowShape ==
  ASSUME Sound(task, dep, project), NEW t, NEW f \in Patches, UpdateTask(t, f)
  PROVE  LET new == EditedRow(db, t, f)
         IN  /\ t \in Live(db)
             /\ new \in Row /\ new.state = "live" /\ Unmarked(new)
             /\ new.parent \in Present(task) \cup {None}
             /\ project[new.project] = "live"
             /\ new.series = task[t].series
             /\ new.repeat # 0 => new.due # None
             /\ new.due # None /\ new.due # task[t].due
                  => Occurrences(db, new.series, new.due) \subseteq {t}
<1> DEFINE old == task[t]
           s == LandingStatus(db, t, f)
           q == Patched(f, "parent", old.parent)
           p == IF Given(f, "project") /\ f.project = None THEN General
                ELSE Patched(f, "project", old.project)
           d == Patched(f, "due", old.due)
           e == Patched(f, "repeat", old.repeat)
           new == EditedRow(db, t, f)
<1>1. t \in Live(db) /\ db.task = task
  BY DbStore DEF UpdateTask
<1>2. /\ old \in Row /\ old.state = "live" /\ Unmarked(old)
      /\ RowSound(old, Present(task), project)
  BY <1>1, LiveRow
<1>3. new = Retouched(old, s, q, p, d, e)
  BY <1>1 DEF EditedRow, Retouched
<1>4. s \in WorkflowStatus
  BY <1>1, <1>2, RequestShapes DEF LandingStatus, Patched, Given, Row
<1>5. q \in TaskId \cup {None} /\ q \in Present(task) \cup {None}
  <2>1. CASE Given(f, "parent")
    <3>1. q # None => q \in Live(db)
      BY <2>1 DEF UpdateTask, MoveAllowed, Patched
    <3>2. q # None => q \in TaskId /\ q \in Present(task)
      BY <3>1, LiveRow
    <3> QED
      BY <3>2
  <2>2. CASE ~Given(f, "parent")
    <3>1. q = old.parent
      BY <2>2 DEF Patched
    <3>2. old.parent \in Present(task) \cup {None} /\ old.parent \in TaskId \cup {None}
      BY <1>2 DEF RowSound, Row
    <3> QED
      BY <3>1, <3>2
  <2> QED
    BY <2>1, <2>2
<1>6. p \in ProjectId /\ project[p] = "live"
  <2>1. General \in ProjectId /\ project[General] = "live"
    BY RowBounds DEF Sound, General, ProjectId
  <2>2. old.project \in ProjectId /\ project[old.project] = "live"
    BY <1>2 DEF Row, RowSound
  <2>3. Given(f, "project") /\ f.project # None => f.project \in LiveProjects(db)
    BY DEF UpdateTask
  <2>4. LiveProjects(db) = {x \in ProjectId : project[x] = "live"}
    BY DbStore DEF LiveProjects
  <2> QED
    BY <2>1, <2>2, <2>3, <2>4 DEF Patched
<1>7. d \in Date \cup {None}
  BY <1>2, RequestShapes DEF Patched, Given, Row
<1>8. e \in 0..MaxEvery
  BY <1>2, RequestShapes DEF Patched, Given, Row
<1>9. RepeatAllowed(db, t, f) /\ (Given(f, "due") => DueAllowed(db, t, f))
  BY DEF UpdateTask
<1> HIDE DEF s, q, p, d, e, new
<1>10. /\ new \in Row /\ new.state = "live" /\ Unmarked(new)
       /\ new.parent = q /\ new.project = p /\ new.due = d /\ new.series = old.series
  <2>1. q \in TaskId \cup {None}
    BY <1>5
  <2>2. p \in ProjectId
    BY <1>6
  <2>3. old \in Row /\ old.state = "live" /\ Unmarked(old)
    BY <1>2
  <2> HIDE DEF old
  <2> DEFINE to == Retouched(old, s, q, p, d, e)
  <2>4. /\ to \in Row /\ to.state = old.state /\ Unmarked(to)
        /\ to.parent = q /\ to.project = p /\ to.due = d /\ to.series = old.series
    BY <1>4, <1>7, <1>8, <2>1, <2>2, <2>3, RetouchedShape
  <2> HIDE DEF to
  <2> QED
    BY <1>3, <2>3, <2>4 DEF to
<1>11. new.repeat # 0 => new.due # None
  BY <1>9 DEF RepeatAllowed, new
<1>12. new.due # None /\ new.due # old.due => Occurrences(db, new.series, new.due) \subseteq {t}
  <2>1. CASE Given(f, "due")
    BY <1>1, <1>9, <2>1 DEF DueAllowed, LiveOccurrenceOn, new
  <2>2. CASE ~Given(f, "due")
    BY <1>10, <2>2 DEF d, Patched
  <2> QED
    BY <2>1, <2>2
<1> QED
  BY <1>1, <1>5, <1>6, <1>10, <1>11, <1>12 DEF new

LEMMA UpdateTaskKept ==
  ASSUME Sound(task, dep, project), NEW t, NEW f \in Patches, UpdateTask(t, f)
  PROVE  Kept
<1> DEFINE old == task[t]
           bare == EditedRow(db, t, f)
           series == IF bare.repeat # 0 /\ bare.series = None
                     THEN CHOOSE s \in FreshSeries(db) : TRUE ELSE bare.series
           new == Minted(bare, series)
           every == IF Given(f, "repeat") THEN f.repeat ELSE 0
           T == Replaced(task, t, new)
           S1 == [db EXCEPT !.task[t] = new]
           fwd == IF EditsFuture(f) /\ Given(f, "repeat") /\ new.due # None
                  THEN LaterOccurrences(S1, t, new.due) ELSE {}
           U == Reinterval(T, fwd, every)
<1>1. /\ t \in Live(db) /\ bare \in Row /\ bare.state = "live" /\ Unmarked(bare)
      /\ bare.parent \in Present(task) \cup {None} /\ project[bare.project] = "live"
      /\ bare.series = old.series
      /\ bare.repeat # 0 => bare.due # None
      /\ bare.due # None /\ bare.due # old.due
           => Occurrences(db, bare.series, bare.due) \subseteq {t}
  BY EditedRowShape
<1>2. t \in TaskId /\ t \in Present(task) /\ db.task = task
  BY <1>1, LiveRow, DbStore
<1>3. /\ series \in Series \cup {None}
      /\ bare.repeat # 0 => series # None
      /\ series = old.series \/ series \in FreshSeries(db)
  <2>1. CASE bare.repeat # 0 /\ bare.series = None
    <3>1. FreshSeries(db) # {}
      BY <1>1, <2>1 DEF UpdateTask
    <3>2. series \in FreshSeries(db)
      BY <2>1, <3>1
    <3>3. FreshSeries(db) \subseteq Series /\ None \notin Series
      BY RowBounds DEF FreshSeries, Series, None
    <3> QED
      BY <3>2, <3>3
  <2>2. CASE ~(bare.repeat # 0 /\ bare.series = None)
    BY <1>1, <2>2 DEF Row
  <2> QED
    BY <2>1, <2>2
<1>4. Edited(db, t, f) = Rec(U, dep, project)
  <2>1. WithSeries(db, bare) = new
    BY DEF WithSeries, Minted
  <2>2. S1.task = T /\ S1.dep = dep /\ S1.project = project
    BY DEF db, Replaced
  <2>3. fwd # {} => every = f.repeat
    OBVIOUS
  <2>4. Edited(db, t, f) =
          [S1 EXCEPT !.task = [u \in TaskId |-> IF u \in fwd
                                                THEN [S1.task[u] EXCEPT !.repeat = f.repeat]
                                                ELSE S1.task[u]]]
    BY <2>1 DEF Edited
  <2>5. Edited(db, t, f) = [S1 EXCEPT !.task = Reinterval(S1.task, fwd, f.repeat)]
    BY <2>4 DEF Reinterval, WithRepeat
  <2>6. S1 = Rec(T, dep, project)
    BY DEF db, Rec, Replaced
  <2> HIDE DEF fwd, every, S1, T
  <2>7. Reinterval(S1.task, fwd, f.repeat) = U
    BY <2>2, <2>3 DEF Reinterval
  <2> HIDE DEF U
  <2> QED
    BY <2>5, <2>6, <2>7 DEF Rec
<1> HIDE DEF bare, series
<1>5. /\ new \in Row /\ new.state = "live" /\ Unmarked(new) /\ new.parent = bare.parent
      /\ new.project = bare.project /\ new.due = bare.due /\ new.repeat = bare.repeat
      /\ new.series = series
  BY <1>1, <1>3, MintedShape
<1> HIDE DEF new
<1>6. RowSound(new, Present(task) \cup {t}, project)
  BY <1>1, <1>3, <1>5 DEF RowSound, Unmarked
<1>7. ASSUME NEW u \in TaskId \ {t}, SameSlot(new, task[u])
      PROVE  FALSE
  <2>1. u \in Rows(db) /\ u \in Live(db)
    BY <1>2, <1>7 DEF SameSlot, Rows, Live
  <2>2. series = old.series
    BY <1>2, <1>3, <1>5, <1>7, <2>1 DEF SameSlot, FreshSeries
  <2>3. CASE new.due = old.due
    BY <1>1, <1>2, <1>5, <1>7, <2>2, <2>3, LiveRow DEF Sound, OneRowPerSlot, SameSlot
  <2>4. CASE new.due # old.due
    <3>1. u \in Occurrences(db, new.series, new.due)
      BY <1>2, <1>7, <2>1 DEF SameSlot, Occurrences
    <3> QED
      BY <1>1, <1>5, <1>7, <2>2, <2>4, <3>1 DEF SameSlot
  <2> QED
    BY <2>3, <2>4
<1>8. Sound(T, dep, project) /\ Present(T) = Present(task) \cup {t}
  <2>1. new \in Row /\ new.state # "none"
    BY <1>5
  <2> QED
    BY <1>2, <1>6, <1>7, <2>1, OneRowSound
<1>9. S1.task = T
  BY DEF db, Replaced
<1>10. every \in 0..MaxEvery
  BY RequestShapes, RowBounds DEF Given
<1> HIDE DEF T, every, S1
<1>11. \A u \in fwd : u \in TaskId /\ every # 0 => T[u].series # None /\ T[u].due # None
  BY <1>9 DEF LaterOccurrences
<1> HIDE DEF fwd
<1>12. Sound(U, dep, project) /\ Present(U) = Present(T)
  BY <1>8, <1>10, <1>11, ReintervalSound
<1>13. Commit(Rec(U, dep, project), EditSeeds(db, t, f))
  BY <1>4 DEF UpdateTask
<1> HIDE DEF U
<1> QED
  BY <1>8, <1>12, <1>13, CommitKept, DbStore

-----------------------------------------------------------------------------
(* Into the trash *)

Binned(row, by) == [row EXCEPT !.state = "trashed", !.dwt = by]

LEMMA BinnedSound ==
  ASSUME NEW row \in Row, NEW P, NEW Q, RowSound(row, P, Q), row.state = "live",
         NEW by \in TaskId \cup {None}, by \in P \cup {None}
  PROVE  /\ Binned(row, by) \in Row /\ RowSound(Binned(row, by), P, Q)
         /\ Binned(row, by).state = "trashed"
<1> DEFINE new == Binned(row, by)
<1>1. new \in Row
  BY DEF Binned, Row, Lifecycle
<1>2. /\ new.state = "trashed" /\ new.dwt = by /\ new.dwp = row.dwp /\ new.skipped = row.skipped
      /\ new.superseded = row.superseded
  BY DEF Binned, Row
<1>3. /\ new.project = row.project /\ new.parent = row.parent /\ new.due = row.due
      /\ new.repeat = row.repeat /\ new.series = row.series
  BY DEF Binned, Row
<1> HIDE DEF new
<1>4. RowSound(new, P, Q)
  BY <1>2, <1>3 DEF RowSound, Unmarked
<1> QED
  BY <1>1, <1>2, <1>4 DEF new

\* A cascade delete of live rows, stamped with a row that stays.
LEMMA TrashingSound ==
  ASSUME NEW S \in Store, SoundStore(S), NEW A \in SUBSET Live(S), NEW root \in Rows(S)
  PROVE  \E T \in [TaskId -> Row] :
           /\ Trashing(S, A, root) = Rec(T, S.dep, S.project)
           /\ Sound(T, S.dep, S.project) /\ Present(T) = Present(S.task)
           /\ \A t \in TaskId \ A : T[t] = S.task[t]
<1> DEFINE by(t) == IF t = root THEN S.task[t].dwt ELSE root
           T == [t \in TaskId |-> IF t \in A THEN Binned(S.task[t], by(t)) ELSE S.task[t]]
<1>1. \A t \in TaskId : S.task[t] \in Row /\ RowSound(S.task[t], Present(S.task), S.project)
  BY DEF SoundStore, Sound
<1>2. Trashing(S, A, root) = Rec(T, S.dep, S.project)
  <2>1. Trashing(S, A, root) = OnTask(S, T)
    BY DEF Trashing, OnTask, Binned
  <2> HIDE DEF T
  <2> QED
    BY <2>1, OnTaskRec
<1>3. ASSUME NEW t \in TaskId
      PROVE  /\ T[t] \in Row /\ RowSound(T[t], Present(S.task), S.project)
             /\ T[t].state = "live" => T[t] = S.task[t]
             /\ (T[t].state = "none") <=> (S.task[t].state = "none")
             /\ t \notin A => T[t] = S.task[t]
  <2>1. CASE t \in A
    <3>1. S.task[t].state = "live"
      BY <2>1 DEF Live
    <3>2. root \in Present(S.task) /\ root \in TaskId
      BY DEF Rows, Present
    <3>3. by(t) \in Present(S.task) \cup {None} /\ by(t) \in TaskId \cup {None}
      BY <1>1, <3>1, <3>2 DEF RowSound, Row
    <3>4. T[t] = Binned(S.task[t], by(t))
      BY <2>1
    <3> HIDE DEF T, by
    <3>5. T[t] \in Row /\ RowSound(T[t], Present(S.task), S.project) /\ T[t].state = "trashed"
      BY <1>1, <3>1, <3>3, <3>4, BinnedSound
    <3> QED
      BY <2>1, <3>1, <3>5
  <2>2. CASE t \notin A
    <3>1. T[t] = S.task[t]
      BY <2>2
    <3> HIDE DEF T
    <3> QED
      BY <1>1, <3>1
  <2> QED
    BY <2>1, <2>2
<1>4. T \in [TaskId -> Row]
  BY <1>3
<1> HIDE DEF T
<1>5. OneRowPerSlot(S.task)
  BY DEF SoundStore, Sound
<1>6. OneRowPerSlot(T)
  BY <1>3, <1>5, SlotsShrink
<1>7. Sound(T, S.dep, S.project) /\ Present(T) = Present(S.task)
  BY <1>3, <1>4, <1>6, RewriteSound DEF SoundStore
<1> QED
  BY <1>2, <1>3, <1>4, <1>7

LEMMA SoftDeleteTaskKept ==
  ASSUME Sound(task, dep, project), NEW t, SoftDeleteTask(t)
  PROVE  Kept
<1> DEFINE A == LiveSubtree(db, t)
<1>1. t \in Live(db) /\ Commit(Trashing(db, A, t), Neighbours(db, A))
  BY DEF SoftDeleteTask
<1>2. /\ db \in Store /\ SoundStore(db) /\ db.task = task /\ db.dep = dep /\ db.project = project
      /\ t \in Rows(db) /\ Live(db) \subseteq Present(task)
  BY <1>1, DbStore DEF SoundStore
<1>3. A \in SUBSET Live(db)
  BY <1>1, <1>2, SubtreeLive
<1>4. PICK T \in [TaskId -> Row] :
        /\ Trashing(db, A, t) = Rec(T, dep, project)
        /\ Sound(T, dep, project) /\ Present(T) = Present(task)
  BY <1>2, <1>3, TrashingSound
<1> QED
  BY <1>1, <1>2, <1>4, CommitKept

SkippedRow(row) == [row EXCEPT !.state = "trashed", !.skipped = TRUE]

LEMMA SkippedRowSound ==
  ASSUME NEW row \in Row, NEW P, NEW Q, RowSound(row, P, Q), row.state = "live",
         row.repeat # 0, row.due # None
  PROVE  /\ SkippedRow(row) \in Row /\ RowSound(SkippedRow(row), P, Q)
         /\ SkippedRow(row).state = "trashed"
<1> DEFINE new == SkippedRow(row)
<1>1. new \in Row
  BY DEF SkippedRow, Row, Lifecycle
<1>2. /\ new.state = "trashed" /\ new.dwt = row.dwt /\ new.dwp = row.dwp
      /\ new.superseded = row.superseded
  BY DEF SkippedRow, Row
<1>3. /\ new.project = row.project /\ new.parent = row.parent /\ new.due = row.due
      /\ new.repeat = row.repeat /\ new.series = row.series
  BY DEF SkippedRow, Row
<1> HIDE DEF new
<1>4. RowSound(new, P, Q)
  BY <1>2, <1>3 DEF RowSound, Unmarked
<1> QED
  BY <1>1, <1>2, <1>4 DEF new

LEMMA SkipOccurrenceKept ==
  ASSUME Sound(task, dep, project), NEW t, SkipOccurrence(t)
  PROVE  Kept
<1> DEFINE next == RollForward(db, {t})
           gone == ChecklistGone(db, t)
           done == Reconcile(gone, SkipSeeds(db, t))
           row == SkippedRow(done.task[t])
<1>1. /\ t \in Live(db) /\ CanRollForward(db, {t}) /\ CanReconcile(gone, SkipSeeds(db, t))
      /\ IsSeriesHead(db, t) /\ Write(Skipped(db, t))
  BY DEF SkipOccurrence, CanSkip
<1>2. /\ db \in Store /\ SoundStore(db) /\ db.task = task /\ db.dep = dep /\ db.project = project
      /\ t \in Rows(db) /\ Rows(db) = Present(task) /\ Live(db) \subseteq Present(task)
  BY <1>1, DbStore DEF SoundStore
<1>3. RolledForward(db, Inserting(db, {t}), next)
  BY <1>1, <1>2, RollForwardEffect
<1>4. /\ next \in Store /\ next.project = project /\ next.task[t] = task[t]
      /\ Sound(next.task, next.dep, project) /\ Present(task) \subseteq Present(next.task)
  <2>1. {t} \in SUBSET Live(db)
    BY <1>1
  <2>2. Sound(next.task, next.dep, project) /\ Rows(db) \subseteq Rows(next)
    BY <1>2, <1>3, <2>1, RolledForwardSound DEF SoundStore
  <2> QED
    BY <1>2, <1>3, <2>2, PresentRows DEF RolledForward
<1> HIDE DEF next
<1>5. PICK T \in [TaskId -> Row] :
        /\ gone = Rec(T, next.dep, project)
        /\ Sound(T, next.dep, project) /\ Present(T) = Present(next.task)
        /\ T[t] = task[t]
  <2> DEFINE A == Checklist(next, t)
  <2>1. t \in Live(next) /\ t \in Rows(next) /\ t \in TaskId
    BY <1>1, <1>2, <1>4, LiveRow DEF Live, Rows
  <2>2. A \in SUBSET Live(next) /\ t \notin A
    BY <1>4, <2>1, SubtreeLive DEF Checklist
  <2>3. gone = Trashing(next, A, t)
    BY DEF ChecklistGone, next
  <2> HIDE DEF A, gone
  <2> QED
    BY <1>4, <2>1, <2>2, <2>3, TrashingSound DEF SoundStore
<1> HIDE DEF gone
<1>6. gone \in Store /\ gone.task = T /\ gone.dep = next.dep /\ gone.project = project
  BY <1>5, RecStore
<1>7. /\ done \in Store /\ done.project = project /\ Sound(done.task, done.dep, project)
      /\ \A u \in Rows(gone) : done.task[u] = gone.task[u]
      /\ Rows(gone) \subseteq Rows(done)
  BY <1>1, <1>5, <1>6, ReconcileSound
<1> HIDE DEF done
<1>8. t \in TaskId /\ t \in Rows(gone) /\ Present(task) \subseteq Present(done.task)
  BY <1>1, <1>2, <1>4, <1>5, <1>6, <1>7, PresentRows, LiveRow
<1>9. done.task[t] = task[t]
  BY <1>5, <1>6, <1>7, <1>8
<1>10. /\ done.task[t] \in Row /\ RowSound(done.task[t], Present(done.task), project)
       /\ done.task[t].state = "live" /\ done.task[t].repeat # 0 /\ done.task[t].due # None
  BY <1>1, <1>2, <1>7, <1>8, <1>9, LiveRow DEF Sound, IsSeriesHead
<1>11. row \in Row /\ RowSound(row, Present(done.task), project) /\ row.state = "trashed"
  BY <1>10, SkippedRowSound
<1> HIDE DEF row
<1>12. /\ Sound(Replaced(done.task, t, row), done.dep, project)
       /\ Present(Replaced(done.task, t, row)) = Present(done.task) \cup {t}
  <2>1. RowSound(row, Present(done.task) \cup {t}, project)
    BY <1>11, RowSoundMono
  <2>2. row.state # "none" /\ row.state # "live"
    BY <1>11
  <2> QED
    BY <1>7, <1>8, <1>11, <2>1, <2>2, OneRowSound
<1>13. Skipped(db, t) = Rec(Replaced(done.task, t, row), done.dep, project)
  <2>1. Skipped(db, t) = OnTask(done, Replaced(done.task, t, row))
    BY DEF Skipped, OnTask, Replaced, SkippedRow, row, done, gone
  <2> QED
    BY <1>7, <2>1, OnTaskRec
<1> QED
  BY <1>1, <1>2, <1>8, <1>12, <1>13, WriteKept

-----------------------------------------------------------------------------
(* Out of the trash *)

Revived(row, p) ==
  [row EXCEPT !.state = "live", !.project = p, !.dwt = None, !.dwp = None, !.skipped = FALSE]

LEMMA RevivedSound ==
  ASSUME NEW row \in Row, NEW P, NEW Q, RowSound(row, P, Q), row.state = "trashed",
         ~row.superseded, NEW p \in ProjectId, Q[p] = "live"
  PROVE  /\ Revived(row, p) \in Row /\ RowSound(Revived(row, p), P, Q)
         /\ Revived(row, p).state = "live"
<1> DEFINE new == Revived(row, p)
<1>1. new \in Row
  BY DEF Revived, Row, Lifecycle
<1>2. new.state = "live" /\ new.project = p /\ new.superseded = row.superseded
  BY DEF Revived, Row
<1>3. new.dwt = None /\ new.dwp = None /\ ~new.skipped
  BY DEF Revived, Row
<1>4. /\ new.parent = row.parent /\ new.due = row.due
      /\ new.repeat = row.repeat /\ new.series = row.series
  BY DEF Revived, Row
<1> HIDE DEF new
<1>5. RowSound(new, P, Q)
  BY <1>2, <1>3, <1>4 DEF RowSound, Unmarked
<1> QED
  BY <1>1, <1>2, <1>5 DEF new

LEMMA RestoredKept ==
  ASSUME Sound(task, dep, project), NEW A \in SUBSET Trashed(db),
         \A u \in A : ~task[u].superseded,
         SlotsFree(db, A), Commit(Restored(db, A), A)
  PROVE  Kept
<1> DEFINE p(u) == IF task[u].project \in LiveProjects(db) THEN task[u].project ELSE General
           T == [u \in TaskId |-> IF u \in A THEN Revived(task[u], p(u)) ELSE task[u]]
<1>1. /\ db \in Store /\ db.task = task /\ db.dep = dep /\ db.project = project
      /\ Live(db) \subseteq Present(task)
  BY DbStore
<1>2. Restored(db, A) = Rec(T, dep, project)
  <2>1. Restored(db, A) = OnTask(db, T)
    BY <1>1 DEF Restored, OnTask, RestoredRow, Revived
  <2> HIDE DEF T
  <2> QED
    BY <1>1, <2>1, OnTaskRec
<1>3. \A u \in TaskId : task[u] \in Row /\ RowSound(task[u], Present(task), project)
  BY DEF Sound
<1>4. General \in ProjectId /\ project[General] = "live"
  BY RowBounds DEF Sound, General, ProjectId
<1>5. ASSUME NEW u \in TaskId
      PROVE  /\ T[u] \in Row /\ RowSound(T[u], Present(task), project)
             /\ (T[u].state = "none") <=> (task[u].state = "none")
  <2>1. CASE u \in A
    <3>1. task[u].state = "trashed"
      BY <1>1, <2>1 DEF Trashed
    <3>2. p(u) \in ProjectId /\ project[p(u)] = "live"
      BY <1>1, <1>4 DEF LiveProjects
    <3>3. T[u] = Revived(task[u], p(u))
      BY <2>1
    <3> HIDE DEF T, p
    <3>4. T[u] \in Row /\ RowSound(T[u], Present(task), project) /\ T[u].state = "live"
      BY <1>3, <2>1, <3>1, <3>2, <3>3, RevivedSound
    <3> QED
      BY <3>1, <3>4
  <2>2. CASE u \notin A
    <3>1. T[u] = task[u]
      BY <2>2
    <3> HIDE DEF T
    <3> QED
      BY <1>3, <3>1
  <2> QED
    BY <2>1, <2>2
<1>6. T \in [TaskId -> Row]
  BY <1>5
<1> HIDE DEF T
<1>7. OneRowPerSlot(T)
  <2>1. Rec(T, dep, project).task = T
    BY DEF Rec
  <2> QED
    BY <1>2, <2>1, SlotsOfStore DEF SlotsFree
<1>8. Sound(T, dep, project) /\ Present(T) = Present(task)
  BY <1>5, <1>6, <1>7, RewriteSound
<1> QED
  BY <1>1, <1>2, <1>8, CommitKept

WithDue(row, d) == [row EXCEPT !.due = d]

Retired(row, s) == [row EXCEPT !.superseded = TRUE, !.skipped = s]

LEMMA WithDueSound ==
  ASSUME NEW row \in Row, NEW P, NEW Q, RowSound(row, P, Q), row.state = "live",
         NEW d \in Date
  PROVE  /\ WithDue(row, d) \in Row /\ RowSound(WithDue(row, d), P, Q)
         /\ WithDue(row, d).state = "live"
<1> DEFINE new == WithDue(row, d)
<1>1. new \in Row
  BY DEF WithDue, Row
<1>2. /\ new.state = row.state /\ new.dwt = row.dwt /\ new.dwp = row.dwp
      /\ new.superseded = row.superseded /\ new.skipped = row.skipped
  BY DEF WithDue, Row
<1>3. /\ new.project = row.project /\ new.parent = row.parent /\ new.due = d
      /\ new.repeat = row.repeat /\ new.series = row.series
  BY DEF WithDue, Row
<1>4. d # None
  BY RowBounds DEF Date, None
<1> HIDE DEF new
<1>5. RowSound(new, P, Q)
  BY <1>2, <1>3, <1>4 DEF RowSound, Unmarked
<1> QED
  BY <1>1, <1>2, <1>5 DEF new

LEMMA RetiredSound ==
  ASSUME NEW row \in Row, NEW P, NEW Q, RowSound(row, P, Q), row.state = "trashed",
         row.dwp = None, NEW s \in BOOLEAN, s => row.skipped
  PROVE  /\ Retired(row, s) \in Row /\ RowSound(Retired(row, s), P, Q)
         /\ Retired(row, s).state = "trashed"
<1> DEFINE new == Retired(row, s)
<1>1. new \in Row
  BY DEF Retired, Row
<1>2. /\ new.state = row.state /\ new.dwt = row.dwt /\ new.dwp = row.dwp
      /\ new.superseded /\ new.skipped = s
  BY DEF Retired, Row
<1>3. /\ new.project = row.project /\ new.parent = row.parent /\ new.due = row.due
      /\ new.repeat = row.repeat /\ new.series = row.series
  BY DEF Retired, Row
<1> HIDE DEF new
<1>4. RowSound(new, P, Q)
  BY <1>2, <1>3 DEF RowSound, Unmarked
<1> QED
  BY <1>1, <1>2, <1>4 DEF new

\* A set of naturals that is not empty has a least member.
LEMMA LeastNatural ==
  ASSUME NEW N \in SUBSET Nat, N # {}
  PROVE  \E d \in N : \A e \in N : d <= e
<1>1. PICK d \in N : \A e \in N : ~(<<e, d>> \in OpToRel(<, Nat))
  BY NatLessThanWellFounded, WFMin
<1>2. \A e \in N : ~(e < d)
  <2> SUFFICES ASSUME NEW e \in N, e < d
               PROVE  FALSE
    OBVIOUS
  <2>1. <<e, d>> \in Nat \X Nat
    OBVIOUS
  <2> QED
    BY <1>1, <2>1 DEF OpToRel
<1> QED
  BY <1>2

\* The successors of an occurrence have a first one, which is live.
LEMMA SuccessorsHaveFirst ==
  ASSUME NEW S \in Store, NEW t, Successors(S, t) # {}
  PROVE  NextLive(S, t) \in Live(S)
<1> DEFINE dues == {S.task[u].due : u \in Successors(S, t)}
<1>1. dues \in SUBSET Nat /\ dues # {}
  BY RowBounds DEF Store, Row, Successors, Live, Date, None
<1>2. PICK d \in dues : \A e \in dues : d <= e
  BY <1>1, LeastNatural
<1>3. \E u \in Successors(S, t) : \A v \in Successors(S, t) : S.task[u].due <= S.task[v].due
  BY <1>2
<1> QED
  BY <1>3 DEF NextLive, Successors

\* An un-skip whose successor is rewound: guarded by the unique index alone.
LEMMA CommitRewindKept ==
  ASSUME Sound(task, dep, project), NEW t \in Trashed(db), Rewinds(db, t), CommitRewind(t)
  PROVE  Kept
<1> DEFINE next == NextLive(db, t)
           moved == LiveSubtree(db, next)
           due == task[t].due
           T1 == [u \in TaskId |-> IF u \in moved THEN WithDue(task[u], due) ELSE task[u]]
           S1 == Rescheduled(db, next, due)
           A == {t} \cup Stamped(S1, t)
           skip(u) == IF u = t THEN FALSE ELSE T1[u].skipped
           T == [u \in TaskId |-> IF u \in A THEN Retired(T1[u], skip(u)) ELSE T1[u]]
<1>1. /\ db \in Store /\ db.task = task /\ db.dep = dep /\ db.project = project
      /\ Live(db) \subseteq Present(task)
  BY DbStore
<1>2. \A u \in TaskId : task[u] \in Row /\ RowSound(task[u], Present(task), project)
  BY DEF Sound
<1>3. t \in TaskId /\ task[t].state = "trashed" /\ task[t].skipped /\ due # None
  BY <1>1 DEF Trashed, Rewinds
<1>4. due \in Date
  BY <1>2, <1>3 DEF Row
<1>5. moved \subseteq Live(db)
  <2>1. next \in Live(db)
    BY <1>1, SuccessorsHaveFirst DEF Rewinds
  <2> QED
    BY <1>1, <2>1, SubtreeLive
<1>6. S1 = Rec(T1, dep, project)
  <2>1. S1 = OnTask(db, T1)
    BY <1>1 DEF Rescheduled, OnTask, WithDue
  <2> HIDE DEF T1
  <2> QED
    BY <1>1, <2>1, OnTaskRec
<1>7. Rewound(db, t) = Rec(T, dep, project)
  <2>1. Rewound(db, t) = Supersede(S1, t)
    BY <1>1 DEF Rewound
  <2>2. S1.task = T1 /\ S1.dep = dep /\ S1.project = project
    BY <1>6 DEF Rec
  <2>3. Supersede(S1, t) = OnTask(S1, T)
    BY <2>2 DEF Supersede, OnTask, Retired
  <2> HIDE DEF T, S1
  <2>4. OnTask(S1, T) = Rec(T, dep, project)
    BY <1>6 DEF OnTask, Rec
  <2> QED
    BY <2>1, <2>3, <2>4
<1> HIDE DEF moved, due
<1>8. ASSUME NEW u \in TaskId
      PROVE  /\ T1[u] \in Row /\ RowSound(T1[u], Present(task), project)
             /\ T1[u].state = task[u].state
             /\ task[u].state # "live" => T1[u] = task[u]
  <2>1. CASE u \in moved
    <3>1. task[u].state = "live"
      BY <1>1, <1>5, <2>1 DEF Live
    <3>2. T1[u] = WithDue(task[u], due)
      BY <2>1
    <3> HIDE DEF T1
    <3> QED
      BY <1>2, <1>4, <3>1, <3>2, WithDueSound
  <2>2. CASE u \notin moved
    <3>1. T1[u] = task[u]
      BY <2>2
    <3> HIDE DEF T1
    <3> QED
      BY <1>2, <3>1
  <2> QED
    BY <2>1, <2>2
<1>9. \A u \in A : /\ u \in TaskId /\ T1[u].state = "trashed"
                   /\ T1[u].dwp = None
                   /\ skip(u) \in BOOLEAN /\ (skip(u) => T1[u].skipped)
  <2> SUFFICES ASSUME NEW u \in A
               PROVE  /\ u \in TaskId /\ T1[u].state = "trashed" /\ T1[u].dwp = None
                      /\ skip(u) \in BOOLEAN /\ (skip(u) => T1[u].skipped)
    OBVIOUS
  <2>1. S1.task = T1
    BY <1>6 DEF Rec
  <2> HIDE DEF T1, S1
  <2>2. CASE u = t
    <3>1. T1[u] = task[t]
      BY <1>3, <1>8, <2>2
    <3> QED
      BY <1>2, <1>3, <2>2, <3>1 DEF RowSound
  <2>3. CASE u # t
    <3>1. u \in TaskId /\ T1[u].state = "trashed" /\ T1[u].dwt = t
      BY <2>1, <2>3 DEF Stamped, Trashed
    <3>2. t # None
      BY <1>3, RowBounds DEF TaskId, None
    <3>3. T1[u].dwp = None /\ T1[u].skipped \in BOOLEAN
      BY <1>8, <3>1, <3>2 DEF RowSound, Row
    <3> QED
      BY <2>3, <3>1, <3>3
  <2> QED
    BY <2>2, <2>3
<1> HIDE DEF T1, A, S1
<1>10. ASSUME NEW u \in TaskId
       PROVE  /\ T[u] \in Row /\ RowSound(T[u], Present(task), project)
              /\ T[u].state = task[u].state
  <2>1. CASE u \in A
    <3>1. T[u] = Retired(T1[u], skip(u))
      BY <1>9, <2>1
    <3>2. /\ T1[u] \in Row /\ RowSound(T1[u], Present(task), project)
          /\ T1[u].state = "trashed" /\ T1[u].dwp = None
          /\ skip(u) \in BOOLEAN /\ (skip(u) => T1[u].skipped)
          /\ T1[u].state = task[u].state
      BY <1>8, <1>9, <2>1
    <3> DEFINE row == T1[u]
               s == skip(u)
    <3>3. /\ row \in Row /\ RowSound(row, Present(task), project)
          /\ row.state = "trashed" /\ row.dwp = None
          /\ s \in BOOLEAN /\ (s => row.skipped)
      BY <3>2
    <3> HIDE DEF T, skip, row, s
    <3>4. /\ Retired(row, s) \in Row /\ RowSound(Retired(row, s), Present(task), project)
          /\ Retired(row, s).state = "trashed"
      BY ONLY <3>3, RetiredSound
    <3> QED
      BY <3>1, <3>2, <3>4 DEF row, s
  <2>2. CASE u \notin A
    <3>1. T[u] = T1[u]
      BY <2>2
    <3> HIDE DEF T
    <3> QED
      BY <1>8, <3>1
  <2> QED
    BY <2>1, <2>2
<1>11. T \in [TaskId -> Row]
  BY <1>10
<1> HIDE DEF T
<1>12. OneRowPerSlot(T)
  <2>1. Rec(T, dep, project).task = T
    BY DEF Rec
  <2> QED
    BY <1>7, <2>1, SlotsOfStore DEF CommitRewind
<1>13. Sound(T, dep, project) /\ Present(T) = Present(task)
  BY <1>10, <1>11, <1>12, RewriteSound
<1>14. Commit(Rec(T, dep, project), {next})
  BY <1>7 DEF CommitRewind
<1> HIDE DEF next
<1> QED
  BY <1>1, <1>13, <1>14, CommitKept

LEMMA RestoreTaskKept ==
  ASSUME Sound(task, dep, project), NEW t, RestoreTask(t)
  PROVE  Kept
<1> DEFINE A == PlainRestoreSet(db, t)
<1>1. t \in Trashed(db) /\ ~task[t].superseded /\ db.task = task
  BY DbStore DEF RestoreTask
<1>2. CASE Rewinds(db, t)
  BY <1>1, <1>2, CommitRewindKept DEF RestoreTask
<1>3. CASE ~Rewinds(db, t)
  <2>1. SlotsFree(db, A) /\ Commit(Restored(db, A), A)
    BY <1>3 DEF RestoreTask
  <2>2. A \in SUBSET Trashed(db) /\ \A u \in A : ~task[u].superseded
    BY <1>1 DEF PlainRestoreSet, MarkedDescendants, Stamped
  <2> HIDE DEF A
  <2> QED
    BY <2>1, <2>2, RestoredKept
<1> QED
  BY <1>2, <1>3

LEMMA RestoreTaskSubtreeKept ==
  ASSUME Sound(task, dep, project), NEW t, RestoreTaskSubtree(t)
  PROVE  Kept
<1> DEFINE A == {t} \cup MarkedDescendants(db, t)
<1>1. t \in Trashed(db) /\ ~task[t].superseded /\ db.task = task
  BY DbStore DEF RestoreTaskSubtree
<1>2. CASE Rewinds(db, t)
  BY <1>1, <1>2, CommitRewindKept DEF RestoreTaskSubtree
<1>3. CASE ~Rewinds(db, t)
  <2>1. SlotsFree(db, A) /\ Commit(Restored(db, A), A)
    BY <1>3 DEF RestoreTaskSubtree
  <2>2. A \in SUBSET Trashed(db) /\ \A u \in A : ~task[u].superseded
    BY <1>1 DEF MarkedDescendants, Stamped
  <2> HIDE DEF A
  <2> QED
    BY <2>1, <2>2, RestoredKept
<1> QED
  BY <1>2, <1>3-----------------------------------------------------------------------------
(* Purging *)

Cleared(row, q, by) == [row EXCEPT !.parent = q, !.dwt = by]

LEMMA ClearedShape ==
  ASSUME NEW row \in Row, NEW q \in TaskId \cup {None}, NEW by \in TaskId \cup {None}
  PROVE  LET new == Cleared(row, q, by)
         IN  /\ new \in Row /\ new.parent = q /\ new.dwt = by
             /\ new.state = row.state /\ new.project = row.project
             /\ new.due = row.due /\ new.repeat = row.repeat /\ new.series = row.series
             /\ new.dwp = row.dwp /\ new.skipped = row.skipped
             /\ new.superseded = row.superseded
<1> DEFINE new == Cleared(row, q, by)
<1>1. new \in Row
  BY DEF Cleared, Row
<1>2. new.parent = q /\ new.dwt = by /\ new.state = row.state /\ new.project = row.project
  BY DEF Cleared, Row
<1>3. new.due = row.due /\ new.repeat = row.repeat /\ new.series = row.series
  BY DEF Cleared, Row
<1>4. new.dwp = row.dwp /\ new.skipped = row.skipped /\ new.superseded = row.superseded
  BY DEF Cleared, Row
<1> QED
  BY <1>1, <1>2, <1>3, <1>4

\* Rows of the trash go, and nothing names them afterwards.
LEMMA PurgedSound ==
  ASSUME NEW S \in Store, SoundStore(S), NEW A \in SUBSET Trashed(S)
  PROVE  \E T \in [TaskId -> Row], D \in SUBSET (TaskId \X TaskId) :
           /\ Purged(S, A) = Rec(T, D, S.project)
           /\ Sound(T, D, S.project)
           /\ Present(T) = Present(S.task) \ A
           /\ \A t \in TaskId : /\ T[t].state = "none" \/ T[t].project = S.task[t].project
                                /\ T[t].state # "none" => T[t].state = S.task[t].state
           /\ \A t \in A : T[t] = NoRow
<1> DEFINE cleared(ref) == IF ref \in A THEN None ELSE ref
           q(t) == cleared(S.task[t].parent)
           by(t) == cleared(S.task[t].dwt)
           T == [t \in TaskId |-> IF t \in A THEN NoRow ELSE Cleared(S.task[t], q(t), by(t))]
           D == {e \in S.dep : e[1] \notin A /\ e[2] \notin A}
<1>1. \A t \in TaskId : S.task[t] \in Row /\ RowSound(S.task[t], Present(S.task), S.project)
  BY DEF SoundStore, Sound
<1>2. Purged(S, A) = Rec(T, D, S.project)
  <2> DEFINE U == [t \in TaskId |->
                     IF t \in A THEN NoRow
                     ELSE [S.task[t] EXCEPT !.parent = cleared(@), !.dwt = cleared(@)]]
  <2>1. Purged(S, A) = [S EXCEPT !.task = U, !.dep = D]
    BY DEF Purged
  <2>2. U = T
    BY DEF Cleared
  <2> HIDE DEF U, T, D
  <2> QED
    BY <2>1, <2>2 DEF Rec, Store
<1>3. \A t \in TaskId : T[t] = IF t \in A THEN NoRow ELSE Cleared(S.task[t], q(t), by(t))
  OBVIOUS
<1>4. DOMAIN T = TaskId /\ T = [t \in TaskId |-> T[t]]
  OBVIOUS
<1> HIDE DEF T
<1>5. A \subseteq TaskId /\ \A t \in A : S.task[t].state = "trashed"
  BY DEF Trashed
<1>6. ASSUME NEW t \in TaskId, t \notin A
      PROVE  /\ q(t) \in TaskId \cup {None} /\ by(t) \in TaskId \cup {None}
             /\ S.task[t].parent = q(t) \/ q(t) = None
             /\ S.task[t].dwt = by(t) \/ by(t) = None
             /\ q(t) \notin A /\ by(t) \notin A
  <2>1. None \notin A
    BY <1>5, RowBounds DEF TaskId, None
  <2> QED
    BY <1>1, <2>1 DEF Row
<1> HIDE DEF q, by, cleared
<1>7. ASSUME NEW t \in TaskId, t \notin A
      PROVE  LET row == S.task[t]
             IN  /\ T[t] \in Row /\ T[t].parent = q(t) /\ T[t].dwt = by(t)
                 /\ T[t].state = row.state /\ T[t].project = row.project
                 /\ T[t].due = row.due /\ T[t].repeat = row.repeat /\ T[t].series = row.series
                 /\ T[t].dwp = row.dwp /\ T[t].skipped = row.skipped
                 /\ T[t].superseded = row.superseded
  <2>1. T[t] = Cleared(S.task[t], q(t), by(t))
    BY <1>3, <1>7
  <2>2. S.task[t] \in Row /\ q(t) \in TaskId \cup {None} /\ by(t) \in TaskId \cup {None}
    BY <1>1, <1>6, <1>7
  <2> DEFINE row == S.task[t]
             new == Cleared(row, q(t), by(t))
  <2>3. T[t] = new /\ row \in Row
    BY <2>1, <2>2
  <2> HIDE DEF row
  <2>4. /\ new \in Row /\ new.parent = q(t) /\ new.dwt = by(t)
        /\ new.state = row.state /\ new.project = row.project
        /\ new.due = row.due /\ new.repeat = row.repeat /\ new.series = row.series
        /\ new.dwp = row.dwp /\ new.skipped = row.skipped
        /\ new.superseded = row.superseded
    BY <2>2, <2>3, ClearedShape
  <2> HIDE DEF new
  <2> QED
    BY <2>3, <2>4 DEF row
<1>8. \A t \in A : T[t] = NoRow
  BY <1>3, <1>5
<1>9. Present(T) = Present(S.task) \ A
  BY <1>7, <1>8, NoRowType DEF Present
<1>10. ASSUME NEW t \in TaskId
       PROVE  T[t] \in Row /\ RowSound(T[t], Present(T), S.project)
  <2>1. CASE t \in A
    BY <1>8, <2>1, NoRowType DEF RowSound, Unmarked
  <2>2. CASE t \notin A
    <3>1. RowSound(S.task[t], Present(S.task), S.project)
      BY <1>1
    <3>2. q(t) \notin A /\ by(t) \notin A
      BY <1>6, <2>2
    <3>3. /\ S.task[t].parent = q(t) \/ q(t) = None
          /\ S.task[t].dwt = by(t) \/ by(t) = None
      BY <1>6, <2>2
    <3>4. T[t] \in Row
      BY <1>7, <2>2
    <3>5. RowSound(T[t], Present(T), S.project)
      BY <1>7, <1>9, <2>2, <3>1, <3>2, <3>3 DEF RowSound, Unmarked
    <3> QED
      BY <3>4, <3>5
  <2> QED
    BY <2>1, <2>2
<1>11. T \in [TaskId -> Row]
  BY <1>4, <1>10
<1>12. OneRowPerSlot(T)
  <2>1. OneRowPerSlot(S.task)
    BY DEF SoundStore, Sound
  <2>2. \A t \in TaskId : T[t].state = "live" =>
          S.task[t].state = "live" /\ T[t].series = S.task[t].series /\ T[t].due = S.task[t].due
    BY <1>7, <1>8, NoRowType
  <2> QED
    BY <2>1, <2>2, SlotsShrink
<1>13. D \in SUBSET (Present(T) \X Present(T))
  BY <1>9 DEF SoundStore, Sound
<1>14. Sound(T, D, S.project)
  BY <1>10, <1>11, <1>12, <1>13 DEF SoundStore, Sound
<1>15. \A t \in TaskId : /\ T[t].state = "none" \/ T[t].project = S.task[t].project
                         /\ T[t].state # "none" => T[t].state = S.task[t].state
  BY <1>7, <1>8, NoRowType
<1>16. D \in SUBSET (TaskId \X TaskId)
  BY DEF Store
<1> HIDE DEF D
<1> QED
  BY <1>2, <1>8, <1>9, <1>11, <1>14, <1>15, <1>16

LEMMA PurgeTaskKept ==
  ASSUME Sound(task, dep, project), NEW t, PurgeTask(t)
  PROVE  Kept
<1> DEFINE A == PurgeSet(db, t)
<1>1. t \in Trashed(db) /\ Write(Purged(db, A))
  BY DEF PurgeTask
<1>2. db \in Store /\ SoundStore(db) /\ db.task = task /\ db.project = project
  BY DbStore DEF SoundStore
<1>3. A \in SUBSET Trashed(db)
  <2> DEFINE mine == {u \in Trashed(db) : db.task[u].project = db.task[t].project}
             E == {e \in StoredNesting(db) : e[1] \in mine /\ e[2] \in mine}
  <2>1. mine \in SUBSET TaskId /\ {t} \subseteq mine /\ Closed(E, mine)
    BY <1>1 DEF Trashed, Closed
  <2>2. A = Reach(E, {t})
    BY DEF PurgeSet
  <2>3. mine \in SUBSET Trashed(db)
    OBVIOUS
  <2> HIDE DEF A, mine, E
  <2>4. Reach(E, {t}) \subseteq mine
    BY <2>1, ReachLeast
  <2> QED
    BY <2>2, <2>3, <2>4
<1> HIDE DEF A
<1>4. PICK T \in [TaskId -> Row], D \in SUBSET (TaskId \X TaskId) :
        /\ Purged(db, A) = Rec(T, D, project)
        /\ Sound(T, D, project) /\ Present(T) = Present(task) \ A
  BY <1>2, <1>3, PurgedSound
<1>5. Live(db) \subseteq Present(T)
  BY <1>2, <1>3, <1>4, DbStore DEF Live, Trashed
<1> QED
  BY <1>1, <1>4, <1>5, WriteKept-----------------------------------------------------------------------------
(* Projects *)

Becomes(Q, p, x) == [Q EXCEPT ![p] = x]

Refiled(S, p, x, T) == [S EXCEPT !.project[p] = x, !.task = T]

LEMMA RefiledRec ==
  ASSUME NEW T, NEW D, NEW Q, NEW p, NEW x, NEW U
  PROVE  Refiled(Rec(T, D, Q), p, x, U) = Rec(U, D, Becomes(Q, p, x))
<1>1. [Rec(T, D, Q) EXCEPT !.project[p] = x] = Rec(T, D, Becomes(Q, p, x))
  BY DEF Rec, Becomes
<1>2. Refiled(Rec(T, D, Q), p, x, U) = [Rec(T, D, Becomes(Q, p, x)) EXCEPT !.task = U]
  BY <1>1 DEF Refiled
<1>3. [Rec(T, D, Becomes(Q, p, x)) EXCEPT !.task = U] = Rec(U, D, Becomes(Q, p, x))
  BY DEF Rec
<1> QED
  BY <1>2, <1>3

\* A project changes state: its rows decide to what.
LEMMA BecomesSound ==
  ASSUME NEW row \in Row, NEW P, NEW Q \in [ProjectId -> Lifecycle], RowSound(row, P, Q),
         NEW p \in ProjectId, NEW x \in Lifecycle,
         row.project = p =>
           /\ row.state = "live" => x = "live"
           /\ row.state # "none" => x # "none"
           /\ row.dwp # None => x = "trashed"
  PROVE  RowSound(row, P, Becomes(Q, p, x))
<1>1. Becomes(Q, p, x)[row.project] = IF row.project = p THEN x ELSE Q[row.project]
  BY DEF Becomes, Row
<1> QED
  BY <1>1 DEF RowSound

LEMMA BecomesType ==
  ASSUME NEW Q \in [ProjectId -> Lifecycle], Q[General] = "live", NEW p \in ProjectId,
         NEW x \in Lifecycle, p = General => x = "live"
  PROVE  /\ Becomes(Q, p, x) \in [ProjectId -> Lifecycle]
         /\ Becomes(Q, p, x)[General] = "live"
<1>1. General \in ProjectId
  BY RowBounds DEF General, ProjectId
<1> QED
  BY <1>1 DEF Becomes

LEMMA CreateProjectKept ==
  ASSUME Sound(task, dep, project), NEW p \in ProjectId, CreateProject(p)
  PROVE  Kept
<1> DEFINE Q == Becomes(project, p, "live")
<1>1. /\ project \in [ProjectId -> Lifecycle] /\ project[General] = "live"
      /\ project[p] = "none"
  BY DbStore, RowBounds DEF Sound, CreateProject, NextProjectId, ProjectId
<1>2. "live" \in Lifecycle
  BY DEF Lifecycle
<1>3. \A t \in TaskId : task[t] \in Row /\ RowSound(task[t], Present(task), project)
  BY DEF Sound
<1>4. \A t \in TaskId : RowSound(task[t], Present(task), Q)
  <2> SUFFICES ASSUME NEW t \in TaskId
               PROVE  RowSound(task[t], Present(task), Q)
    OBVIOUS
  <2>1. task[t].project = p => task[t].state = "none" /\ task[t].dwp = None
    BY <1>1, <1>3 DEF RowSound, Unmarked
  <2> QED
    BY <1>1, <1>2, <1>3, <2>1, BecomesSound
<1>5. Q \in [ProjectId -> Lifecycle] /\ Q[General] = "live"
  BY <1>1, <1>2, BecomesType
<1> HIDE DEF Q
<1>6. Sound(task, dep, Q)
  BY <1>4, <1>5 DEF Sound
<1>7. Write(Rec(task, dep, Q))
  <2>1. [db EXCEPT !.project[p] = "live"] = Rec(task, dep, Q)
    BY DEF db, Rec, Q, Becomes
  <2> QED
    BY <2>1 DEF CreateProject
<1> QED
  BY <1>6, <1>7, WriteKept, DbStore

TakenBy(row, p) == [row EXCEPT !.state = "trashed", !.dwp = p]

LEMMA TakenBySound ==
  ASSUME NEW row \in Row, NEW P, NEW Q, NEW R, RowSound(row, P, Q), row.state = "live",
         NEW p \in ProjectId, row.project = p, R[p] = "trashed"
  PROVE  /\ TakenBy(row, p) \in Row /\ RowSound(TakenBy(row, p), P, R)
         /\ TakenBy(row, p).state = "trashed"
<1> DEFINE new == TakenBy(row, p)
<1>1. new \in Row
  BY DEF TakenBy, Row, Lifecycle
<1>2. /\ new.state = "trashed" /\ new.dwp = p /\ new.dwt = row.dwt
      /\ new.skipped = row.skipped /\ new.superseded = row.superseded
  BY DEF TakenBy, Row
<1>3. /\ new.project = row.project /\ new.parent = row.parent /\ new.due = row.due
      /\ new.repeat = row.repeat /\ new.series = row.series
  BY DEF TakenBy, Row
<1> HIDE DEF new
<1>4. RowSound(new, P, R)
  BY <1>2, <1>3 DEF RowSound, Unmarked
<1> QED
  BY <1>1, <1>2, <1>4 DEF new

\* The series roll forward while the project's own row is still live.
LEMMA SoftDeleteProjectKept ==
  ASSUME Sound(task, dep, project), NEW p \in ProjectId, SoftDeleteProject(p)
  PROVE  Kept
<1> DEFINE A == ProjectTasks(db, p)
           S == TrashedWithProject(db, p)
           seeds == ProjectNeighbours(db, p)
           T == [t \in TaskId |-> IF t \in A THEN TakenBy(task[t], p) ELSE task[t]]
           Q == Becomes(project, p, "trashed")
           R == Reconcile(S, seeds)
<1>1. /\ p # General /\ CanReconcile(S, seeds)
      /\ Write([R EXCEPT !.project[p] = "trashed"])
  BY DEF SoftDeleteProject
<1>2. /\ db \in Store /\ db.task = task /\ db.dep = dep /\ db.project = project
      /\ Live(db) \subseteq Present(task)
  BY DbStore
<1>3. S = Rec(T, dep, project)
  <2>1. S = OnTask(db, T)
    BY <1>2 DEF TrashedWithProject, OnTask, TakenBy
  <2> HIDE DEF S, T
  <2> QED
    BY <1>2, <2>1, OnTaskRec
<1>4. /\ project \in [ProjectId -> Lifecycle] /\ project[General] = "live"
      /\ "trashed" \in Lifecycle
  BY DEF Sound, Lifecycle
<1>5. Q \in [ProjectId -> Lifecycle] /\ Q[General] = "live" /\ Q[p] = "trashed"
  <2>1. Q[p] = "trashed"
    BY <1>4 DEF Becomes
  <2> QED
    BY <1>1, <1>4, <2>1, BecomesType
<1>6. \A t \in TaskId : task[t] \in Row /\ RowSound(task[t], Present(task), project)
  BY DEF Sound
<1>7. ASSUME NEW t \in TaskId
      PROVE  /\ T[t] \in Row /\ RowSound(T[t], Present(task), Q)
             /\ T[t].state = "live" => T[t] = task[t]
             /\ (T[t].state = "none") <=> (task[t].state = "none")
  <2>1. CASE t \in A
    <3>1. task[t].state = "live" /\ task[t].project = p
      BY <1>2, <2>1 DEF ProjectTasks, Live
    <3>2. T[t] = TakenBy(task[t], p)
      BY <2>1
    <3> HIDE DEF T, Q
    <3>3. T[t] \in Row /\ RowSound(T[t], Present(task), Q) /\ T[t].state = "trashed"
      BY <1>5, <1>6, <3>1, <3>2, TakenBySound
    <3> QED
      BY <3>1, <3>3
  <2>2. CASE t \notin A
    <3>1. T[t] = task[t]
      BY <2>2
    <3>2. task[t].project = p => task[t].state # "live"
      BY <1>2, <2>2 DEF ProjectTasks, Live
    <3>3. RowSound(task[t], Present(task), Q)
      BY <1>4, <1>6, <3>2, BecomesSound
    <3> HIDE DEF T, Q
    <3> QED
      BY <1>6, <3>1, <3>3
  <2> QED
    BY <2>1, <2>2
<1>8. T \in [TaskId -> Row]
  BY <1>7
<1> HIDE DEF T, Q, S
<1>9. OneRowPerSlot(T)
  <2>1. OneRowPerSlot(task)
    BY DEF Sound
  <2> QED
    BY <1>7, <2>1, SlotsShrink
<1>10. Present(T) = Present(task)
  BY <1>7 DEF Present
<1>11. Sound(T, dep, Q)
  BY <1>5, <1>7, <1>8, <1>9, <1>10 DEF Sound
<1>12. S \in Store /\ S.task = T /\ S.dep = dep /\ S.project = project
  <2>1. dep \in SUBSET (TaskId \X TaskId)
    BY <1>2 DEF Store
  <2> QED
    BY <1>3, <1>4, <1>8, <2>1 DEF Rec, Store
<1>13. /\ R \in Store /\ R.project = project /\ Sound(R.task, R.dep, Q)
       /\ Rows(S) \subseteq Rows(R)
  BY <1>1, <1>11, <1>12, ReconcileSound
<1> HIDE DEF R
<1>14. [R EXCEPT !.project[p] = "trashed"] = Rec(R.task, R.dep, Q)
  BY <1>13 DEF Rec, Q, Becomes, Store
<1>15. Live(db) \subseteq Present(R.task)
  BY <1>2, <1>10, <1>12, <1>13, PresentRows
<1> QED
  BY <1>1, <1>13, <1>14, <1>15, WriteKept

GivenBack(row) == [row EXCEPT !.state = "live", !.dwp = None]

LEMMA GivenBackSound ==
  ASSUME NEW row \in Row, NEW P, NEW Q, NEW R, RowSound(row, P, Q), row.state = "trashed",
         row.dwp # None, R[row.project] = "live"
  PROVE  /\ GivenBack(row) \in Row /\ RowSound(GivenBack(row), P, R)
         /\ GivenBack(row).state = "live"
<1> DEFINE new == GivenBack(row)
<1>1. new \in Row
  BY DEF GivenBack, Row, Lifecycle
<1>2. /\ new.state = "live" /\ new.dwp = None /\ new.dwt = row.dwt
      /\ new.skipped = row.skipped /\ new.superseded = row.superseded
  BY DEF GivenBack, Row
<1>3. /\ new.project = row.project /\ new.parent = row.parent /\ new.due = row.due
      /\ new.repeat = row.repeat /\ new.series = row.series
  BY DEF GivenBack, Row
<1> HIDE DEF new
<1>4. RowSound(new, P, R)
  BY <1>2, <1>3 DEF RowSound, Unmarked
<1> QED
  BY <1>1, <1>2, <1>4 DEF new

LEMMA RestoreProjectWithTasksKept ==
  ASSUME Sound(task, dep, project), NEW p \in ProjectId, RestoreProjectWithTasks(p)
  PROVE  Kept
<1> DEFINE A == ProjectCascade(db, p)
           T == [t \in TaskId |-> IF t \in A THEN GivenBack(task[t]) ELSE task[t]]
           Q == Becomes(project, p, "live")
           S == [db EXCEPT
                   !.project[p] = "live",
                   !.task = [t \in TaskId |-> IF t \in A
                                              THEN [task[t] EXCEPT !.state = "live", !.dwp = None]
                                              ELSE task[t]]]
<1>1. project[p] = "trashed" /\ OneLivePerSlot(S) /\ Commit(S, A)
  BY DEF RestoreProjectWithTasks
<1>2. /\ db.task = task /\ Live(db) \subseteq Present(task)
      /\ project \in [ProjectId -> Lifecycle] /\ project[General] = "live"
      /\ "live" \in Lifecycle
  BY DbStore DEF Sound, Lifecycle
<1>3. S = Rec(T, dep, Q)
  <2>1. S = Refiled(db, p, "live", T)
    BY DEF GivenBack, Refiled
  <2> HIDE DEF S, T
  <2> QED
    BY <2>1, DbRec, RefiledRec
<1>4. Q \in [ProjectId -> Lifecycle] /\ Q[General] = "live" /\ Q[p] = "live"
  <2>1. Q[p] = "live"
    BY <1>2 DEF Becomes
  <2> QED
    BY <1>2, <2>1, BecomesType
<1>5. \A t \in TaskId : task[t] \in Row /\ RowSound(task[t], Present(task), project)
  BY DEF Sound
<1> HIDE DEF S
<1>6. ASSUME NEW t \in TaskId
      PROVE  /\ T[t] \in Row /\ RowSound(T[t], Present(task), Q)
             /\ (T[t].state = "none") <=> (task[t].state = "none")
  <2>0. p # None
    BY RowBounds DEF ProjectId, None
  <2>1. CASE t \in A
    <3>1. task[t].state = "trashed" /\ task[t].dwp = p
      BY <1>2, <2>1 DEF ProjectCascade, Trashed
    <3>2. task[t].dwp # None /\ task[t].project = p
      BY <1>5, <2>0, <3>1 DEF RowSound
    <3>3. T[t] = GivenBack(task[t])
      BY <2>1
    <3> HIDE DEF T, Q
    <3>4. T[t] \in Row /\ RowSound(T[t], Present(task), Q) /\ T[t].state = "live"
      BY <1>4, <1>5, <3>1, <3>2, <3>3, GivenBackSound
    <3> QED
      BY <3>1, <3>4
  <2>2. CASE t \notin A
    <3>1. T[t] = task[t]
      BY <2>2
    <3>2. task[t].dwp = p => task[t].state # "trashed"
      BY <1>2, <2>2 DEF ProjectCascade, Trashed
    <3>3. task[t].project = p => task[t].dwp = None
      BY <1>5, <3>2 DEF RowSound, Unmarked
    <3>4. RowSound(task[t], Present(task), Q)
      BY <1>2, <1>5, <3>3, BecomesSound
    <3> HIDE DEF T, Q
    <3> QED
      BY <1>5, <3>1, <3>4
  <2> QED
    BY <2>1, <2>2
<1>7. T \in [TaskId -> Row]
  BY <1>6
<1> HIDE DEF T, Q
<1>8. Present(T) = Present(task)
  BY <1>6 DEF Present
<1>9. OneRowPerSlot(T)
  <2>1. Rec(T, dep, Q).task = T
    BY DEF Rec
  <2> QED
    BY <1>1, <1>3, <2>1, SlotsOfStore
<1>10. Sound(T, dep, Q)
  BY <1>4, <1>6, <1>7, <1>8, <1>9 DEF Sound
<1> QED
  BY <1>1, <1>2, <1>3, <1>8, <1>10, CommitKept

Unbound(row) == [row EXCEPT !.dwp = None]

LEMMA UnboundSound ==
  ASSUME NEW row \in Row, NEW P, NEW Q, RowSound(row, P, Q)
  PROVE  /\ Unbound(row) \in Row /\ RowSound(Unbound(row), P, Q) /\ Unbound(row).dwp = None
         /\ Unbound(row).state = row.state /\ Unbound(row).project = row.project
         /\ Unbound(row).series = row.series /\ Unbound(row).due = row.due
<1> DEFINE new == Unbound(row)
<1>1. new \in Row
  BY DEF Unbound, Row
<1>2. /\ new.state = row.state /\ new.dwp = None /\ new.dwt = row.dwt
      /\ new.skipped = row.skipped /\ new.superseded = row.superseded
  BY DEF Unbound, Row
<1>3. /\ new.project = row.project /\ new.parent = row.parent /\ new.due = row.due
      /\ new.repeat = row.repeat /\ new.series = row.series
  BY DEF Unbound, Row
<1> HIDE DEF new
<1>4. RowSound(new, P, Q)
  BY <1>2, <1>3 DEF RowSound, Unmarked
<1> QED
  BY <1>1, <1>2, <1>3, <1>4 DEF new

\* The rows a project took are let go: no row names it as its reason any more.
LetGo(T, p) == [t \in TaskId |-> IF T[t].dwp = p THEN Unbound(T[t]) ELSE T[t]]

LEMMA LetGoSound ==
  ASSUME NEW T, NEW D, NEW Q, Sound(T, D, Q), NEW p \in ProjectId
  PROVE  /\ Sound(LetGo(T, p), D, Q) /\ Present(LetGo(T, p)) = Present(T)
         /\ \A t \in TaskId : /\ LetGo(T, p)[t].dwp # p
                              /\ LetGo(T, p)[t].state = T[t].state
                              /\ LetGo(T, p)[t].project = T[t].project
<1> DEFINE U == LetGo(T, p)
<1>1. \A t \in TaskId : T[t] \in Row /\ RowSound(T[t], Present(T), Q)
  BY DEF Sound
<1>2. \A t \in TaskId : U[t] = IF T[t].dwp = p THEN Unbound(T[t]) ELSE T[t]
  BY DEF LetGo
<1>3. DOMAIN U = TaskId /\ U = [t \in TaskId |-> U[t]]
  BY DEF LetGo
<1>4. p # None
  BY RowBounds DEF ProjectId, None
<1> HIDE DEF U
<1>5. ASSUME NEW t \in TaskId
      PROVE  /\ U[t] \in Row /\ RowSound(U[t], Present(T), Q) /\ U[t].dwp # p
             /\ U[t].state = T[t].state /\ U[t].project = T[t].project
             /\ U[t].series = T[t].series /\ U[t].due = T[t].due
  <2>1. CASE T[t].dwp = p
    <3>1. U[t] = Unbound(T[t])
      BY <1>2, <2>1
    <3> QED
      BY <1>1, <1>4, <3>1, UnboundSound
  <2>2. CASE T[t].dwp # p
    BY <1>1, <1>2, <2>2
  <2> QED
    BY <2>1, <2>2
<1>6. U \in [TaskId -> Row]
  BY <1>3, <1>5
<1>7. OneRowPerSlot(U)
  BY <1>5, SlotsShrink DEF Sound
<1>8. Sound(U, D, Q) /\ Present(U) = Present(T)
  BY <1>5, <1>6, <1>7, RewriteSound
<1> QED
  BY <1>5, <1>8 DEF U

LEMMA RestoreProjectAloneKept ==
  ASSUME Sound(task, dep, project), NEW p \in ProjectId, RestoreProjectAlone(p)
  PROVE  Kept
<1> DEFINE T == LetGo(task, p)
           Q == Becomes(project, p, "live")
<1>1. /\ Write([db EXCEPT
                  !.project[p] = "live",
                  !.task = [t \in TaskId |-> IF task[t].dwp = p
                                             THEN [task[t] EXCEPT !.dwp = None] ELSE task[t]]])
  BY DEF RestoreProjectAlone
<1>2. [db EXCEPT
         !.project[p] = "live",
         !.task = [t \in TaskId |-> IF task[t].dwp = p
                                    THEN [task[t] EXCEPT !.dwp = None] ELSE task[t]]]
        = Rec(T, dep, Q)
  <2>1. [t \in TaskId |-> IF task[t].dwp = p THEN [task[t] EXCEPT !.dwp = None] ELSE task[t]] = T
    BY DEF LetGo, Unbound
  <2> HIDE DEF T
  <2>2. Refiled(db, p, "live", T) = Rec(T, dep, Q)
    BY DbRec, RefiledRec
  <2> QED
    BY <2>1, <2>2 DEF Refiled
<1>3. /\ project \in [ProjectId -> Lifecycle] /\ project[General] = "live"
      /\ "live" \in Lifecycle
  BY DEF Sound, Lifecycle
<1>4. /\ Sound(T, dep, project) /\ Present(T) = Present(task)
      /\ \A t \in TaskId : T[t].dwp # p
  BY LetGoSound
<1> HIDE DEF T
<1>5. \A t \in TaskId : RowSound(T[t], Present(T), Q)
  <2> SUFFICES ASSUME NEW t \in TaskId
               PROVE  RowSound(T[t], Present(T), Q)
    OBVIOUS
  <2>1. T[t] \in Row /\ RowSound(T[t], Present(T), project)
    BY <1>4 DEF Sound
  <2>2. T[t].project = p => T[t].dwp = None
    BY <1>4, <2>1 DEF RowSound
  <2> QED
    BY <1>3, <2>1, <2>2, BecomesSound
<1>6. Q \in [ProjectId -> Lifecycle] /\ Q[General] = "live"
  BY <1>3, BecomesType
<1> HIDE DEF Q
<1>7. Sound(T, dep, Q)
  BY <1>4, <1>5, <1>6 DEF Sound
<1> QED
  BY <1>1, <1>2, <1>4, <1>7, WriteKept, DbStore

\* A purged project leaves no row behind: all its tasks were in the trash.
LEMMA PurgeProjectKept ==
  ASSUME Sound(task, dep, project), NEW p \in ProjectId, PurgeProject(p)
  PROVE  Kept
<1> DEFINE A == {t \in Trashed(db) : task[t].project = p}
           S == Purged(db, A)
           Q == Becomes(project, p, "none")
<1>1. /\ p # General /\ project[p] = "trashed"
      /\ Write([S EXCEPT
                  !.project[p] = "none",
                  !.task = [t \in TaskId |-> IF S.task[t].dwp = p
                                             THEN [S.task[t] EXCEPT !.dwp = None]
                                             ELSE S.task[t]]])
  BY DEF PurgeProject
<1>2. /\ db \in Store /\ SoundStore(db) /\ db.task = task /\ db.project = project
      /\ Live(db) \subseteq Present(task)
  BY DbStore DEF SoundStore
<1>3. A \in SUBSET Trashed(db)
  OBVIOUS
<1> HIDE DEF A
<1>4. PICK T \in [TaskId -> Row], D \in SUBSET (TaskId \X TaskId) :
        /\ S = Rec(T, D, project) /\ Sound(T, D, project)
        /\ Present(T) = Present(task) \ A
        /\ \A t \in TaskId : /\ T[t].state = "none" \/ T[t].project = task[t].project
                             /\ T[t].state # "none" => T[t].state = task[t].state
        /\ \A t \in A : T[t] = NoRow
  BY <1>2, <1>3, PurgedSound
<1> HIDE DEF S
<1> DEFINE U == LetGo(T, p)
<1>5. [S EXCEPT
         !.project[p] = "none",
         !.task = [t \in TaskId |-> IF S.task[t].dwp = p
                                    THEN [S.task[t] EXCEPT !.dwp = None]
                                    ELSE S.task[t]]]
        = Rec(U, D, Q)
  <2>1. S.task = T
    BY <1>4 DEF Rec
  <2>2. [t \in TaskId |-> IF S.task[t].dwp = p THEN [S.task[t] EXCEPT !.dwp = None]
                          ELSE S.task[t]] = U
    BY <2>1 DEF LetGo, Unbound
  <2> HIDE DEF U
  <2>3. Refiled(S, p, "none", U) = Rec(U, D, Q)
    BY <1>4, RefiledRec
  <2> QED
    BY <2>2, <2>3 DEF Refiled
<1>6. /\ Sound(U, D, project) /\ Present(U) = Present(T)
      /\ \A t \in TaskId : U[t].dwp # p /\ U[t].state = T[t].state /\ U[t].project = T[t].project
  BY <1>4, LetGoSound
<1> HIDE DEF U
<1>7. /\ project \in [ProjectId -> Lifecycle] /\ project[General] = "live"
      /\ "none" \in Lifecycle
  BY DEF Sound, Lifecycle
<1>8. \A t \in TaskId : RowSound(U[t], Present(U), Q)
  <2> SUFFICES ASSUME NEW t \in TaskId
               PROVE  RowSound(U[t], Present(U), Q)
    OBVIOUS
  <2>1. U[t] \in Row /\ RowSound(U[t], Present(U), project)
    BY <1>6 DEF Sound
  <2>2. U[t].project = p => U[t].state = "none"
    <3> SUFFICES ASSUME U[t].project = p, U[t].state # "none"
                 PROVE  FALSE
      OBVIOUS
    <3>1. /\ T[t].state # "none" /\ task[t].project = p /\ task[t].state # "none"
          /\ t \notin A
      BY <1>4, <1>6, NoRowType
    <3>2. task[t].state = "live"
      BY <1>2, <3>1 DEF A, Trashed, Store, Row, Lifecycle
    <3> QED
      BY <1>1, <3>1, <3>2 DEF Sound, RowSound
  <2>3. U[t].project = p => U[t].dwp = None
    BY <1>6, <2>1 DEF RowSound
  <2> QED
    BY <1>7, <2>1, <2>2, <2>3, BecomesSound
<1>9. Q \in [ProjectId -> Lifecycle] /\ Q[General] = "live"
  BY <1>1, <1>7, BecomesType
<1> HIDE DEF Q
<1>10. Sound(U, D, Q)
  BY <1>6, <1>8, <1>9 DEF Sound
<1>11. Live(db) \subseteq Present(U)
  BY <1>2, <1>3, <1>4, <1>6 DEF Live, Trashed
<1> QED
  BY <1>1, <1>5, <1>10, <1>11, WriteKept-----------------------------------------------------------------------------
(* The invariant, and what it gives *)

LEMMA InitSound ==
  ASSUME Init
  PROVE  Sound(task, dep, project)
<1>1. /\ task = [t \in TaskId |-> NoRow] /\ dep = {}
      /\ project = [p \in ProjectId |-> IF p = General THEN "live" ELSE "none"]
  BY DEF Init, DbInit, EmptyStore
<1>2. task \in [TaskId -> Row] /\ \A t \in TaskId : task[t] = NoRow
  BY <1>1, NoRowType
<1>3. project \in [ProjectId -> Lifecycle] /\ project[General] = "live"
  BY <1>1, RowBounds DEF Lifecycle, General, ProjectId
<1>4. \A t \in TaskId : RowSound(task[t], Present(task), project)
  BY <1>2, NoRowType DEF RowSound, Unmarked
<1>5. OneRowPerSlot(task)
  BY <1>2, NoRowType DEF OneRowPerSlot, SameSlot
<1> QED
  BY <1>1, <1>2, <1>3, <1>4, <1>5 DEF Sound

LEMMA NextKept ==
  ASSUME Sound(task, dep, project), Next
  PROVE  Kept
<1>1. ASSUME NEW id \in 1..MaxPosted, NEW n \in NewTasks, CreateTask(id, n)
      PROVE  Kept
  BY <1>1, CreateTaskKept
<1>2. ASSUME NEW t \in TaskId, NEW f \in Patches, UpdateTask(t, f)
      PROVE  Kept
  BY <1>2, UpdateTaskKept
<1>3. ASSUME NEW t \in TaskId, MarkDone(t)
      PROVE  Kept
  BY <1>3, MarkDoneKept
<1>4. ASSUME NEW t \in TaskId, ReopenTask(t)
      PROVE  Kept
  BY <1>4, ReopenTaskKept
<1>5. ASSUME NEW t \in TaskId, SoftDeleteTask(t)
      PROVE  Kept
  BY <1>5, SoftDeleteTaskKept
<1>6. ASSUME NEW t \in TaskId, SkipOccurrence(t)
      PROVE  Kept
  BY <1>6, SkipOccurrenceKept
<1>7. ASSUME NEW t \in TaskId, StopRecurrence(t)
      PROVE  Kept
  BY <1>7, StopRecurrenceKept
<1>8. ASSUME NEW t \in 1..MaxPosted, NEW b \in 1..MaxPosted, AddDependency(t, b)
      PROVE  Kept
  BY <1>8, AddDependencyKept
<1>9. ASSUME NEW e \in TaskId \X TaskId, RemoveDependency(e)
      PROVE  Kept
  BY <1>9, RemoveDependencyKept
<1>10. ASSUME NEW t \in TaskId, RestoreTask(t)
       PROVE  Kept
  BY <1>10, RestoreTaskKept
<1>11. ASSUME NEW t \in TaskId, RestoreTaskSubtree(t)
       PROVE  Kept
  BY <1>11, RestoreTaskSubtreeKept
<1>12. ASSUME NEW t \in TaskId, PurgeTask(t)
       PROVE  Kept
  BY <1>12, PurgeTaskKept
<1>13. ASSUME NEW p \in ProjectId, CreateProject(p)
       PROVE  Kept
  BY <1>13, CreateProjectKept
<1>14. ASSUME NEW p \in ProjectId, SoftDeleteProject(p)
       PROVE  Kept
  BY <1>14, SoftDeleteProjectKept
<1>15. ASSUME NEW p \in ProjectId, RestoreProjectWithTasks(p)
       PROVE  Kept
  BY <1>15, RestoreProjectWithTasksKept
<1>16. ASSUME NEW p \in ProjectId, RestoreProjectAlone(p)
       PROVE  Kept
  BY <1>16, RestoreProjectAloneKept
<1>17. ASSUME NEW p \in ProjectId, PurgeProject(p)
       PROVE  Kept
  BY <1>17, PurgeProjectKept
<1> QED
  BY <1>1, <1>2, <1>3, <1>4, <1>5, <1>6, <1>7, <1>8, <1>9, <1>10, <1>11, <1>12, <1>13,
     <1>14, <1>15, <1>16, <1>17 DEF Next

StoreSound == Sound(task, dep, project)

LEMMA StepKept ==
  ASSUME StoreSound, [Next]_vars
  PROVE  StoreSound' /\ Live(db) \subseteq Present(task')
<1>1. CASE Next
  BY <1>1, NextKept DEF StoreSound, Kept
<1>2. CASE UNCHANGED vars
  <2>1. task' = task /\ dep' = dep /\ project' = project
    BY <1>2 DEF vars
  <2>2. StoreSound'
    BY <2>1 DEF StoreSound
  <2>3. Live(db) \subseteq Present(task)
    BY DbStore DEF StoreSound
  <2> QED
    BY <2>1, <2>2, <2>3
<1> QED
  BY <1>1, <1>2

LEMMA StoreTyped ==
  ASSUME StoreSound
  PROVE  TypeOK
BY DbStore DEF StoreSound, TypeOK

LEMMA StoreResolves ==
  ASSUME StoreSound
  PROVE  NoDanglingReference
<1>1. Rows(db) = Present(task)
  BY DbStore DEF StoreSound
<1>2. ASSUME NEW t \in Rows(db)
      PROVE  /\ task[t].parent \in Rows(db) \cup {None}
             /\ task[t].dwt \in Rows(db) \cup {None}
             /\ project[task[t].project] # "none"
  BY <1>1 DEF StoreSound, Sound, RowSound, Present
<1>3. \A e \in dep : {e[1], e[2]} \subseteq Rows(db)
  BY <1>1 DEF StoreSound, Sound
<1> QED
  BY <1>2, <1>3 DEF NoDanglingReference

LEMMA StoreFiled ==
  ASSUME StoreSound
  PROVE  LiveTaskInLiveProject
<1> SUFFICES ASSUME NEW t \in Live(db)
             PROVE  task[t].project \in LiveProjects(db)
  BY DEF LiveTaskInLiveProject
<1>1. t \in TaskId /\ task[t] \in Row /\ task[t].state = "live"
  BY LiveRow DEF StoreSound
<1>2. project[task[t].project] = "live"
  BY <1>1 DEF StoreSound, Sound, RowSound
<1> QED
  BY <1>1, <1>2, DbStore DEF LiveProjects, Row, StoreSound

LEMMA StoreOneSlot ==
  ASSUME StoreSound
  PROVE  OneOccurrencePerDate
BY DbStore, SlotsOfStore DEF StoreSound, Sound, OneOccurrencePerDate

\* The inductive invariant: whatever requests are sent, in whatever order, the
\* rows, edges and projects of the database are sound.
THEOREM StoreStaysSound == Spec => []StoreSound
<1>1. Init => StoreSound
  BY InitSound DEF StoreSound
<1>2. StoreSound /\ [Next]_vars => StoreSound'
  BY StepKept
<1> QED
  BY <1>1, <1>2, PTL DEF Spec

\* Type correctness: every column of every row holds a value of its type.
THEOREM TypeCorrect == Spec => []TypeOK
BY StoreTyped, StoreStaysSound, PTL

\* No purge (of a task, of a trashed subtree, of a project) leaves a reference to
\* a row it destroyed, though the id of that row is handed out again.
THEOREM ReferencesResolve == Spec => []NoDanglingReference
BY StoreResolves, StoreStaysSound, PTL

\* No live task is filed in a project that is in the trash or gone, clones and
\* restored rows included.
THEOREM LiveTasksStayFiled == Spec => []LiveTaskInLiveProject
BY StoreFiled, StoreStaysSound, PTL

\* Two live occurrences of a series are never due on one date, however series are
\* completed, skipped, un-skipped, edited, trashed and restored.
THEOREM OneOccurrence == Spec => []OneOccurrencePerDate
BY StoreOneSlot, StoreStaysSound, PTL

\* No request destroys a live row: only what is in the trash is ever purged.
THEOREM NothingLiveIsDestroyed == Spec => LiveNeverDestroyed
<1>1. StoreSound /\ [Next]_vars => [\A t \in Live(db) : t \in Rows(db)']_vars
  <2> SUFFICES ASSUME StoreSound, [Next]_vars
               PROVE  \A t \in Live(db) : t \in Rows(db)'
    OBVIOUS
  <2>1. Live(db) \subseteq Present(task')
    BY StepKept
  <2>2. Rows(db)' = Present(task')
    BY DEF Rows, Present, db
  <2> QED
    BY <2>1, <2>2
<1> QED
  BY <1>1, StoreStaysSound, PTL DEF Spec, LiveNeverDestroyed
=============================================================================
