-------------------------- MODULE TaskSteps_proofs --------------------------
(***************************************************************************)
(* What one request does to the store it finds: it closes no loop in the    *)
(* stored wait graph, revives no date that is skipped, leaves live work on  *)
(* a date that stops being skipped, wires clones to clones only and keeps   *)
(* every row in order.  All of it is read off one relation between the      *)
(* store before and the store after, which every rewrite of rows satisfies  *)
(* and every roll-forward carries on.                                       *)
(*                                                                          *)
(* And what the absence of loops is for: the effective status, a recursive  *)
(* function of the wait graph, is well defined, and done means all done.    *)
(***************************************************************************)
EXTENDS TaskStore_proofs

-----------------------------------------------------------------------------
(* Graphs without loops *)

\* What can be reached from a point that is reached, is reached.
LEMMA ReachTransitive ==
  ASSUME NEW E \in SUBSET (TaskId \X TaskId), NEW a \in TaskId,
         NEW b \in Reach(E, {a})
  PROVE  b \in TaskId /\ Reach(E, {b}) \subseteq Reach(E, {a})
<1>1. {a} \in SUBSET TaskId
  OBVIOUS
<1>2. Reach(E, {a}) \in SUBSET TaskId /\ Closed(E, Reach(E, {a}))
  BY <1>1, ReachHolds, ReachClosed
<1>3. {b} \subseteq Reach(E, {a})
  OBVIOUS
<1> QED
  BY <1>2, <1>3, ReachLeast

\* An edge leads to what its end leads to.
LEMMA ReachStep ==
  ASSUME NEW E \in SUBSET (TaskId \X TaskId), NEW e \in E
  PROVE  Reach(E, {e[2]}) \subseteq Reach(E, {e[1]})
<1>1. e[1] \in TaskId /\ e[2] \in TaskId
  OBVIOUS
<1>2. e[1] \in Reach(E, {e[1]}) /\ Closed(E, Reach(E, {e[1]}))
  BY <1>1, ReachHolds, ReachClosed
<1>3. e[2] \in Reach(E, {e[1]})
  BY <1>2 DEF Closed
<1> QED
  BY <1>1, <1>3, ReachTransitive

\* A graph whose edges are all mapped to edges of a graph without loops has none.
LEMMA ImageAcyclic ==
  ASSUME NEW E \in SUBSET (TaskId \X TaskId), NEW F \in SUBSET (TaskId \X TaskId),
         NEW g \in [TaskId -> TaskId], Acyclic(E),
         \A e \in F : <<g[e[1]], g[e[2]]>> \in E
  PROVE  Acyclic(F)
<1> SUFFICES ASSUME NEW e \in F, e[1] \in Reach(F, {e[2]})
             PROVE  FALSE
  BY DEF Acyclic
<1>1. /\ e[1] \in TaskId /\ e[2] \in TaskId
      /\ g[e[1]] \in TaskId /\ g[e[2]] \in TaskId
      /\ <<g[e[1]], g[e[2]]>> \in E
  OBVIOUS
<1> DEFINE R == Reach(E, {g[e[2]]})
           B == {x \in TaskId : g[x] \in R}
<1>2. g[e[2]] \in R /\ Closed(E, R)
  BY <1>1, ReachHolds, ReachClosed
<1>3. B \in SUBSET TaskId /\ {e[2]} \subseteq B
  BY <1>1, <1>2
<1>4. Closed(F, B)
  <2> SUFFICES ASSUME NEW f \in F, f[1] \in B
               PROVE  f[2] \in B
    BY DEF Closed
  <2>1. <<g[f[1]], g[f[2]]>> \in E /\ f[2] \in TaskId
    OBVIOUS
  <2>2. g[f[1]] \in R
    OBVIOUS
  <2> HIDE DEF R
  <2>3. g[f[2]] \in R
    BY <1>2, <2>1, <2>2 DEF Closed
  <2> QED
    BY <2>1, <2>3
<1> HIDE DEF B
<1>5. e[1] \in B
  BY <1>3, <1>4, ReachLeast
<1>6. g[e[1]] \in R
  BY <1>5 DEF B
<1> QED
  BY <1>1, <1>6 DEF Acyclic

\* Fewer edges close no loop.
LEMMA FewerEdgesAcyclic ==
  ASSUME NEW E \in SUBSET (TaskId \X TaskId), NEW F \in SUBSET E, Acyclic(E)
  PROVE  Acyclic(F)
<1> DEFINE g == [x \in TaskId |-> x]
<1>1. g \in [TaskId -> TaskId] /\ \A e \in F : <<g[e[1]], g[e[2]]>> \in E
  OBVIOUS
<1> HIDE DEF g
<1> QED
  BY <1>1, ImageAcyclic

\* An edge from a to b closes no loop if b does not lead to a.
LEMMA AddedEdgeAcyclic ==
  ASSUME NEW E \in SUBSET (TaskId \X TaskId), Acyclic(E),
         NEW a \in TaskId, NEW b \in TaskId, a \notin Reach(E, {b})
  PROVE  Acyclic(E \cup {<<a, b>>})
<1> DEFINE F == E \cup {<<a, b>>}
           R(x) == Reach(E, {x})
           Far(x) == IF a \in R(x) THEN R(x) \cup R(b) ELSE R(x)
<1>1. F \in SUBSET (TaskId \X TaskId)
  OBVIOUS
<1>2. ASSUME NEW x \in TaskId
      PROVE  x \in R(x) /\ R(x) \subseteq TaskId /\ Closed(E, R(x))
  BY ReachHolds, ReachClosed
<1> HIDE DEF R
<1>3. ASSUME NEW x \in TaskId
      PROVE  Reach(F, {x}) \subseteq Far(x)
  <2>1. Far(x) \in SUBSET TaskId /\ {x} \subseteq Far(x)
    BY <1>2
  <2>2. Closed(F, Far(x))
    BY <1>2 DEF Closed
  <2> HIDE DEF Far
  <2> QED
    BY <1>1, <2>1, <2>2, ReachLeast
<1> SUFFICES ASSUME NEW e \in F, e[1] \in Reach(F, {e[2]})
             PROVE  FALSE
  BY DEF Acyclic
<1>4. e[1] \in TaskId /\ e[2] \in TaskId
  OBVIOUS
<1>5. e[1] \in Far(e[2])
  BY <1>3, <1>4
<1>6. CASE e = <<a, b>>
  <2>1. e[1] = a /\ e[2] = b
    BY <1>6
  <2>2. a \notin R(b)
    BY DEF R
  <2> QED
    BY <1>5, <2>1, <2>2
<1>7. CASE e \in E
  <2>1. e[1] \notin R(e[2]) /\ R(e[2]) \subseteq R(e[1])
    BY <1>7, ReachStep DEF Acyclic, R
  <2>2. a \in R(e[2]) /\ e[1] \in R(b)
    BY <1>5, <2>1
  <2>3. R(e[1]) \subseteq R(b)
    BY <2>2, ReachTransitive DEF R
  <2> QED
    BY <2>1, <2>2, <2>3 DEF R
<1> QED
  BY <1>6, <1>7

-----------------------------------------------------------------------------
(* A roll-forward copies edges, and adds no others                          *)

LEMMA CopiesFinite ==
  ASSUME NEW S \in Store, NEW H \in SUBSET Live(S)
  PROVE  Copies(S, H) \in SUBSET (TaskId \X TaskId) /\ IsFiniteSet(Copies(S, H))
<1>1. Copies(S, H) \in SUBSET (TaskId \X TaskId)
  BY DEF Copies, Live
<1>2. IsFiniteSet(TaskId)
  BY RowBounds, FS_Interval DEF TaskId
<1>3. IsFiniteSet(TaskId \X TaskId)
  BY <1>2, FS_Product
<1> QED
  BY <1>1, <1>3, FS_Subset

\* A head comes before its checklist, and no two copies are made at once.
LEMMA CopiesInOrder ==
  ASSUME NEW c \in TaskId \X TaskId, NEW e \in TaskId \X TaskId, c # e
  PROVE  CopiedBefore(c, e) \/ CopiedBefore(e, c)
<1>1. c[1] \in Int /\ c[2] \in Int /\ e[1] \in Int /\ e[2] \in Int
  BY DEF TaskId
<1>2. c[1] # e[1] \/ c[2] # e[2]
  OBVIOUS
<1> QED
  BY <1>1, <1>2 DEF CopiedBefore

LEMMA CopiedFirst ==
  ASSUME NEW c \in TaskId \X TaskId, NEW e \in TaskId \X TaskId, NEW x \in TaskId \X TaskId,
         CopiedBefore(x, c), CopiedBefore(c, e)
  PROVE  CopiedBefore(x, e)
<1>1. c[1] \in Int /\ c[2] \in Int /\ e[1] \in Int /\ e[2] \in Int /\ x[1] \in Int /\ x[2] \in Int
  BY DEF TaskId
<1> QED
  BY <1>1 DEF CopiedBefore

LEMMA CopyRankGrows ==
  ASSUME NEW S \in Store, NEW H \in SUBSET Live(S),
         NEW c \in Copies(S, H), NEW e \in Copies(S, H), CopiedBefore(c, e)
  PROVE  Cardinality({x \in Copies(S, H) : CopiedBefore(x, c)})
           # Cardinality({x \in Copies(S, H) : CopiedBefore(x, e)})
<1> DEFINE A == {x \in Copies(S, H) : CopiedBefore(x, c)}
           B == {x \in Copies(S, H) : CopiedBefore(x, e)}
<1>1. Copies(S, H) \in SUBSET (TaskId \X TaskId) /\ IsFiniteSet(Copies(S, H))
  BY CopiesFinite
<1>2. A \in SUBSET B
  BY <1>1, CopiedFirst
<1>3. c \in B /\ c \notin A
  <2>1. c[1] \in Int /\ c[2] \in Int
    BY <1>1 DEF TaskId
  <2>2. ~CopiedBefore(c, c)
    BY <2>1 DEF CopiedBefore
  <2> QED
    BY <2>2
<1>4. IsFiniteSet(B)
  <2>1. B \in SUBSET Copies(S, H)
    OBVIOUS
  <2> HIDE DEF B
  <2> QED
    BY <1>1, <2>1, FS_Subset
<1> HIDE DEF A, B
<1>5. Cardinality(A) # Cardinality(B)
  BY <1>2, <1>3, <1>4, FS_Subset
<1> QED
  BY <1>5 DEF A, B

\* Every id is taken by one copy at most.
LEMMA OneCopyPerId ==
  ASSUME NEW S \in Store, NEW H \in SUBSET Live(S), NEW n,
         NEW c \in Copies(S, H), NEW e \in Copies(S, H),
         TakesId(S, H, c, n), TakesId(S, H, e, n)
  PROVE  c = e
<1>1. c \in TaskId \X TaskId /\ e \in TaskId \X TaskId
  BY CopiesFinite
<1>2. Cardinality({x \in Copies(S, H) : CopiedBefore(x, c)})
        = Cardinality({x \in Copies(S, H) : CopiedBefore(x, e)})
  BY DEF TakesId
<1>3. ~CopiedBefore(c, e) /\ ~CopiedBefore(e, c)
  BY <1>2, CopyRankGrows
<1> QED
  BY <1>1, <1>3, CopiesInOrder

\* The row an id stands for: the row itself, or the row it is a copy of.
Original(S, H) ==
  [n \in TaskId |-> IF n \in Taken(S, H)
                    THEN (CHOOSE c \in Copies(S, H) : TakesId(S, H, c, n))[2] ELSE n]

LEMMA OriginalType ==
  ASSUME NEW S \in Store, NEW H \in SUBSET Live(S)
  PROVE  /\ Original(S, H) \in [TaskId -> TaskId]
         /\ \A n \in Rows(S) : Original(S, H)[n] = n
<1>1. ASSUME NEW n \in Taken(S, H)
      PROVE  (CHOOSE c \in Copies(S, H) : TakesId(S, H, c, n))[2] \in TaskId
  <2>1. \E c \in Copies(S, H) : TakesId(S, H, c, n)
    BY DEF Taken
  <2>2. (CHOOSE c \in Copies(S, H) : TakesId(S, H, c, n)) \in TaskId \X TaskId
    BY <2>1, CopiesFinite
  <2> QED
    BY <2>2
<1>2. Rows(S) \subseteq TaskId /\ Rows(S) \cap Taken(S, H) = {}
  BY TakenFree DEF Rows
<1> QED
  BY <1>1, <1>2 DEF Original

LEMMA OriginalOfCopy ==
  ASSUME NEW S \in Store, NEW H \in SUBSET Live(S), NEW c \in Copies(S, H), NEW n \in TaskId,
         TakesId(S, H, c, n)
  PROVE  Original(S, H)[n] = c[2]
<1>1. n \in Taken(S, H)
  BY DEF Taken
<1>2. PICK e \in Copies(S, H) : TakesId(S, H, e, n) /\ Original(S, H)[n] = e[2]
  BY <1>1 DEF Original
<1> QED
  BY <1>2, OneCopyPerId

LEMMA OriginalOfCopyId ==
  ASSUME NEW S \in Store, NEW H \in SUBSET Live(S), HasRoom(S, H), NEW c \in Copies(S, H)
  PROVE  CopyId(S, H, c) \in TaskId /\ Original(S, H)[CopyId(S, H, c)] = c[2]
<1>1. CopyId(S, H, c) \in TaskId /\ TakesId(S, H, c, CopyId(S, H, c))
  BY DEF HasRoom, CopyId
<1> QED
  BY <1>1, OriginalOfCopy

\* The store may be rolled forward: references resolve, and nothing waits for
\* itself.
Wired(S) ==
  /\ S \in Store
  /\ StoredWaits(S) \in SUBSET (Rows(S) \X Rows(S))
  /\ Acyclic(StoredWaits(S))

LEMMA WiredEdges ==
  ASSUME NEW S, Wired(S)
  PROVE  /\ S \in Store /\ StoredWaits(S) \in SUBSET (TaskId \X TaskId)
         /\ S.dep \subseteq StoredWaits(S)
         /\ \A t \in Rows(S) : /\ S.task[t].parent # None
                               => /\ <<S.task[t].parent, t>> \in StoredWaits(S)
                                  /\ S.task[t].parent \in Rows(S)
         /\ Rows(S) \subseteq TaskId
<1>1. Rows(S) \subseteq TaskId
  BY DEF Rows
<1>2. StoredWaits(S) \in SUBSET (Rows(S) \X Rows(S))
  BY DEF Wired
<1>3. \A t \in Rows(S) : S.task[t].parent # None => <<S.task[t].parent, t>> \in StoredWaits(S)
  BY DEF StoredWaits, StoredNesting
<1> QED
  BY <1>1, <1>2, <1>3 DEF Wired, StoredWaits

\* The edges the copies bring.
LEMMA CopiedEdgeOriginal ==
  ASSUME NEW S \in Store, NEW H \in SUBSET Live(S), HasRoom(S, H),
         NEW x \in CopiedEdges(S, H)
  PROVE  <<Original(S, H)[x[1]], Original(S, H)[x[2]]>> \in S.dep
<1>1. PICK h \in H, e \in S.dep :
        /\ {e[1], e[2]} \subseteq LiveSubtree(S, h) \ {h}
        /\ x = <<CopyId(S, H, <<h, e[1]>>), CopyId(S, H, <<h, e[2]>>)>>
  BY DEF CopiedEdges
<1>2. e[1] \in TaskId /\ e[2] \in TaskId /\ e = <<e[1], e[2]>>
  BY DEF Store
<1>3. <<h, e[1]>> \in Copies(S, H) /\ <<h, e[2]>> \in Copies(S, H)
  BY <1>1, <1>2 DEF Copies
<1>4. Original(S, H)[x[1]] = e[1] /\ Original(S, H)[x[2]] = e[2]
  BY <1>1, <1>3, OriginalOfCopyId
<1> QED
  BY <1>2, <1>4

LEMMA CopyRowParent ==
  ASSUME NEW S, NEW H, NEW c
  PROVE  /\ c[1] = c[2] => CopyRow(S, H, c).parent = None
         /\ c[1] # c[2] => CopyRow(S, H, c).parent
                             = CopyId(S, H, <<c[1], S.task[c[2]].parent>>)
<1>1. DOMAIN NoRow = {"state", "status", "project", "parent", "due", "repeat", "series",
                      "dwt", "dwp", "skipped", "superseded"}
  BY DEF NoRow
<1> QED
  BY <1>1 DEF CopyRow

LEMMA CopiedParentOriginal ==
  ASSUME NEW S, Wired(S), NEW H \in SUBSET Live(S), HasRoom(S, H),
         NEW n \in Taken(S, H), NEW c \in Copies(S, H), TakesId(S, H, c, n),
         CopyRow(S, H, c).parent # None
  PROVE  <<Original(S, H)[CopyRow(S, H, c).parent], Original(S, H)[n]>> \in StoredWaits(S)
<1> DEFINE h == c[1]
           r == c[2]
           q == S.task[r].parent
<1>1. S \in Store /\ h \in H /\ r \in TaskId /\ r \in LiveSubtree(S, h) /\ n \in TaskId
      /\ h \in TaskId /\ h \in Live(S)
  BY CopiesFinite DEF Copies, Wired, Taken, Live
<1>2. h # r /\ CopyRow(S, H, c).parent = CopyId(S, H, <<h, q>>)
  BY CopyRowParent
<1>3. q \in LiveSubtree(S, h) /\ q \in Live(S) /\ r \in Live(S)
  <2>1. q \in LiveSubtree(S, h)
    BY <1>1, <1>2, SubtreeParent
  <2> QED
    BY <1>1, <2>1, SubtreeLive
<1>4. q \in TaskId /\ q # None /\ r \in Rows(S)
  BY <1>3, RowBounds DEF Live, Rows, TaskId, None
<1>5. <<h, q>> \in Copies(S, H)
  BY <1>1, <1>3, <1>4 DEF Copies
<1>6. Original(S, H)[CopyId(S, H, <<h, q>>)] = q
  BY <1>1, <1>5, OriginalOfCopyId
<1>7. Original(S, H)[n] = r
  BY <1>1, OriginalOfCopy
<1>8. <<q, r>> \in StoredWaits(S)
  BY <1>4, WiredEdges
<1> QED
  BY <1>2, <1>6, <1>7, <1>8

LEMMA InsertedRow ==
  ASSUME NEW S \in Store, NEW H, NEW n \in TaskId
  PROVE  /\ n \in Taken(S, H) =>
              \E c \in Copies(S, H) : /\ TakesId(S, H, c, n)
                                      /\ InsertOccurrences(S, H).task[n] = CopyRow(S, H, c)
         /\ n \notin Taken(S, H) => InsertOccurrences(S, H).task[n] = S.task[n]
         /\ InsertOccurrences(S, H).dep = S.dep \cup CopiedEdges(S, H)
<1> DEFINE T == [m \in TaskId |->
                   IF \E c \in Copies(S, H) : TakesId(S, H, c, m)
                   THEN CopyRow(S, H, CHOOSE c \in Copies(S, H) : TakesId(S, H, c, m))
                   ELSE S.task[m]]
           D == S.dep \cup CopiedEdges(S, H)
<1>1. InsertOccurrences(S, H) = [S EXCEPT !.task = T, !.dep = D]
  BY DEF InsertOccurrences
<1>2. /\ n \in Taken(S, H) =>
            \E c \in Copies(S, H) : TakesId(S, H, c, n) /\ T[n] = CopyRow(S, H, c)
      /\ n \notin Taken(S, H) => T[n] = S.task[n]
  BY DEF Taken
<1> HIDE DEF T, D
<1>3. InsertOccurrences(S, H).task = T /\ InsertOccurrences(S, H).dep = D
  BY <1>1 DEF Store
<1> QED
  BY <1>2, <1>3 DEF D

LEMMA InsertedWired ==
  ASSUME NEW S, Wired(S), NEW H \in SUBSET Live(S), HasRoom(S, H),
         \A h \in H : \E d \in Date : Lands(S, h, d)
  PROVE  Wired(InsertOccurrences(S, H))
<1> DEFINE R == InsertOccurrences(S, H)
           E == StoredWaits(S)
           F == StoredWaits(R)
           g == Original(S, H)
<1>1. /\ S \in Store /\ E \in SUBSET (TaskId \X TaskId) /\ S.dep \subseteq E
      /\ E \in SUBSET (Rows(S) \X Rows(S)) /\ Acyclic(E)
  BY WiredEdges DEF Wired
<1>2. RolledForward(S, H, R)
  BY <1>1, InsertOccurrencesEffect
<1>3. /\ R \in Store
      /\ \A t \in Rows(S) : R.task[t] = S.task[t]
      /\ \A t \in TaskId \ Rows(S) :
           \/ t \notin Taken(S, H) /\ R.task[t] = S.task[t]
           \/ t \in Taken(S, H) /\ FreshCopy(S, H, t, R.task[t])
      /\ R.dep \subseteq S.dep \cup (Taken(S, H) \X Taken(S, H))
  BY <1>2 DEF RolledForward
<1>4. /\ Taken(S, H) \subseteq TaskId /\ Taken(S, H) \cap Rows(S) = {}
      /\ Rows(S) \subseteq TaskId
  BY TakenFree DEF Taken, Rows
<1> HIDE DEF R
<1>5. Rows(R) = Rows(S) \cup Taken(S, H)
  BY <1>3, <1>4 DEF Rows, FreshCopy
<1>6. g \in [TaskId -> TaskId] /\ \A n \in Rows(S) : g[n] = n
  BY <1>1, OriginalType
<1> HIDE DEF g
<1>7. ASSUME NEW e \in StoredNesting(R)
      PROVE  e \in Rows(R) \X Rows(R) /\ <<g[e[1]], g[e[2]]>> \in E
  <2>1. PICK n \in Rows(R) : /\ R.task[n].parent # None
                             /\ e = <<R.task[n].parent, n>>
    BY DEF StoredNesting
  <2>2. CASE n \in Rows(S)
    <3>1. /\ R.task[n] = S.task[n] /\ <<S.task[n].parent, n>> \in E
          /\ S.task[n].parent \in Rows(S)
      BY <1>3, <2>1, <2>2, WiredEdges
    <3> QED
      BY <1>5, <1>6, <2>1, <2>2, <3>1
  <2>3. CASE n \in Taken(S, H)
    <3>1. PICK c \in Copies(S, H) : TakesId(S, H, c, n) /\ R.task[n] = CopyRow(S, H, c)
      BY <1>1, <1>4, <2>3, InsertedRow DEF R
    <3>2. <<g[R.task[n].parent], g[n]>> \in E
      BY <2>1, <2>3, <3>1, CopiedParentOriginal DEF g
    <3>3. FreshCopy(S, H, n, R.task[n])
      BY <1>3, <1>4, <2>3
    <3>4. R.task[n].parent \in Taken(S, H)
      BY <2>1, <3>3 DEF FreshCopy
    <3> QED
      BY <1>5, <2>1, <2>3, <3>2, <3>4
  <2> QED
    BY <1>5, <2>1, <2>2, <2>3
<1>8. ASSUME NEW e \in R.dep
      PROVE  e \in Rows(R) \X Rows(R) /\ <<g[e[1]], g[e[2]]>> \in E
  <2>1. CASE e \in S.dep
    <3>1. e \in Rows(S) \X Rows(S) /\ e \in E
      BY <1>1, <2>1
    <3> QED
      BY <1>5, <1>6, <3>1
  <2>2. CASE e \notin S.dep
    <3>1. e \in CopiedEdges(S, H) /\ e \in Taken(S, H) \X Taken(S, H)
      BY <1>1, <1>3, <1>4, <2>2, InsertedRow, RowBounds DEF R, TaskId
    <3>2. <<g[e[1]], g[e[2]]>> \in S.dep
      BY <1>1, <3>1, CopiedEdgeOriginal DEF g
    <3> QED
      BY <1>1, <1>5, <3>1, <3>2
  <2> QED
    BY <2>1, <2>2
<1>9. F \in SUBSET (Rows(R) \X Rows(R)) /\ \A e \in F : <<g[e[1]], g[e[2]]>> \in E
  BY <1>7, <1>8 DEF StoredWaits
<1>10. F \in SUBSET (TaskId \X TaskId)
  BY <1>9 DEF Rows
<1> HIDE DEF E, F
<1>11. Acyclic(F)
  BY <1>1, <1>6, <1>9, <1>10, ImageAcyclic
<1> QED
  BY <1>3, <1>9, <1>11 DEF Wired, F, R

-----------------------------------------------------------------------------
(* From a store to a later one *)

\* A skipped row of A is still skipped in B, or its date has a live occurrence.
Remembered(A, B, t) ==
  \/ /\ B.task[t].skipped
     /\ B.task[t].series = A.task[t].series /\ B.task[t].due = A.task[t].due
  \/ Occurrences(B, A.task[t].series, A.task[t].due) # {}

\* What Sound leaves out, because the Undo of an un-skip does not keep it: a live
\* row carries no mark, a row that a cascade took is not a skipped occurrence, a
\* skipped one is not retired, and a row that repeats has a date.
InOrder(row) ==
  /\ row.state # "trashed" => Unmarked(row)
  /\ row.dwt # None => ~row.skipped
  /\ row.skipped => ~row.superseded
  /\ row.repeat # 0 => row.due # None

AllInOrder(S) == \A t \in TaskId : InOrder(S.task[t])

\* No row of B is new on a date that A skips, no skip of A is forgotten, no edge
\* joins a new row to a row of A, and every row is in order if every row was.
Follows(A, B) ==
  /\ \A t \in Rows(B) \ Rows(A) :
       B.task[t].series # None
         => ~SkippedOccurrenceOn(A, B.task[t].series, B.task[t].due)
  /\ \A t \in Rows(A) \cap Rows(B) : A.task[t].skipped => Remembered(A, B, t)
  /\ \A e \in B.dep \ A.dep : e[1] \in Rows(A) <=> e[2] \in Rows(A)
  /\ AllInOrder(A) => AllInOrder(B)

\* A store that may be rolled forward inside the request that found A.
Prepared(A, B) == Wired(B) /\ Follows(A, B) /\ Rows(A) \subseteq Rows(B)

LEMMA InsertedPrepared ==
  ASSUME NEW A, NEW S, Prepared(A, S), NEW H0 \in SUBSET Live(S), NEW H,
         H = Inserting(S, H0), HasRoom(S, H)
  PROVE  /\ Prepared(A, InsertOccurrences(S, H))
         /\ \A t \in Rows(S) : InsertOccurrences(S, H).task[t] = S.task[t]
         /\ InsertOccurrences(S, H).project = S.project
<1> DEFINE R == InsertOccurrences(S, H)
<1>1. /\ Wired(S) /\ Rows(A) \subseteq Rows(S) /\ S \in Store
      /\ H \in SUBSET Live(S) /\ \A h \in H : \E d \in Date : Lands(S, h, d)
  BY DEF Prepared, Wired, Inserting
<1>2. Wired(R) /\ RolledForward(S, H, R)
  BY <1>1, InsertedWired, InsertOccurrencesEffect
<1> HIDE DEF R
<1>3. /\ R.project = S.project
      /\ \A t \in Rows(S) : R.task[t] = S.task[t]
      /\ \A t \in TaskId \ Rows(S) :
           \/ t \notin Taken(S, H) /\ R.task[t] = S.task[t]
           \/ t \in Taken(S, H) /\ FreshCopy(S, H, t, R.task[t])
      /\ R.dep \subseteq S.dep \cup (Taken(S, H) \X Taken(S, H))
  BY <1>2 DEF RolledForward
<1>4. Rows(S) \subseteq Rows(R) /\ Rows(R) \subseteq TaskId
  BY <1>3 DEF Rows
<1>5. Taken(S, H) \cap Rows(S) = {}
  BY TakenFree
<1>6. ASSUME NEW t \in Rows(R) \ Rows(A), R.task[t].series # None,
             SkippedOccurrenceOn(A, R.task[t].series, R.task[t].due)
      PROVE  FALSE
  <2>1. CASE t \in Rows(S)
    BY <1>3, <1>6, <2>1 DEF Prepared, Follows
  <2>2. CASE t \notin Rows(S)
    <3>1. FreshCopy(S, H, t, R.task[t])
      BY <1>3, <1>4, <1>6, <2>2 DEF Rows
    <3>2. Occurrences(S, R.task[t].series, R.task[t].due) = {}
      BY <1>1, <1>4, <1>6, <3>1, FreshSlots
    <3>3. PICK h \in H : R.task[t].series = S.task[h].series /\ Lands(S, h, R.task[t].due)
      BY <1>6, <3>1 DEF FreshCopy
    <3>4. ~SkippedOccurrenceOn(S, R.task[t].series, R.task[t].due)
      BY <3>2, <3>3 DEF Lands, LandingDates
    <3>5. PICK u \in Rows(A) : /\ A.task[u].series = R.task[t].series
                               /\ A.task[u].due = R.task[t].due /\ A.task[u].skipped
      BY <1>6 DEF SkippedOccurrenceOn
    <3>6. u \in Rows(S) /\ Remembered(A, S, u)
      BY <1>1, <3>5 DEF Prepared, Follows
    <3> QED
      BY <3>2, <3>4, <3>5, <3>6 DEF Remembered, SkippedOccurrenceOn
  <2> QED
    BY <2>1, <2>2
<1>7. ASSUME NEW t \in Rows(A) \cap Rows(R), A.task[t].skipped
      PROVE  Remembered(A, R, t)
  <2>1. t \in Rows(S) /\ R.task[t] = S.task[t] /\ Remembered(A, S, t)
    BY <1>1, <1>3, <1>7 DEF Prepared, Follows
  <2>2. \A s, d : Occurrences(S, s, d) \subseteq Occurrences(R, s, d)
    BY <1>3 DEF Occurrences, Live, Rows
  <2> QED
    BY <2>1, <2>2 DEF Remembered
<1>8. ASSUME NEW e \in R.dep \ A.dep
      PROVE  e[1] \in Rows(A) <=> e[2] \in Rows(A)
  <2>1. CASE e \in S.dep
    BY <1>8, <2>1 DEF Prepared, Follows
  <2>2. CASE e \notin S.dep
    <3>1. e[1] \in Taken(S, H) /\ e[2] \in Taken(S, H)
      BY <1>3, <2>2
    <3> QED
      BY <1>1, <1>5, <3>1
  <2> QED
    BY <2>1, <2>2
<1>9. AllInOrder(A) => AllInOrder(R)
  <2> SUFFICES ASSUME AllInOrder(A), NEW t \in TaskId
               PROVE  InOrder(R.task[t])
    BY DEF AllInOrder
  <2>1. InOrder(S.task[t])
    BY DEF Prepared, Follows, AllInOrder
  <2>2. ASSUME FreshCopy(S, H, t, R.task[t])
        PROVE  R.task[t].repeat # 0 => R.task[t].due # None
    <3>1. \A h : LandingDates(S, h) \subseteq Date
      BY DEF LandingDates
    <3>2. None \notin Date
      BY RowBounds DEF Date, None
    <3> QED
      BY <2>2, <3>1, <3>2 DEF FreshCopy, Lands
  <2> QED
    BY <1>3, <2>1, <2>2 DEF FreshCopy, InOrder, Unmarked
<1>10. Follows(A, R)
  BY <1>6, <1>7, <1>8, <1>9 DEF Follows
<1> QED
  BY <1>1, <1>2, <1>3, <1>4, <1>10 DEF Prepared, R

LEMMA RollForwardPrepared ==
  ASSUME NEW A, NEW S, Prepared(A, S), NEW H \in SUBSET Live(S), CanRollForward(S, H)
  PROVE  /\ Prepared(A, RollForward(S, H))
         /\ \A t \in Rows(S) : RollForward(S, H).task[t] = S.task[t]
         /\ RollForward(S, H).project = S.project
  BY InsertedPrepared DEF CanRollForward, RollForward

LEMMA ReconcilePrepared ==
  ASSUME NEW A, NEW S, Prepared(A, S), NEW seeds, CanReconcile(S, seeds)
  PROVE  /\ Prepared(A, Reconcile(S, seeds))
         /\ \A t \in Rows(S) : Reconcile(S, seeds).task[t] = S.task[t]
         /\ Reconcile(S, seeds).project = S.project
<1>1. DueHeads(S, seeds) \in SUBSET Live(S)
  BY HeadsLive DEF Prepared, Wired
<1>2. CanRollForward(S, DueHeads(S, seeds))
  BY DEF CanReconcile
<1> QED
  BY <1>1, <1>2, RollForwardPrepared DEF Reconcile

\* Rows are rewritten in place and edges removed: nothing is moved, and what is
\* skipped is remembered.
Rewrites(A, B) ==
  /\ B \in Store
  /\ \A t \in TaskId : (B.task[t].state = "none") <=> (A.task[t].state = "none")
  /\ \A t \in Rows(A) : /\ B.task[t].parent = A.task[t].parent
                        /\ A.task[t].skipped => Remembered(A, B, t)
  /\ \A t \in TaskId : InOrder(A.task[t]) => InOrder(B.task[t])
  /\ B.dep \subseteq A.dep

LEMMA RewritesPrepared ==
  ASSUME NEW A, NEW S, Wired(A), Rewrites(A, S)
  PROVE  Prepared(A, S)
<1>1. /\ S \in Store /\ Rows(S) = Rows(A) /\ S.dep \subseteq A.dep
      /\ \A t \in Rows(A) : S.task[t].parent = A.task[t].parent
  BY DEF Rewrites, Rows
<1>2. StoredWaits(S) \subseteq StoredWaits(A)
  BY <1>1 DEF StoredWaits, StoredNesting
<1>3. StoredWaits(A) \in SUBSET (TaskId \X TaskId) /\ Acyclic(StoredWaits(A))
  BY WiredEdges DEF Wired
<1>4. Wired(S)
  BY <1>1, <1>2, <1>3, FewerEdgesAcyclic DEF Wired
<1>5. Follows(A, S)
  BY <1>1 DEF Follows, Rewrites, AllInOrder
<1> QED
  BY <1>1, <1>4, <1>5 DEF Prepared

\* What a request leaves.
Stepped == Wired(db') /\ Follows(db, db')

LEMMA WrittenStore ==
  ASSUME NEW S \in Store, Write(S)
  PROVE  db' = S
<1>1. S = [task |-> S.task, dep |-> S.dep, project |-> S.project]
  BY DEF Store
<1> QED
  BY <1>1 DEF Write, db

LEMMA WriteStepped ==
  ASSUME NEW S, Prepared(db, S), Write(S)
  PROVE  Stepped
<1>1. db' = S
  BY WrittenStore DEF Prepared, Wired
<1> QED
  BY <1>1 DEF Stepped, Prepared

LEMMA CommitStepped ==
  ASSUME NEW S, Prepared(db, S), NEW seeds, Commit(S, seeds)
  PROVE  Stepped
  BY ReconcilePrepared, WriteStepped DEF Commit

-----------------------------------------------------------------------------
(* Requests, one by one: a rewrite of rows, or a store built by hand        *)

WiredDb == Sound(task, dep, project) /\ Wired(db)

LEMMA DbFacts ==
  ASSUME WiredDb
  PROVE  /\ db \in Store /\ db.task = task /\ db.dep = dep /\ db.project = project
         /\ Rows(db) = Present(task) /\ Rows(db) \subseteq TaskId
         /\ \A t \in TaskId : task[t] \in Row /\ RowSound(task[t], Present(task), project)
         /\ Wired(db)
  BY DbStore DEF WiredDb, Sound, Present

\* The rows T of a store that keeps the edges and the projects.
LEMMA RowsRewritten ==
  ASSUME WiredDb, NEW T \in [TaskId -> Row], NEW D \in SUBSET dep,
         NEW Q \in [ProjectId -> Lifecycle],
         \A t \in TaskId : /\ (T[t].state = "none") <=> (task[t].state = "none")
                           /\ T[t].parent = task[t].parent
                           /\ task[t].skipped => Remembered(db, Rec(T, D, Q), t)
                           /\ InOrder(task[t]) => InOrder(T[t])
  PROVE  Prepared(db, Rec(T, D, Q)) /\ Rec(T, D, Q).task = T
<1> DEFINE S == Rec(T, D, Q)
<1>1. S.task = T /\ S.dep = D /\ S.project = Q
  BY DEF Rec
<1>2. D \in SUBSET (TaskId \X TaskId)
  BY DbFacts DEF Store
<1>3. S \in Store
  BY <1>2 DEF Rec, Store
<1> HIDE DEF S
<1>4. Rewrites(db, S)
  BY <1>1, <1>3, DbFacts DEF Rewrites, S
<1>5. Prepared(db, S)
  BY <1>4, RewritesPrepared DEF WiredDb
<1> QED
  BY <1>1, <1>5 DEF S

\* A skipped row that is left as it is, or keeps what makes it skipped.
LEMMA StillSkipped ==
  ASSUME WiredDb, NEW T, NEW D, NEW Q, NEW t \in TaskId,
         T[t].skipped = task[t].skipped, T[t].series = task[t].series, T[t].due = task[t].due,
         task[t].skipped
  PROVE  Remembered(db, Rec(T, D, Q), t)
<1>1. Rec(T, D, Q).task = T
  BY DEF Rec
<1> QED
  BY <1>1, DbFacts DEF Remembered

LEMMA OnlyTrashIsSkipped ==
  ASSUME WiredDb, NEW t \in TaskId, task[t].skipped
  PROVE  /\ task[t].state = "trashed" /\ task[t].series # None /\ task[t].due # None
  BY DbFacts DEF RowSound, Unmarked

LEMMA StatusStepped ==
  ASSUME WiredDb, NEW t \in Live(db), NEW s \in WorkflowStatus
  PROVE  Prepared(db, [db EXCEPT !.task[t].status = s])
<1> DEFINE T == Replaced(task, t, WithStatus(task[t], s))
<1>1. [db EXCEPT !.task[t].status = s] = Rec(T, dep, project)
  BY DEF db, Rec, Replaced, WithStatus
<1>2. t \in TaskId /\ task \in [TaskId -> Row] /\ project \in [ProjectId -> Lifecycle]
  BY DEF Live, WiredDb, Sound
<1>3. WithStatus(task[t], s) \in Row /\ SameFacts(WithStatus(task[t], s), task[t])
  BY <1>2, WithStatusShape
<1>4. T \in [TaskId -> Row] /\ \A u \in TaskId : u # t => T[u] = task[u]
  BY <1>2, <1>3 DEF Replaced
<1>5. T[t] = WithStatus(task[t], s)
  BY <1>2 DEF Replaced
<1> HIDE DEF T
<1>6. \A u \in TaskId : /\ T[u].state = task[u].state /\ T[u].parent = task[u].parent
                        /\ T[u].skipped = task[u].skipped /\ T[u].series = task[u].series
                        /\ T[u].due = task[u].due
                        /\ InOrder(task[u]) => InOrder(T[u])
  BY <1>3, <1>4, <1>5 DEF SameFacts, InOrder, Unmarked
<1>7. Prepared(db, Rec(T, dep, project))
  BY <1>2, <1>4, <1>6, StillSkipped, RowsRewritten
<1> QED
  BY <1>1, <1>7

LEMMA MarkDoneStepped ==
  ASSUME WiredDb, NEW t, MarkDone(t)
  PROVE  Stepped
<1>1. "done" \in WorkflowStatus
  BY DEF WorkflowStatus
<1> QED
  BY <1>1, StatusStepped, CommitStepped DEF MarkDone

LEMMA ReopenTaskStepped ==
  ASSUME WiredDb, NEW t, ReopenTask(t)
  PROVE  Stepped
<1>1. "open" \in WorkflowStatus
  BY DEF WorkflowStatus
<1> QED
  BY <1>1, StatusStepped, WriteStepped DEF ReopenTask

LEMMA StopRecurrenceStepped ==
  ASSUME WiredDb, NEW t, StopRecurrence(t)
  PROVE  Stepped
<1> DEFINE series == {u \in Rows(db) : task[u].series = task[t].series}
           rows == IF task[t].series = None THEN {t} ELSE series
           T == Reinterval(task, rows, 0)
<1>1. Write([db EXCEPT !.task = [u \in TaskId |->
               IF u \in rows THEN [task[u] EXCEPT !.repeat = 0] ELSE task[u]]])
  BY DEF StopRecurrence
<1>2. [db EXCEPT !.task = [u \in TaskId |->
               IF u \in rows THEN [task[u] EXCEPT !.repeat = 0] ELSE task[u]]]
        = Rec(T, dep, project)
  BY DEF db, Rec, Reinterval, WithRepeat
<1> HIDE DEF rows
<1>3. ASSUME NEW u \in TaskId
      PROVE  /\ T[u] \in Row
             /\ T[u].state = task[u].state /\ T[u].parent = task[u].parent
             /\ T[u].skipped = task[u].skipped /\ T[u].series = task[u].series
             /\ T[u].due = task[u].due
             /\ InOrder(task[u]) => InOrder(T[u])
  <2>1. task[u] \in Row
    BY DbFacts
  <2>2. T[u] = IF u \in rows THEN WithRepeat(task[u], 0) ELSE task[u]
    BY DEF Reinterval
  <2> HIDE DEF T
  <2> DEFINE row == task[u]
             new == WithRepeat(row, 0)
  <2>3. row \in Row
    BY <2>1
  <2> HIDE DEF row
  <2>4. new \in Row
    BY <2>3, RowBounds DEF WithRepeat, Row
  <2>5. /\ new.state = row.state /\ new.parent = row.parent /\ new.skipped = row.skipped
        /\ new.series = row.series /\ new.due = row.due
    BY <2>3 DEF WithRepeat, Row
  <2>6. /\ new.dwt = row.dwt /\ new.dwp = row.dwp /\ new.superseded = row.superseded
        /\ new.repeat = 0
    BY <2>3 DEF WithRepeat, Row
  <2> HIDE DEF new
  <2>7. InOrder(row) => InOrder(new)
    BY <2>5, <2>6 DEF InOrder, Unmarked
  <2> QED
    BY <2>2, <2>3, <2>4, <2>5, <2>7 DEF row, new
<1>4. T \in [TaskId -> Row]
  <2>1. T = [u \in TaskId |-> T[u]]
    BY DEF Reinterval
  <2> HIDE DEF T
  <2> QED
    BY <1>3, <2>1
<1> HIDE DEF T
<1>5. project \in [ProjectId -> Lifecycle]
  BY DEF WiredDb, Sound
<1>6. Prepared(db, Rec(T, dep, project))
  BY <1>3, <1>4, <1>5, StillSkipped, RowsRewritten
<1> QED
  BY <1>1, <1>2, <1>6, WriteStepped

LEMMA RemoveDependencyPrepared ==
  ASSUME WiredDb, NEW e
  PROVE  Prepared(db, [db EXCEPT !.dep = @ \ {e}])
<1> DEFINE D == dep \ {e}
<1>2. [db EXCEPT !.dep = @ \ {e}] = Rec(task, D, project)
  BY DEF db, Rec
<1>3. project \in [ProjectId -> Lifecycle] /\ task \in [TaskId -> Row]
  BY DEF WiredDb, Sound
<1>4. D \in SUBSET dep
  OBVIOUS
<1> HIDE DEF D
<1>5. Prepared(db, Rec(task, D, project))
  BY <1>3, <1>4, StillSkipped, RowsRewritten
<1> QED
  BY <1>2, <1>5

LEMMA RemoveDependencyStepped ==
  ASSUME WiredDb, NEW e, RemoveDependency(e)
  PROVE  Stepped
  BY RemoveDependencyPrepared, CommitStepped DEF RemoveDependency

-----------------------------------------------------------------------------
(* Into the trash *)

\* B has the rows of S, with their parents, series and dates, and at least their
\* skips, each in order if it was.
SameMarks(S, B) ==
  /\ B \in Store
  /\ \A t \in TaskId :
       /\ (B.task[t].state = "none") <=> (S.task[t].state = "none")
       /\ B.task[t].parent = S.task[t].parent
       /\ B.task[t].series = S.task[t].series /\ B.task[t].due = S.task[t].due
       /\ S.task[t].skipped => B.task[t].skipped
       /\ InOrder(S.task[t]) => InOrder(B.task[t])
  /\ B.dep = S.dep

\* What A skips, S skips as well.
Skips(A, S) ==
  \A t \in Rows(A) : A.task[t].skipped =>
    /\ S.task[t].skipped
    /\ S.task[t].series = A.task[t].series /\ S.task[t].due = A.task[t].due

LEMMA SameMarksPrepared ==
  ASSUME NEW A, NEW S, Prepared(A, S), Skips(A, S), NEW B, SameMarks(S, B)
  PROVE  Prepared(A, B) /\ Skips(A, B)
<1>1. Rows(B) = Rows(S) /\ B \in Store /\ B.dep = S.dep /\ Rows(A) \subseteq Rows(B)
  BY DEF SameMarks, Rows, Prepared
<1>2. StoredWaits(B) = StoredWaits(S)
  BY <1>1 DEF SameMarks, StoredWaits, StoredNesting, Rows
<1>3. Wired(B)
  BY <1>1, <1>2 DEF Prepared, Wired
<1>4. Skips(A, B)
  BY <1>1 DEF Skips, SameMarks, Rows
<1>5. Follows(A, B)
  <2>1. \A t \in Rows(B) \ Rows(A) :
          B.task[t].series # None
            => ~SkippedOccurrenceOn(A, B.task[t].series, B.task[t].due)
    BY <1>1 DEF Prepared, Follows, SameMarks, Rows
  <2>2. \A t \in Rows(A) \cap Rows(B) : A.task[t].skipped => Remembered(A, B, t)
    BY <1>4 DEF Skips, Remembered
  <2>3. \A e \in B.dep \ A.dep : e[1] \in Rows(A) <=> e[2] \in Rows(A)
    BY <1>1 DEF Prepared, Follows
  <2>4. AllInOrder(A) => AllInOrder(B)
    BY DEF Prepared, Follows, SameMarks, AllInOrder
  <2> QED
    BY <2>1, <2>2, <2>3, <2>4 DEF Follows
<1> QED
  BY <1>1, <1>3, <1>4, <1>5 DEF Prepared

LEMMA DbPrepared ==
  ASSUME WiredDb
  PROVE  Prepared(db, db) /\ Skips(db, db)
<1>1. Skips(db, db) /\ Wired(db)
  BY DbFacts DEF Skips
<1>2. Follows(db, db)
  BY DEF Follows, Remembered
<1> QED
  BY <1>1, <1>2 DEF Prepared

\* One row of the same presence, parent, series and date.
MarksKept(new, row) ==
  /\ (new.state = "none") <=> (row.state = "none")
  /\ new.parent = row.parent /\ new.series = row.series /\ new.due = row.due
  /\ row.skipped => new.skipped
  /\ InOrder(row) => InOrder(new)

LEMMA MarksOfRows ==
  ASSUME NEW S \in Store, NEW T \in [TaskId -> Row], NEW Q \in [ProjectId -> Lifecycle],
         \A t \in TaskId : MarksKept(T[t], S.task[t])
  PROVE  SameMarks(S, Rec(T, S.dep, Q))
<1>1. Rec(T, S.dep, Q).task = T /\ Rec(T, S.dep, Q).dep = S.dep
  BY DEF Rec
<1>2. Rec(T, S.dep, Q) \in Store
  BY DEF Rec, Store
<1> QED
  BY <1>1, <1>2 DEF SameMarks, MarksKept

LEMMA BinnedMarks ==
  ASSUME NEW row \in Row, row.state = "live", NEW by \in TaskId \cup {None}
  PROVE  Binned(row, by) \in Row /\ MarksKept(Binned(row, by), row)
<1> DEFINE new == Binned(row, by)
<1>1. new \in Row
  BY DEF Binned, Row, Lifecycle
<1>2. new.state = "trashed" /\ new.skipped = row.skipped /\ new.parent = row.parent
  BY DEF Binned, Row
<1>3. new.series = row.series /\ new.due = row.due /\ new.repeat = row.repeat
  BY DEF Binned, Row
<1> HIDE DEF new
<1> QED
  BY <1>1, <1>2, <1>3 DEF MarksKept, InOrder, Unmarked, new

LEMMA TrashingMarks ==
  ASSUME NEW S \in Store, NEW A \in SUBSET Live(S), NEW root \in TaskId
  PROVE  SameMarks(S, Trashing(S, A, root))
<1> DEFINE by(t) == IF t = root THEN S.task[t].dwt ELSE root
           T == [t \in TaskId |-> IF t \in A THEN Binned(S.task[t], by(t)) ELSE S.task[t]]
<1>1. \A t \in TaskId : S.task[t] \in Row
  BY DEF Store
<1>2. Trashing(S, A, root) = Rec(T, S.dep, S.project)
  <2>1. Trashing(S, A, root) = OnTask(S, T)
    BY DEF Trashing, OnTask, Binned
  <2> HIDE DEF T
  <2> QED
    BY <2>1, OnTaskRec
<1>3. ASSUME NEW t \in TaskId
      PROVE  T[t] \in Row /\ MarksKept(T[t], S.task[t])
  <2>1. CASE t \in A
    <3>1. S.task[t].state = "live" /\ S.task[t] \in Row
      BY <1>1, <2>1 DEF Live
    <3>2. by(t) \in TaskId \cup {None}
      BY <3>1 DEF Row
    <3>3. T[t] = Binned(S.task[t], by(t))
      BY <2>1
    <3> HIDE DEF T, by
    <3> QED
      BY <3>1, <3>2, <3>3, BinnedMarks
  <2>2. CASE t \notin A
    <3>1. T[t] = S.task[t]
      BY <2>2
    <3> HIDE DEF T
    <3> QED
      BY <1>1, <3>1 DEF MarksKept
  <2> QED
    BY <2>1, <2>2
<1>4. T \in [TaskId -> Row]
  BY <1>3
<1> HIDE DEF T
<1>5. S.project \in [ProjectId -> Lifecycle]
  BY DEF Store
<1> QED
  BY <1>2, <1>3, <1>4, <1>5, MarksOfRows

LEMMA SoftDeleteTaskPrepared ==
  ASSUME WiredDb, NEW t \in Live(db)
  PROVE  Prepared(db, Trashing(db, LiveSubtree(db, t), t))
<1> DEFINE A == LiveSubtree(db, t)
<1>2. db \in Store /\ t \in TaskId
  BY DbFacts DEF Live
<1>3. A \in SUBSET Live(db)
  BY <1>2, SubtreeLive
<1> HIDE DEF A
<1>4. SameMarks(db, Trashing(db, A, t))
  BY <1>2, <1>3, TrashingMarks
<1>5. Prepared(db, Trashing(db, A, t))
  BY <1>4, DbPrepared, SameMarksPrepared
<1> QED
  BY <1>5 DEF A

LEMMA SoftDeleteTaskStepped ==
  ASSUME WiredDb, NEW t, SoftDeleteTask(t)
  PROVE  Stepped
<1>1. t \in Live(db) /\ Commit(Trashing(db, LiveSubtree(db, t), t),
                              Neighbours(db, LiveSubtree(db, t)))
  BY DEF SoftDeleteTask
<1> QED
  BY <1>1, SoftDeleteTaskPrepared, CommitStepped

LEMMA SkippedRowMarks ==
  ASSUME NEW row \in Row, row.state = "live"
  PROVE  SkippedRow(row) \in Row /\ MarksKept(SkippedRow(row), row)
<1> DEFINE new == SkippedRow(row)
<1>1. new \in Row
  BY DEF SkippedRow, Row, Lifecycle
<1>2. new.state = "trashed" /\ new.skipped = TRUE /\ new.parent = row.parent
  BY DEF SkippedRow, Row
<1>3. new.series = row.series /\ new.due = row.due /\ new.repeat = row.repeat
  BY DEF SkippedRow, Row
<1>4. new.dwt = row.dwt /\ new.superseded = row.superseded
  BY DEF SkippedRow, Row
<1> HIDE DEF new
<1> QED
  BY <1>1, <1>2, <1>3, <1>4 DEF MarksKept, InOrder, Unmarked, new

\* The successor is inserted while the occurrence is still live, and the series
\* may roll again before the occurrence itself is marked as skipped.
LEMMA SkipOccurrencePrepared ==
  ASSUME WiredDb, NEW t \in Live(db), CanSkip(db, t)
  PROVE  /\ Prepared(db, RollForward(db, {t})) /\ Prepared(db, ChecklistGone(db, t))
         /\ Prepared(db, Skipped(db, t))
<1> DEFINE next == RollForward(db, {t})
           gone == ChecklistGone(db, t)
           done == Reconcile(gone, SkipSeeds(db, t))
           T == Replaced(done.task, t, SkippedRow(done.task[t]))
<1>1. t \in Live(db) /\ CanRollForward(db, {t}) /\ CanReconcile(gone, SkipSeeds(db, t))
  BY DEF CanSkip
<1>2. t \in TaskId /\ t \in Rows(db) /\ {t} \in SUBSET Live(db) /\ db \in Store
  BY <1>1, DbFacts DEF Live, Rows
<1>3. /\ Prepared(db, next) /\ Rows(db) \subseteq Rows(next)
      /\ \A u \in Rows(db) : next.task[u] = db.task[u]
  BY <1>1, <1>2, DbPrepared, RollForwardPrepared DEF Prepared
<1> HIDE DEF next
<1>4. Skips(db, next) /\ next \in Store
  BY <1>3 DEF Skips, Prepared, Wired
<1>5. SameMarks(next, gone) /\ gone.task[t] = next.task[t]
  <2> DEFINE A == Checklist(next, t)
  <2>1. t \in Live(next)
    BY <1>1, <1>2, <1>3 DEF Live
  <2>2. A \in SUBSET Live(next)
    BY <1>4, <2>1, SubtreeLive DEF Checklist
  <2>3. gone = Trashing(next, A, t) /\ t \notin A
    BY DEF ChecklistGone, Checklist, next
  <2>4. Trashing(next, A, t).task[t] = next.task[t]
    BY <1>2, <1>4, <2>3 DEF Trashing, Store
  <2> HIDE DEF A, gone
  <2> QED
    BY <1>2, <1>4, <2>2, <2>3, <2>4, TrashingMarks
<1> HIDE DEF gone
<1>6. Prepared(db, gone) /\ Skips(db, gone)
  BY <1>3, <1>4, <1>5, SameMarksPrepared
<1>7. Prepared(db, done) /\ \A u \in Rows(gone) : done.task[u] = gone.task[u]
  BY <1>1, <1>6, ReconcilePrepared
<1> HIDE DEF done
<1>8. /\ Skips(db, done) /\ done \in Store /\ Rows(db) \subseteq Rows(gone)
      /\ t \in Rows(done)
  BY <1>2, <1>6, <1>7 DEF Skips, Prepared, Wired
<1>9. done.task \in [TaskId -> Row] /\ done.project \in [ProjectId -> Lifecycle]
  BY <1>8 DEF Store
<1>10. done.task[t] \in Row /\ done.task[t].state = "live"
  <2>1. t \in Rows(gone) /\ db.task[t].state = "live"
    BY <1>1, <1>2, <1>8 DEF Live
  <2> QED
    BY <1>2, <1>3, <1>5, <1>7, <1>9, <2>1
<1>11. /\ SkippedRow(done.task[t]) \in Row
       /\ MarksKept(SkippedRow(done.task[t]), done.task[t])
  BY <1>10, SkippedRowMarks
<1>12. T \in [TaskId -> Row] /\ \A u \in TaskId : MarksKept(T[u], done.task[u])
  BY <1>2, <1>9, <1>11 DEF Replaced, MarksKept
<1>13. Skipped(db, t) = Rec(T, done.dep, done.project)
  <2>1. Skipped(db, t) = OnTask(done, T)
    BY DEF Skipped, OnTask, Replaced, SkippedRow, done, gone
  <2> HIDE DEF T
  <2> QED
    BY <1>8, <2>1, OnTaskRec
<1> HIDE DEF T
<1>14. SameMarks(done, Rec(T, done.dep, done.project))
  BY <1>8, <1>9, <1>12, MarksOfRows
<1>15. Prepared(db, Skipped(db, t))
  BY <1>7, <1>8, <1>13, <1>14, SameMarksPrepared
<1> QED
  BY <1>3, <1>6, <1>15 DEF next, gone

LEMMA SkipOccurrenceStepped ==
  ASSUME WiredDb, NEW t, SkipOccurrence(t)
  PROVE  Stepped
  BY SkipOccurrencePrepared, WriteStepped DEF SkipOccurrence

-----------------------------------------------------------------------------
(* Out of the trash *)

\* Row t of S is live on the slot of row t of db, which is in a series.
LEMMA SlotRemembered ==
  ASSUME WiredDb, NEW T, NEW D, NEW Q, NEW t \in TaskId, task[t].skipped,
         NEW u \in TaskId, T[u].state = "live",
         T[u].series = task[t].series, T[u].due = task[t].due
  PROVE  Remembered(db, Rec(T, D, Q), t)
<1>1. Rec(T, D, Q).task = T /\ db.task = task
  BY DbFacts DEF Rec
<1>2. task[t].series # None
  BY OnlyTrashIsSkipped
<1>3. u \in Occurrences(Rec(T, D, Q), task[t].series, task[t].due)
  BY <1>1, <1>2 DEF Occurrences, Live
<1> QED
  BY <1>1, <1>3 DEF Remembered

LEMMA RevivedShape ==
  ASSUME NEW row \in Row, NEW p \in ProjectId
  PROVE  /\ Revived(row, p) \in Row /\ Revived(row, p).state = "live"
         /\ Revived(row, p).parent = row.parent
         /\ Revived(row, p).series = row.series /\ Revived(row, p).due = row.due
         /\ ~row.superseded /\ InOrder(row) => InOrder(Revived(row, p))
<1> DEFINE new == Revived(row, p)
<1>1. new \in Row
  BY DEF Revived, Row, Lifecycle
<1>2. new.state = "live" /\ new.parent = row.parent
  BY DEF Revived, Row
<1>3. new.series = row.series /\ new.due = row.due /\ new.repeat = row.repeat
  BY DEF Revived, Row
<1>4. /\ new.dwt = None /\ new.dwp = None /\ new.skipped = FALSE
      /\ new.superseded = row.superseded
  BY DEF Revived, Row
<1> HIDE DEF new
<1>5. ~row.superseded /\ InOrder(row) => InOrder(new)
  BY <1>3, <1>4 DEF InOrder, Unmarked
<1> QED
  BY <1>1, <1>2, <1>3, <1>5 DEF new

LEMMA RestoredPrepared ==
  ASSUME WiredDb, NEW A \in SUBSET Trashed(db), \A u \in A : ~task[u].superseded
  PROVE  Prepared(db, Restored(db, A))
<1> DEFINE p(u) == IF task[u].project \in LiveProjects(db) THEN task[u].project ELSE General
           T == [u \in TaskId |-> IF u \in A THEN Revived(task[u], p(u)) ELSE task[u]]
<1>1. db \in Store /\ db.task = task /\ db.dep = dep /\ db.project = project
  BY DbFacts
<1>2. Restored(db, A) = Rec(T, dep, project)
  <2>1. Restored(db, A) = OnTask(db, T)
    BY <1>1 DEF Restored, OnTask, RestoredRow, Revived
  <2> HIDE DEF T
  <2> QED
    BY <1>1, <2>1, OnTaskRec
<1>3. General \in ProjectId /\ project \in [ProjectId -> Lifecycle]
  BY RowBounds DEF General, ProjectId, WiredDb, Sound
<1>4. \A u \in TaskId : T[u] = IF u \in A THEN Revived(task[u], p(u)) ELSE task[u]
  OBVIOUS
<1>5. T = [u \in TaskId |-> T[u]]
  OBVIOUS
<1>6. \A u \in TaskId : p(u) \in ProjectId
  BY <1>3 DEF LiveProjects
<1> HIDE DEF T, p
<1>7. ASSUME NEW u \in TaskId
      PROVE  /\ T[u] \in Row /\ T[u].parent = task[u].parent
             /\ T[u].series = task[u].series /\ T[u].due = task[u].due
             /\ u \in A => T[u].state = "live" /\ task[u].state = "trashed"
             /\ u \notin A => T[u] = task[u]
             /\ InOrder(task[u]) => InOrder(T[u])
  <2>1. task[u] \in Row
    BY DbFacts
  <2>2. CASE u \in A
    <3>1. task[u].state = "trashed" /\ T[u] = Revived(task[u], p(u))
      BY <1>1, <1>4, <2>2 DEF Trashed
    <3> QED
      BY <1>6, <2>1, <2>2, <3>1, RevivedShape
  <2>3. CASE u \notin A
    BY <1>4, <2>1, <2>3
  <2> QED
    BY <2>2, <2>3
<1>8. T \in [TaskId -> Row]
  BY <1>5, <1>7
<1>9. ASSUME NEW u \in TaskId, task[u].skipped
      PROVE  Remembered(db, Rec(T, dep, project), u)
  BY <1>7, <1>9, SlotRemembered, StillSkipped
<1>10. \A u \in TaskId : (T[u].state = "none") <=> (task[u].state = "none")
  BY <1>7
<1>11. Prepared(db, Rec(T, dep, project))
  BY <1>3, <1>7, <1>8, <1>9, <1>10, RowsRewritten
<1> QED
  BY <1>2, <1>11

LEMMA RestoredStepped ==
  ASSUME WiredDb, NEW A \in SUBSET Trashed(db), \A u \in A : ~task[u].superseded,
         Commit(Restored(db, A), A)
  PROVE  Stepped
  BY RestoredPrepared, CommitStepped

LEMMA NextLiveIsSuccessor ==
  ASSUME NEW S \in Store, NEW t, Successors(S, t) # {}
  PROVE  NextLive(S, t) \in Live(S) /\ S.task[NextLive(S, t)].series = S.task[t].series
<1> DEFINE dues == {S.task[u].due : u \in Successors(S, t)}
<1>1. dues \in SUBSET Nat /\ dues # {}
  BY RowBounds DEF Store, Row, Successors, Live, Date, None
<1>2. PICK d \in dues : \A e \in dues : d <= e
  BY <1>1, LeastNatural
<1>3. \E u \in Successors(S, t) : \A v \in Successors(S, t) : S.task[u].due <= S.task[v].due
  BY <1>2
<1> QED
  BY <1>3 DEF NextLive, Successors

LEMMA WithDueShape ==
  ASSUME NEW row \in Row, NEW d \in Date
  PROVE  /\ WithDue(row, d) \in Row /\ WithDue(row, d).state = row.state
         /\ WithDue(row, d).parent = row.parent /\ WithDue(row, d).series = row.series
         /\ WithDue(row, d).due = d /\ WithDue(row, d).skipped = row.skipped
         /\ WithDue(row, d).dwt = row.dwt
         /\ InOrder(row) => InOrder(WithDue(row, d))
<1> DEFINE new == WithDue(row, d)
<1>1. new \in Row
  BY DEF WithDue, Row
<1>2. new.state = row.state /\ new.parent = row.parent /\ new.series = row.series
  BY DEF WithDue, Row
<1>3. new.due = d /\ new.skipped = row.skipped /\ new.dwt = row.dwt
  BY DEF WithDue, Row
<1>4. new.dwp = row.dwp /\ new.superseded = row.superseded /\ d # None
  BY RowBounds DEF WithDue, Row, Date, None
<1> HIDE DEF new
<1>5. InOrder(row) => InOrder(new)
  BY <1>2, <1>3, <1>4 DEF InOrder, Unmarked
<1> QED
  BY <1>1, <1>2, <1>3, <1>5 DEF new

LEMMA RetiredShape ==
  ASSUME NEW row \in Row, NEW s \in BOOLEAN
  PROVE  /\ Retired(row, s) \in Row /\ Retired(row, s).state = row.state
         /\ Retired(row, s).parent = row.parent /\ Retired(row, s).series = row.series
         /\ Retired(row, s).due = row.due /\ Retired(row, s).skipped = s
         /\ row.state = "trashed" /\ ~s /\ InOrder(row) => InOrder(Retired(row, s))
<1> DEFINE new == Retired(row, s)
<1>1. new \in Row
  BY DEF Retired, Row
<1>2. new.state = row.state /\ new.parent = row.parent /\ new.series = row.series
  BY DEF Retired, Row
<1>3. new.due = row.due /\ new.skipped = s /\ new.repeat = row.repeat
  BY DEF Retired, Row
<1> HIDE DEF new
<1>4. row.state = "trashed" /\ ~s /\ InOrder(row) => InOrder(new)
  BY <1>2, <1>3 DEF InOrder
<1> QED
  BY <1>1, <1>2, <1>3, <1>4 DEF new

\* The successor takes over the date that stops being skipped.
LEMMA CommitRewindPrepared ==
  ASSUME WiredDb, NEW t \in Trashed(db), Rewinds(db, t)
  PROVE  Prepared(db, Rewound(db, t))
<1> DEFINE next == NextLive(db, t)
           moved == LiveSubtree(db, next)
           due == task[t].due
           T1 == [u \in TaskId |-> IF u \in moved THEN WithDue(task[u], due) ELSE task[u]]
           S1 == Rescheduled(db, next, due)
           A == {t} \cup Stamped(S1, t)
           skip(u) == IF u = t THEN FALSE ELSE T1[u].skipped
           T == [u \in TaskId |-> IF u \in A THEN Retired(T1[u], skip(u)) ELSE T1[u]]
<1>1. db \in Store /\ db.task = task /\ db.dep = dep /\ db.project = project
  BY DbFacts
<1>2. /\ t \in TaskId /\ task[t].state = "trashed" /\ task[t].skipped /\ due # None
      /\ task[t] \in Row
  BY <1>1, DbFacts DEF Trashed, Rewinds
<1>3. due \in Date
  BY <1>2 DEF Row
<1>4. /\ next \in Live(db) /\ task[next].series = task[t].series /\ next \in moved
      /\ moved \subseteq Live(db)
  <2>1. next \in Live(db) /\ task[next].series = task[t].series
    BY <1>1, NextLiveIsSuccessor DEF Rewinds
  <2> QED
    BY <1>1, <2>1, SubtreeLive
<1>5. S1 = Rec(T1, dep, project)
  <2>1. S1 = OnTask(db, T1)
    BY <1>1 DEF Rescheduled, OnTask, WithDue
  <2> HIDE DEF T1
  <2> QED
    BY <1>1, <2>1, OnTaskRec
<1>6. Rewound(db, t) = Rec(T, dep, project)
  <2>1. Rewound(db, t) = Supersede(S1, t)
    BY <1>1 DEF Rewound
  <2>2. S1.task = T1 /\ S1.dep = dep /\ S1.project = project
    BY <1>5 DEF Rec
  <2>3. Supersede(S1, t) = OnTask(S1, T)
    BY <2>2 DEF Supersede, OnTask, Retired
  <2> HIDE DEF T, S1
  <2>4. OnTask(S1, T) = Rec(T, dep, project)
    BY <1>5 DEF OnTask, Rec
  <2> QED
    BY <2>1, <2>3, <2>4
<1>7. \A u \in TaskId : T1[u] = IF u \in moved THEN WithDue(task[u], due) ELSE task[u]
  OBVIOUS
<1> HIDE DEF moved, due, S1, T1
<1>8. ASSUME NEW u \in TaskId
      PROVE  /\ T1[u] \in Row /\ T1[u].state = task[u].state
             /\ T1[u].parent = task[u].parent /\ T1[u].series = task[u].series
             /\ T1[u].skipped = task[u].skipped /\ T1[u].dwt = task[u].dwt
             /\ task[u].state # "live" => T1[u].due = task[u].due
             /\ u \in moved => T1[u].due = due
             /\ InOrder(task[u]) => InOrder(T1[u])
  <2>1. task[u] \in Row
    BY DbFacts
  <2>2. CASE u \in moved
    <3>1. task[u].state = "live" /\ T1[u] = WithDue(task[u], due)
      BY <1>1, <1>4, <1>7, <2>2 DEF Live
    <3> QED
      BY <1>3, <2>1, <3>1, WithDueShape
  <2>3. CASE u \notin moved
    BY <1>7, <2>1, <2>3
  <2> QED
    BY <2>2, <2>3
<1>9. ASSUME NEW u \in A
      PROVE  /\ u \in TaskId /\ T1[u].state = "trashed"
             /\ u # t => task[u].dwt # None
  <2>1. S1.task = T1
    BY <1>5 DEF Rec
  <2>2. CASE u = t
    BY <1>2, <1>8, <2>2
  <2>3. CASE u # t
    <3>1. u \in TaskId /\ T1[u].state = "trashed" /\ task[u].dwt = t
      BY <1>8, <1>9, <2>1, <2>3 DEF Stamped, Trashed
    <3>2. t # None
      BY <1>2, RowBounds DEF TaskId, None
    <3> QED
      BY <3>1, <3>2
  <2> QED
    BY <2>2, <2>3
<1> HIDE DEF A
<1>10. ASSUME NEW u \in TaskId
       PROVE  /\ T[u] \in Row /\ T[u].state = task[u].state
              /\ T[u].parent = task[u].parent /\ T[u].series = task[u].series
              /\ T[u].due = T1[u].due
              /\ u # t /\ task[u].skipped => T[u].skipped
              /\ InOrder(task[u]) => InOrder(T[u])
  <2>1. CASE u \in A
    <3> DEFINE row == T1[u]
               s == skip(u)
    <3>1. /\ row \in Row /\ s \in BOOLEAN /\ T[u] = Retired(row, s)
          /\ row.state = "trashed" /\ (u # t => s = row.skipped)
      BY <1>8, <1>9, <2>1 DEF Row
    <3>2. ~s \/ ~InOrder(task[u])
      BY <1>8, <1>9, <2>1 DEF InOrder
    <3> HIDE DEF T, skip, row, s
    <3>3. /\ Retired(row, s) \in Row /\ Retired(row, s).state = row.state
          /\ Retired(row, s).parent = row.parent /\ Retired(row, s).series = row.series
          /\ Retired(row, s).due = row.due /\ Retired(row, s).skipped = s
          /\ ~s /\ InOrder(row) => InOrder(Retired(row, s))
      BY ONLY <3>1, RetiredShape
    <3> QED
      BY <1>8, <3>1, <3>2, <3>3 DEF row
  <2>2. CASE u \notin A
    <3>1. T[u] = T1[u]
      BY <2>2
    <3> HIDE DEF T
    <3> QED
      BY <1>8, <3>1
  <2> QED
    BY <2>1, <2>2
<1>11. T \in [TaskId -> Row]
  BY <1>10
<1> HIDE DEF T
<1>12. ASSUME NEW u \in TaskId, task[u].skipped
       PROVE  Remembered(db, Rec(T, dep, project), u)
  <2>1. CASE u = t
    <3>1. next \in TaskId /\ task[next].state = "live"
      BY <1>1, <1>4 DEF Live
    <3>2. T[next].state = "live" /\ T[next].series = task[t].series /\ T[next].due = task[t].due
      BY <1>4, <1>8, <1>10, <3>1 DEF due
    <3> HIDE DEF next
    <3> QED
      BY <1>2, <2>1, <3>1, <3>2, SlotRemembered
  <2>2. CASE u # t
    <3>1. task[u].state = "trashed" /\ task[u].skipped \in BOOLEAN
      BY <1>12, OnlyTrashIsSkipped, DbFacts DEF Row
    <3>2. T[u].skipped /\ T[u].series = task[u].series /\ T[u].due = task[u].due
      BY <1>8, <1>10, <1>12, <2>2, <3>1
    <3>3. Rec(T, dep, project).task = T
      BY DEF Rec
    <3> QED
      BY <1>1, <3>2, <3>3 DEF Remembered
  <2> QED
    BY <2>1, <2>2
<1>13. project \in [ProjectId -> Lifecycle]
  BY DEF WiredDb, Sound
<1>14. Prepared(db, Rec(T, dep, project))
  BY <1>10, <1>11, <1>12, <1>13, RowsRewritten
<1> QED
  BY <1>6, <1>14

LEMMA CommitRewindStepped ==
  ASSUME WiredDb, NEW t \in Trashed(db), Rewinds(db, t), CommitRewind(t)
  PROVE  Stepped
  BY CommitRewindPrepared, CommitStepped DEF CommitRewind

LEMMA RestoreTaskStepped ==
  ASSUME WiredDb, NEW t, RestoreTask(t)
  PROVE  Stepped
<1> DEFINE A == PlainRestoreSet(db, t)
<1>1. t \in Trashed(db)
  BY DEF RestoreTask
<1>2. CASE Rewinds(db, t)
  BY <1>1, <1>2, CommitRewindStepped DEF RestoreTask
<1>3. CASE ~Rewinds(db, t)
  <2>1. Commit(Restored(db, A), A)
    BY <1>3 DEF RestoreTask
  <2>2. A \in SUBSET Trashed(db) /\ \A u \in A : ~task[u].superseded
    BY <1>1, DbFacts DEF RestoreTask, PlainRestoreSet, MarkedDescendants, Stamped
  <2> HIDE DEF A
  <2> QED
    BY <2>1, <2>2, RestoredStepped
<1> QED
  BY <1>2, <1>3

LEMMA RestoreTaskSubtreeStepped ==
  ASSUME WiredDb, NEW t, RestoreTaskSubtree(t)
  PROVE  Stepped
<1> DEFINE A == {t} \cup MarkedDescendants(db, t)
<1>1. t \in Trashed(db)
  BY DEF RestoreTaskSubtree
<1>2. CASE Rewinds(db, t)
  BY <1>1, <1>2, CommitRewindStepped DEF RestoreTaskSubtree
<1>3. CASE ~Rewinds(db, t)
  <2>1. Commit(Restored(db, A), A)
    BY <1>3 DEF RestoreTaskSubtree
  <2>2. A \in SUBSET Trashed(db) /\ \A u \in A : ~task[u].superseded
    BY <1>1, DbFacts DEF RestoreTaskSubtree, MarkedDescendants, Stamped
  <2> HIDE DEF A
  <2> QED
    BY <2>1, <2>2, RestoredStepped
<1> QED
  BY <1>2, <1>3

-----------------------------------------------------------------------------
(* Purging *)

\* Rows and edges go, pointers are cleared, and nothing else changes.
Shrunk(T, D) ==
  /\ \A t \in Present(T) :
       /\ t \in Present(task)
       /\ T[t].parent = None
            \/ (T[t].parent = task[t].parent /\ T[t].parent \in Present(T))
       /\ T[t].skipped = task[t].skipped
       /\ T[t].series = task[t].series /\ T[t].due = task[t].due
  /\ \A t \in TaskId : InOrder(task[t]) => InOrder(T[t])
  /\ D \in SUBSET (Present(T) \X Present(T)) /\ D \subseteq dep

LEMMA ShrunkStepped ==
  ASSUME WiredDb, NEW T \in [TaskId -> Row], NEW D, Shrunk(T, D),
         NEW Q \in [ProjectId -> Lifecycle], Write(Rec(T, D, Q))
  PROVE  Stepped
<1> DEFINE S == Rec(T, D, Q)
<1>1. S.task = T /\ S.dep = D /\ S.project = Q
  BY DEF Rec
<1>2. D \in SUBSET (Present(T) \X Present(T)) /\ D \subseteq dep /\ Present(T) \subseteq TaskId
  BY DEF Shrunk, Present
<1>3. S \in Store
  <2>1. D \in SUBSET (TaskId \X TaskId)
    BY <1>2
  <2> QED
    BY <2>1 DEF Rec, Store
<1> HIDE DEF S
<1>4. Rows(S) = Present(T) /\ Rows(S) \subseteq Rows(db) /\ db.task = task /\ db.dep = dep
  BY <1>1, DbFacts, PresentRows DEF Shrunk
<1>5. ASSUME NEW e \in StoredWaits(S)
      PROVE  e \in StoredWaits(db) /\ e \in Rows(S) \X Rows(S)
  <2>1. CASE e \in S.dep
    BY <1>1, <1>2, <1>4, <2>1 DEF StoredWaits
  <2>2. CASE e \notin S.dep
    <3>1. PICK c \in Rows(S) : T[c].parent # None /\ e = <<T[c].parent, c>>
      BY <1>1, <2>2 DEF StoredWaits, StoredNesting
    <3>2. T[c].parent = task[c].parent /\ T[c].parent \in Present(T) /\ c \in Rows(db)
      BY <1>4, <3>1 DEF Shrunk
    <3> QED
      BY <1>4, <3>1, <3>2 DEF StoredWaits, StoredNesting
  <2> QED
    BY <2>1, <2>2
<1>6. Wired(S)
  <2>1. StoredWaits(db) \in SUBSET (TaskId \X TaskId) /\ Acyclic(StoredWaits(db))
    BY WiredEdges DEF WiredDb, Wired
  <2>2. StoredWaits(S) \in SUBSET StoredWaits(db)
    BY <1>5
  <2>3. Acyclic(StoredWaits(S))
    BY <2>1, <2>2, FewerEdgesAcyclic
  <2>4. StoredWaits(S) \in SUBSET (Rows(S) \X Rows(S))
    BY <1>5
  <2> QED
    BY <1>3, <2>3, <2>4 DEF Wired
<1>7. Follows(db, S)
  <2>1. \A t \in Rows(db) \cap Rows(S) : db.task[t].skipped => Remembered(db, S, t)
    BY <1>1, <1>4 DEF Shrunk, Remembered
  <2>2. S.dep \subseteq db.dep
    BY <1>1, <1>2, <1>4
  <2>3. AllInOrder(db) => AllInOrder(S)
    BY <1>1, <1>4 DEF Shrunk, AllInOrder
  <2> QED
    BY <1>4, <2>1, <2>2, <2>3 DEF Follows
<1>8. db' = S
  BY <1>3, WrittenStore DEF S
<1> QED
  BY <1>6, <1>7, <1>8 DEF Stepped

LEMMA PurgedShrunk ==
  ASSUME WiredDb, NEW A \in SUBSET TaskId
  PROVE  \E T, D : /\ T \in [TaskId -> Row]
                   /\ Purged(db, A) = Rec(T, D, project) /\ Shrunk(T, D)
<1> DEFINE cleared(ref) == IF ref \in A THEN None ELSE ref
           q(t) == cleared(task[t].parent)
           by(t) == cleared(task[t].dwt)
           T == [t \in TaskId |-> IF t \in A THEN NoRow ELSE Cleared(task[t], q(t), by(t))]
           D == {e \in dep : e[1] \notin A /\ e[2] \notin A}
<1>1. db \in Store /\ db.task = task /\ db.dep = dep /\ db.project = project
  BY DbFacts
<1>2. Purged(db, A) = Rec(T, D, project)
  <2> DEFINE U == [t \in TaskId |->
                     IF t \in A THEN NoRow
                     ELSE [task[t] EXCEPT !.parent = cleared(@), !.dwt = cleared(@)]]
  <2>1. Purged(db, A) = [db EXCEPT !.task = U, !.dep = D]
    BY <1>1 DEF Purged
  <2>2. U = T
    BY DEF Cleared
  <2> HIDE DEF U, T, D
  <2> QED
    BY <1>1, <2>1, <2>2 DEF Rec, Store
<1>3. \A t \in TaskId : T[t] = IF t \in A THEN NoRow ELSE Cleared(task[t], q(t), by(t))
  OBVIOUS
<1>4. T = [t \in TaskId |-> T[t]]
  OBVIOUS
<1> HIDE DEF T
<1>5. ASSUME NEW t \in TaskId, t \notin A
      PROVE  /\ task[t] \in Row
             /\ q(t) \in TaskId \cup {None} /\ by(t) \in TaskId \cup {None}
             /\ q(t) = None \/ (q(t) = task[t].parent /\ q(t) \notin A)
             /\ by(t) = None \/ by(t) = task[t].dwt
  BY DbFacts DEF Row
<1> HIDE DEF q, by, cleared
<1>6. ASSUME NEW t \in TaskId, t \notin A
      PROVE  /\ T[t] \in Row /\ T[t].parent = q(t) /\ T[t].state = task[t].state
             /\ T[t].series = task[t].series /\ T[t].due = task[t].due
             /\ T[t].skipped = task[t].skipped
             /\ InOrder(task[t]) => InOrder(T[t])
  <2> DEFINE row == task[t]
             up  == q(t)
             cas == by(t)
             new == Cleared(row, up, cas)
  <2>1. T[t] = new /\ row \in Row /\ up \in TaskId \cup {None} /\ cas \in TaskId \cup {None}
        /\ (cas = None \/ cas = row.dwt)
    BY <1>3, <1>5, <1>6
  <2> HIDE DEF row, up, cas
  <2>2. /\ new \in Row /\ new.parent = up /\ new.state = row.state
        /\ new.series = row.series /\ new.due = row.due /\ new.skipped = row.skipped
    BY ONLY <2>1, ClearedShape
  <2>3. /\ new.dwt = cas /\ new.dwp = row.dwp /\ new.superseded = row.superseded
        /\ new.repeat = row.repeat
    BY ONLY <2>1, ClearedShape
  <2> HIDE DEF new
  <2>4. InOrder(row) => InOrder(new)
    BY <2>1, <2>2, <2>3 DEF InOrder, Unmarked
  <2> QED
    BY <2>1, <2>2, <2>4 DEF row, up
<1>7. \A t \in A : T[t] = NoRow
  BY <1>3
<1>8. Present(T) = Present(task) \ A
  BY <1>6, <1>7, NoRowType DEF Present
<1>9. T \in [TaskId -> Row]
  BY <1>4, <1>6, <1>7, NoRowType
<1>10. D \in SUBSET (Present(T) \X Present(T)) /\ D \subseteq dep
  BY <1>8 DEF WiredDb, Sound
<1>11. ASSUME NEW t \in Present(T)
       PROVE  /\ t \in Present(task)
              /\ T[t].parent = None
                   \/ (T[t].parent = task[t].parent /\ T[t].parent \in Present(T))
              /\ T[t].skipped = task[t].skipped
              /\ T[t].series = task[t].series /\ T[t].due = task[t].due
  <2>1. t \in TaskId /\ t \notin A /\ task[t].state # "none"
    BY <1>8 DEF Present
  <2>2. RowSound(task[t], Present(task), project)
    BY <2>1, DbFacts
  <2>3. task[t].parent \in Present(task) \cup {None}
    BY <2>1, <2>2 DEF RowSound
  <2>4. T[t].parent = q(t) /\ (q(t) = None \/ (q(t) = task[t].parent /\ q(t) \notin A))
    BY <1>5, <1>6, <2>1
  <2> QED
    BY <1>6, <1>8, <2>1, <2>3, <2>4
<1>12. \A t \in TaskId : InOrder(task[t]) => InOrder(T[t])
  <2>1. InOrder(NoRow)
    BY NoRowType DEF InOrder, NoRow
  <2> QED
    BY <1>6, <1>7, <2>1
<1> HIDE DEF D
<1> QED
  BY <1>2, <1>9, <1>10, <1>11, <1>12 DEF Shrunk

LEMMA PurgeTaskStepped ==
  ASSUME WiredDb, NEW t, PurgeTask(t)
  PROVE  Stepped
<1>1. t \in TaskId /\ Write(Purged(db, PurgeSet(db, t)))
  BY DEF PurgeTask, Trashed
<1>2. PurgeSet(db, t) \in SUBSET TaskId
  BY DEF PurgeSet, Reach
<1>3. PICK T, D :
        T \in [TaskId -> Row] /\ Purged(db, PurgeSet(db, t)) = Rec(T, D, project) /\ Shrunk(T, D)
  BY <1>2, PurgedShrunk
<1>4. project \in [ProjectId -> Lifecycle]
  BY DEF WiredDb, Sound
<1> QED
  BY <1>1, <1>3, <1>4, ShrunkStepped

LEMMA UnboundShape ==
  ASSUME NEW row \in Row
  PROVE  /\ Unbound(row) \in Row /\ Unbound(row).state = row.state
         /\ Unbound(row).parent = row.parent /\ Unbound(row).skipped = row.skipped
         /\ Unbound(row).series = row.series /\ Unbound(row).due = row.due
         /\ InOrder(row) => InOrder(Unbound(row))
<1> DEFINE new == Unbound(row)
<1>1. new \in Row
  BY DEF Unbound, Row
<1>2. new.state = row.state /\ new.parent = row.parent /\ new.skipped = row.skipped
  BY DEF Unbound, Row
<1>3. new.series = row.series /\ new.due = row.due /\ new.repeat = row.repeat
  BY DEF Unbound, Row
<1>4. new.dwt = row.dwt /\ new.dwp = None /\ new.superseded = row.superseded
  BY DEF Unbound, Row
<1> HIDE DEF new
<1>5. InOrder(row) => InOrder(new)
  BY <1>2, <1>3, <1>4 DEF InOrder, Unmarked
<1> QED
  BY <1>1, <1>2, <1>3, <1>5 DEF new

LEMMA LetGoShape ==
  ASSUME NEW T \in [TaskId -> Row], NEW p
  PROVE  /\ LetGo(T, p) \in [TaskId -> Row]
         /\ \A t \in TaskId : /\ LetGo(T, p)[t].state = T[t].state
                              /\ LetGo(T, p)[t].parent = T[t].parent
                              /\ LetGo(T, p)[t].skipped = T[t].skipped
                              /\ LetGo(T, p)[t].series = T[t].series
                              /\ LetGo(T, p)[t].due = T[t].due
                              /\ InOrder(T[t]) => InOrder(LetGo(T, p)[t])
<1> DEFINE U == LetGo(T, p)
<1>1. /\ \A t \in TaskId : U[t] = IF T[t].dwp = p THEN Unbound(T[t]) ELSE T[t]
      /\ U = [t \in TaskId |-> U[t]]
  BY DEF LetGo
<1> HIDE DEF U
<1>2. ASSUME NEW t \in TaskId
      PROVE  /\ U[t] \in Row /\ U[t].state = T[t].state /\ U[t].parent = T[t].parent
             /\ U[t].skipped = T[t].skipped /\ U[t].series = T[t].series
             /\ U[t].due = T[t].due
             /\ InOrder(T[t]) => InOrder(U[t])
  <2>1. CASE T[t].dwp = p
    BY <1>1, <2>1, UnboundShape
  <2>2. CASE T[t].dwp # p
    BY <1>1, <2>2
  <2> QED
    BY <2>1, <2>2
<1> QED
  BY <1>1, <1>2 DEF U

LEMMA PurgeProjectStepped ==
  ASSUME WiredDb, NEW p \in ProjectId, PurgeProject(p)
  PROVE  Stepped
<1> DEFINE A == {t \in Trashed(db) : task[t].project = p}
           S == Purged(db, A)
           Q == Becomes(project, p, "none")
<1>1. Write([S EXCEPT
               !.project[p] = "none",
               !.task = [t \in TaskId |-> IF S.task[t].dwp = p
                                          THEN [S.task[t] EXCEPT !.dwp = None]
                                          ELSE S.task[t]]])
  BY DEF PurgeProject
<1>2. A \in SUBSET TaskId
  BY DEF Trashed
<1> HIDE DEF A
<1>3. PICK T, D : T \in [TaskId -> Row] /\ S = Rec(T, D, project) /\ Shrunk(T, D)
  BY <1>2, PurgedShrunk
<1> HIDE DEF S
<1> DEFINE U == LetGo(T, p)
<1>4. [S EXCEPT
         !.project[p] = "none",
         !.task = [t \in TaskId |-> IF S.task[t].dwp = p
                                    THEN [S.task[t] EXCEPT !.dwp = None]
                                    ELSE S.task[t]]]
        = Rec(U, D, Q)
  <2>1. S.task = T
    BY <1>3 DEF Rec
  <2>2. [t \in TaskId |-> IF S.task[t].dwp = p THEN [S.task[t] EXCEPT !.dwp = None]
                          ELSE S.task[t]] = U
    BY <2>1 DEF LetGo, Unbound
  <2> HIDE DEF U
  <2>3. Refiled(S, p, "none", U) = Rec(U, D, Q)
    BY <1>3, RefiledRec
  <2> QED
    BY <2>2, <2>3 DEF Refiled
<1>5. /\ U \in [TaskId -> Row]
      /\ \A t \in TaskId : /\ U[t].state = T[t].state /\ U[t].parent = T[t].parent
                           /\ U[t].skipped = T[t].skipped /\ U[t].series = T[t].series
                           /\ U[t].due = T[t].due
                           /\ InOrder(T[t]) => InOrder(U[t])
  BY <1>3, LetGoShape
<1> HIDE DEF U
<1>6. Present(U) = Present(T) /\ Present(T) \subseteq TaskId
  BY <1>5 DEF Present
<1>7. Shrunk(U, D)
  BY <1>3, <1>5, <1>6 DEF Shrunk
<1>8. Q \in [ProjectId -> Lifecycle]
  BY DEF Becomes, WiredDb, Sound, Lifecycle
<1> HIDE DEF Q
<1> QED
  BY <1>1, <1>4, <1>5, <1>7, <1>8, ShrunkStepped

-----------------------------------------------------------------------------
(* Projects *)

\* Rows that keep their marks, beside whatever becomes of the projects.
LEMMA MarkedRowsPrepared ==
  ASSUME WiredDb, NEW T \in [TaskId -> Row], NEW Q \in [ProjectId -> Lifecycle],
         \A t \in TaskId : MarksKept(T[t], task[t])
  PROVE  Prepared(db, Rec(T, dep, Q))
<1>1. db \in Store /\ db.task = task /\ db.dep = dep
  BY DbFacts
<1>2. SameMarks(db, Rec(T, dep, Q))
  BY <1>1, MarksOfRows
<1> QED
  BY <1>2, DbPrepared, SameMarksPrepared

LEMMA BecomesProject ==
  ASSUME WiredDb, NEW p, NEW x \in Lifecycle
  PROVE  Becomes(project, p, x) \in [ProjectId -> Lifecycle]
  BY DEF Becomes, WiredDb, Sound

LEMMA CreateProjectStepped ==
  ASSUME WiredDb, NEW p \in ProjectId, CreateProject(p)
  PROVE  Stepped
<1> DEFINE Q == Becomes(project, p, "live")
<1>1. Write(Rec(task, dep, Q))
  <2>1. [db EXCEPT !.project[p] = "live"] = Rec(task, dep, Q)
    BY DEF db, Rec, Becomes
  <2> QED
    BY <2>1 DEF CreateProject
<1>2. Q \in [ProjectId -> Lifecycle]
  BY BecomesProject DEF Lifecycle
<1> HIDE DEF Q
<1>3. task \in [TaskId -> Row] /\ \A t \in TaskId : MarksKept(task[t], task[t])
  BY DEF WiredDb, Sound, MarksKept
<1>4. Prepared(db, Rec(task, dep, Q))
  BY <1>2, <1>3, MarkedRowsPrepared
<1> QED
  BY <1>1, <1>4, WriteStepped

LEMMA TakenByMarks ==
  ASSUME NEW row \in Row, row.state = "live", NEW p \in ProjectId
  PROVE  TakenBy(row, p) \in Row /\ MarksKept(TakenBy(row, p), row)
<1> DEFINE new == TakenBy(row, p)
<1>1. new \in Row
  BY DEF TakenBy, Row, Lifecycle
<1>2. new.state = "trashed" /\ new.skipped = row.skipped /\ new.parent = row.parent
  BY DEF TakenBy, Row
<1>3. /\ new.series = row.series /\ new.due = row.due /\ new.repeat = row.repeat
      /\ new.dwt = row.dwt
  BY DEF TakenBy, Row
<1> HIDE DEF new
<1> QED
  BY <1>1, <1>2, <1>3 DEF MarksKept, InOrder, Unmarked, new

LEMMA SoftDeleteProjectPrepared ==
  ASSUME WiredDb, NEW p \in ProjectId
  PROVE  Prepared(db, TrashedWithProject(db, p))
<1> DEFINE A == ProjectTasks(db, p)
           S == TrashedWithProject(db, p)
           T == [t \in TaskId |-> IF t \in A THEN TakenBy(task[t], p) ELSE task[t]]
<1>2. db \in Store /\ db.task = task /\ db.dep = dep /\ db.project = project
  BY DbFacts
<1>3. S = Rec(T, dep, project)
  <2>1. S = OnTask(db, T)
    BY <1>2 DEF TrashedWithProject, OnTask, TakenBy
  <2> HIDE DEF S, T
  <2> QED
    BY <1>2, <2>1, OnTaskRec
<1>4. ASSUME NEW t \in TaskId
      PROVE  T[t] \in Row /\ MarksKept(T[t], task[t])
  <2>1. CASE t \in A
    <3>1. task[t].state = "live" /\ task[t] \in Row
      BY <1>2, <2>1, DbFacts DEF ProjectTasks, Live
    <3>2. T[t] = TakenBy(task[t], p)
      BY <2>1
    <3> HIDE DEF T
    <3> QED
      BY <3>1, <3>2, TakenByMarks
  <2>2. CASE t \notin A
    <3>1. T[t] = task[t] /\ task[t] \in Row
      BY <2>2, DbFacts
    <3> HIDE DEF T
    <3> QED
      BY <3>1 DEF MarksKept
  <2> QED
    BY <2>1, <2>2
<1>5. T \in [TaskId -> Row]
  BY <1>4
<1> HIDE DEF T, S
<1>6. project \in [ProjectId -> Lifecycle]
  BY DEF WiredDb, Sound
<1>7. Prepared(db, S)
  BY <1>3, <1>4, <1>5, <1>6, MarkedRowsPrepared
<1> QED
  BY <1>7 DEF S

LEMMA SoftDeleteProjectStepped ==
  ASSUME WiredDb, NEW p \in ProjectId, SoftDeleteProject(p)
  PROVE  Stepped
<1> DEFINE S == TrashedWithProject(db, p)
           seeds == ProjectNeighbours(db, p)
           R == Reconcile(S, seeds)
           Q == Becomes(R.project, p, "trashed")
<1>1. CanReconcile(S, seeds) /\ Write([R EXCEPT !.project[p] = "trashed"])
  BY DEF SoftDeleteProject
<1>2. Prepared(db, S)
  BY SoftDeleteProjectPrepared
<1> HIDE DEF S
<1>8. Prepared(db, R)
  BY <1>1, <1>2, ReconcilePrepared
<1> HIDE DEF R
<1>9. R \in Store
  BY <1>8 DEF Prepared, Wired
<1>10. [R EXCEPT !.project[p] = "trashed"] = Rec(R.task, R.dep, Q)
  BY <1>9 DEF Rec, Becomes, Store
<1>11. Write(Rec(R.task, R.dep, Q))
  BY <1>1, <1>10
<1>12. Q \in [ProjectId -> Lifecycle] /\ R.task \in [TaskId -> Row]
  BY <1>9 DEF Becomes, Store, Lifecycle
<1> HIDE DEF Q
<1>13. Rec(R.task, R.dep, Q) \in Store
  BY <1>9, <1>12 DEF Rec, Store
<1>14. db' = Rec(R.task, R.dep, Q)
  BY <1>11, <1>13, WrittenStore
<1>15. db'.task = R.task /\ db'.dep = R.dep /\ db' \in Store
  BY <1>13, <1>14 DEF Rec
<1> DEFINE B == db'
<1> HIDE DEF B
<1>16. B.task = R.task /\ B.dep = R.dep /\ B \in Store
  BY <1>15 DEF B
<1>17. Rows(B) = Rows(R) /\ Live(B) = Live(R)
  BY <1>16 DEF Rows, Live
<1>18. StoredWaits(B) = StoredWaits(R)
  BY <1>16, <1>17 DEF StoredWaits, StoredNesting
<1>19. Wired(B) /\ Follows(db, B)
  BY <1>8, <1>16, <1>17, <1>18 DEF Prepared, Wired, Follows, Remembered, Occurrences,
     AllInOrder
<1> QED
  BY <1>19 DEF Stepped, B

LEMMA GivenBackMarks ==
  ASSUME NEW row \in Row, row.state = "trashed", row.dwt = None, ~row.skipped,
         ~row.superseded
  PROVE  GivenBack(row) \in Row /\ MarksKept(GivenBack(row), row)
<1> DEFINE new == GivenBack(row)
<1>1. new \in Row
  BY DEF GivenBack, Row, Lifecycle
<1>2. new.state = "live" /\ new.skipped = row.skipped /\ new.parent = row.parent
  BY DEF GivenBack, Row
<1>3. new.series = row.series /\ new.due = row.due /\ new.repeat = row.repeat
  BY DEF GivenBack, Row
<1>4. new.dwt = row.dwt /\ new.dwp = None /\ new.superseded = row.superseded
  BY DEF GivenBack, Row
<1> HIDE DEF new
<1> QED
  BY <1>1, <1>2, <1>3, <1>4 DEF MarksKept, InOrder, Unmarked, new

\* The project p and the tasks that it took with it, live again.
BroughtBack(p) ==
  [db EXCEPT
     !.project[p] = "live",
     !.task = [t \in TaskId |-> IF t \in ProjectCascade(db, p)
                                THEN [task[t] EXCEPT !.state = "live", !.dwp = None]
                                ELSE task[t]]]

LEMMA RestoreProjectWithTasksPrepared ==
  ASSUME WiredDb, NEW p \in ProjectId
  PROVE  Prepared(db, BroughtBack(p))
<1> DEFINE A == ProjectCascade(db, p)
           T == [t \in TaskId |-> IF t \in A THEN GivenBack(task[t]) ELSE task[t]]
           Q == Becomes(project, p, "live")
           S == BroughtBack(p)
<1>2. S = Rec(T, dep, Q)
  <2>1. S = Refiled(db, p, "live", T)
    BY DEF GivenBack, Refiled, BroughtBack
  <2> HIDE DEF S, T
  <2> QED
    BY <2>1, DbRec, RefiledRec
<1> HIDE DEF S
<1>3. Q \in [ProjectId -> Lifecycle]
  BY BecomesProject DEF Lifecycle
<1> HIDE DEF Q
<1>4. ASSUME NEW t \in TaskId
      PROVE  T[t] \in Row /\ MarksKept(T[t], task[t])
  <2>1. CASE t \in A
    <3>1. /\ task[t].state = "trashed" /\ task[t] \in Row /\ task[t].dwp = p
          /\ RowSound(task[t], Present(task), project)
      BY <2>1, DbFacts DEF ProjectCascade, Trashed
    <3>3. task[t].dwt = None /\ ~task[t].skipped /\ ~task[t].superseded
      BY <3>1, RowBounds DEF RowSound, ProjectId, None
    <3>2. T[t] = GivenBack(task[t])
      BY <2>1
    <3> HIDE DEF T
    <3> QED
      BY <3>1, <3>2, <3>3, GivenBackMarks
  <2>2. CASE t \notin A
    <3>1. T[t] = task[t] /\ task[t] \in Row
      BY <2>2, DbFacts
    <3> HIDE DEF T
    <3> QED
      BY <3>1 DEF MarksKept
  <2> QED
    BY <2>1, <2>2
<1>5. T \in [TaskId -> Row]
  BY <1>4
<1> HIDE DEF T
<1>6. Prepared(db, S)
  BY <1>2, <1>3, <1>4, <1>5, MarkedRowsPrepared
<1> QED
  BY <1>6 DEF S

LEMMA RestoreProjectWithTasksStepped ==
  ASSUME WiredDb, NEW p \in ProjectId, RestoreProjectWithTasks(p)
  PROVE  Stepped
<1>1. Commit(BroughtBack(p), ProjectCascade(db, p))
  BY DEF RestoreProjectWithTasks, BroughtBack
<1> QED
  BY <1>1, RestoreProjectWithTasksPrepared, CommitStepped

LEMMA RestoreProjectAloneStepped ==
  ASSUME WiredDb, NEW p \in ProjectId, RestoreProjectAlone(p)
  PROVE  Stepped
<1> DEFINE T == LetGo(task, p)
           Q == Becomes(project, p, "live")
<1>1. /\ Write([db EXCEPT
                  !.project[p] = "live",
                  !.task = [t \in TaskId |-> IF task[t].dwp = p
                                             THEN [task[t] EXCEPT !.dwp = None] ELSE task[t]]])
  BY DEF RestoreProjectAlone
<1>2. [db EXCEPT
         !.project[p] = "live",
         !.task = [t \in TaskId |-> IF task[t].dwp = p
                                    THEN [task[t] EXCEPT !.dwp = None] ELSE task[t]]]
        = Rec(T, dep, Q)
  <2>1. [t \in TaskId |-> IF task[t].dwp = p THEN [task[t] EXCEPT !.dwp = None] ELSE task[t]] = T
    BY DEF LetGo, Unbound
  <2> HIDE DEF T
  <2>2. Refiled(db, p, "live", T) = Rec(T, dep, Q)
    BY DbRec, RefiledRec
  <2> QED
    BY <2>1, <2>2 DEF Refiled
<1>3. Q \in [ProjectId -> Lifecycle]
  BY BecomesProject DEF Lifecycle
<1> HIDE DEF Q
<1>4. T \in [TaskId -> Row] /\ \A t \in TaskId : MarksKept(T[t], task[t])
  <2>1. task \in [TaskId -> Row]
    BY DEF WiredDb, Sound
  <2> QED
    BY <2>1, LetGoShape DEF MarksKept
<1> HIDE DEF T
<1>5. Prepared(db, Rec(T, dep, Q))
  BY <1>3, <1>4, MarkedRowsPrepared
<1> QED
  BY <1>1, <1>2, <1>5, WriteStepped

-----------------------------------------------------------------------------
(* New edges: a task is created below another, moved, or linked             *)

\* Row t is put in place, below a row that does not wait on it.
LEMMA PlacedWired ==
  ASSUME WiredDb, NEW S \in Store, NEW t \in TaskId, Rows(S) = Rows(db) \cup {t},
         \A u \in Rows(S) \ {t} : S.task[u].parent = task[u].parent,
         S.dep = dep,
         \/ S.task[t].parent = None
         \/ t \in Rows(db) /\ S.task[t].parent = task[t].parent
         \/ /\ S.task[t].parent \in Rows(db)
            /\ S.task[t].parent \notin Reach(StoredWaits(db), {t})
  PROVE  Wired(S)
<1> DEFINE E == StoredWaits(db)
           q == S.task[t].parent
           F == StoredWaits(S)
<1>1. /\ db \in Store /\ db.task = task /\ db.dep = dep /\ Wired(db)
      /\ Rows(db) \subseteq TaskId
  BY DbFacts
<1>2. /\ E \in SUBSET (TaskId \X TaskId) /\ Acyclic(E) /\ E \in SUBSET (Rows(db) \X Rows(db))
      /\ dep \subseteq E
      /\ \A u \in Rows(db) : task[u].parent # None => <<task[u].parent, u>> \in E
  BY <1>1, WiredEdges DEF Wired
<1>3. \A e \in F : e \in E \/ (e = <<q, t>> /\ q # None)
  <2> SUFFICES ASSUME NEW e \in F
               PROVE  e \in E \/ (e = <<q, t>> /\ q # None)
    OBVIOUS
  <2>1. CASE e \in S.dep
    BY <1>2, <2>1
  <2>2. CASE e \notin S.dep
    <3>1. PICK c \in Rows(S) : S.task[c].parent # None /\ e = <<S.task[c].parent, c>>
      BY <2>2 DEF StoredWaits, StoredNesting
    <3>2. CASE c = t
      BY <3>1, <3>2
    <3>3. CASE c # t
      <4>1. c \in Rows(db) /\ S.task[c].parent = task[c].parent
        BY <3>3
      <4> QED
        BY <1>2, <3>1, <4>1
    <3> QED
      BY <3>2, <3>3
  <2> QED
    BY <2>1, <2>2
<1> HIDE DEF E, F, q
<1>4. CASE q = None \/ (t \in Rows(db) /\ q = task[t].parent)
  <2>1. F \in SUBSET E
    BY <1>2, <1>3, <1>4
  <2>2. Acyclic(F)
    BY <1>2, <2>1, FewerEdgesAcyclic
  <2>3. F \in SUBSET (Rows(S) \X Rows(S))
    BY <1>2, <2>1
  <2> QED
    BY <2>2, <2>3 DEF Wired, F
<1>5. CASE q \in Rows(db) /\ q \notin Reach(E, {t})
  <2> DEFINE G == E \cup {<<q, t>>}
  <2>1. q \in TaskId
    BY <1>1, <1>5
  <2>2. Acyclic(G) /\ G \in SUBSET (TaskId \X TaskId) /\ F \in SUBSET G
    BY <1>2, <1>3, <1>5, <2>1, AddedEdgeAcyclic
  <2>3. F \in SUBSET (Rows(S) \X Rows(S))
    BY <1>2, <1>5, <2>2
  <2> HIDE DEF G
  <2>4. Acyclic(F)
    BY <2>2, FewerEdgesAcyclic
  <2> QED
    BY <2>3, <2>4 DEF Wired, F
<1> QED
  BY <1>4, <1>5 DEF q, E

LEMMA CreateTaskPrepared ==
  ASSUME WiredDb, NEW id, NEW n \in NewTasks, CreateTask(id, n)
  PROVE  /\ Prepared(db, [db EXCEPT !.task[id] = NewRow(db, n)])
         /\ id \in TaskId /\ id \notin Rows(db)
<1>1. id \in TaskId /\ id \notin Present(task)
  BY TakenFree, DbFacts, RowBounds DEF CreateTask, NextId, FreeIds, TaskId
<1> DEFINE has == n.parent \in Live(db)
           p == IF n.project # None THEN n.project
                ELSE IF has THEN task[n.parent].project ELSE General
           d == IF n.due = None /\ has THEN task[n.parent].due ELSE n.due
           s == n.status
           q == n.parent
           row == Posted(s, q, p, d)
           T == Replaced(task, id, row)
<1>2. /\ n.project \in ProjectId \cup {None} /\ n.parent \in TaskId \cup {None}
      /\ n.due \in Date \cup {None} /\ n.status \in WorkflowStatus
  BY RequestShapes
<1>3. has => task[n.parent] \in Row
  BY DbFacts DEF Live
<1>4. p \in ProjectId /\ d \in Date \cup {None} /\ s \in WorkflowStatus /\ q \in TaskId \cup {None}
  <2>1. General \in ProjectId
    BY RowBounds DEF General, ProjectId
  <2> QED
    BY <1>2, <1>3, <2>1 DEF Row
<1>5. NewRow(db, n) = row
  BY DbFacts DEF NewRow, Posted
<1>6. q = None \/ q \in Rows(db)
  BY DbFacts DEF CreateTask, Live, Rows
<1> HIDE DEF p, d, s, q
<1>7. /\ row \in Row /\ row.state = "live" /\ Unmarked(row)
      /\ row.parent = q /\ row.series = None /\ row.repeat = 0
  BY <1>4, PostedShape
<1> HIDE DEF row
<1>8. /\ T \in [TaskId -> Row] /\ T[id] = row
      /\ \A u \in TaskId : u # id => T[u] = task[u]
  BY <1>1, <1>7 DEF Replaced, WiredDb, Sound
<1>9. [db EXCEPT !.task[id] = row] = Rec(T, dep, project)
  BY DEF db, Rec, Replaced
<1> HIDE DEF T
<1> DEFINE S == Rec(T, dep, project)
<1>10. S.task = T /\ S.dep = dep /\ S \in Store
  <2>1. dep \in SUBSET (TaskId \X TaskId) /\ project \in [ProjectId -> Lifecycle]
    BY DbFacts DEF Store
  <2> QED
    BY <1>8, <2>1 DEF Rec, Store
<1>11. [db EXCEPT !.task[id] = NewRow(db, n)] = S
  BY <1>5, <1>9
<1> HIDE DEF S
<1>12. /\ db.task = task /\ db.dep = dep /\ Rows(db) = Present(task) /\ Rows(db) \subseteq TaskId
       /\ Wired(db)
  BY DbFacts
<1>13. Rows(S) = Rows(db) \cup {id}
  BY <1>1, <1>7, <1>8, <1>10, <1>12 DEF Rows, Present
<1>14. q \notin Rows(db) \/ q \notin Reach(StoredWaits(db), {id})
  <2>1. StoredWaits(db) \in SUBSET (Rows(db) \X Rows(db))
    BY <1>12 DEF Wired
  <2>2. id \notin Rows(db)
    BY <1>1, <1>12
  <2>3. {id} \in SUBSET TaskId /\ Closed(StoredWaits(db), {id})
    BY <1>1, <2>1, <2>2 DEF Closed
  <2>4. Reach(StoredWaits(db), {id}) \subseteq {id}
    BY <2>3, ReachLeast
  <2> QED
    BY <2>2, <2>4
<1>15. Wired(S)
  <2>1. \A u \in Rows(S) \ {id} : S.task[u].parent = task[u].parent
    BY <1>8, <1>10, <1>12, <1>13
  <2>2. S.task[id].parent = q
    BY <1>7, <1>8, <1>10
  <2> QED
    BY <1>1, <1>6, <1>10, <1>13, <1>14, <2>1, <2>2, PlacedWired
<1>16. Follows(db, S)
  <2>1. \A t \in Rows(db) : S.task[t] = task[t]
    BY <1>1, <1>8, <1>10, <1>12
  <2>2. \A t \in Rows(S) \ Rows(db) : S.task[t].series = None
    BY <1>7, <1>8, <1>10, <1>13
  <2>3. InOrder(row)
    BY <1>7 DEF InOrder, Unmarked
  <2>4. AllInOrder(db) => AllInOrder(S)
    BY <1>8, <1>10, <1>12, <2>3 DEF AllInOrder
  <2> QED
    BY <1>10, <1>12, <2>1, <2>2, <2>4 DEF Follows, Remembered
<1>17. Prepared(db, S)
  BY <1>13, <1>15, <1>16 DEF Prepared
<1> QED
  BY <1>1, <1>11, <1>12, <1>17

LEMMA CreateTaskStepped ==
  ASSUME WiredDb, NEW id, NEW n \in NewTasks, CreateTask(id, n)
  PROVE  Stepped
  BY CreateTaskPrepared, CommitStepped DEF CreateTask

LEMMA AddDependencyStepped ==
  ASSUME WiredDb, NEW t, NEW b, AddDependency(t, b)
  PROVE  Stepped
<1> DEFINE D == dep \cup {<<t, b>>}
           S == Rec(task, D, project)
<1>1. Write([db EXCEPT !.dep = @ \cup {<<t, b>>}])
  BY DEF AddDependency
<1>2. [db EXCEPT !.dep = @ \cup {<<t, b>>}] = S
  BY DEF db, Rec
<1>3. /\ db \in Store /\ db.task = task /\ db.dep = dep /\ Wired(db)
      /\ Rows(db) \subseteq TaskId
  BY DbFacts
<1>4. t \in Rows(db) /\ b \in Rows(db) /\ t \notin Reach(StoredWaits(db), {b})
  BY <1>3 DEF AddDependency, WaitsOn, Live, Rows
<1>5. S.task = task /\ S.dep = D /\ S \in Store
  <2>1. /\ task \in [TaskId -> Row] /\ project \in [ProjectId -> Lifecycle]
        /\ D \in SUBSET (TaskId \X TaskId)
    <3>1. task \in [TaskId -> Row] /\ project \in [ProjectId -> Lifecycle]
      BY DEF WiredDb, Sound
    <3>2. dep \in SUBSET (TaskId \X TaskId) /\ t \in TaskId /\ b \in TaskId
      BY <1>3, <1>4 DEF Store
    <3> QED
      BY <3>1, <3>2
  <2> QED
    BY <2>1 DEF Rec, Store
<1> HIDE DEF S
<1>6. Rows(S) = Rows(db)
  BY <1>3, <1>5 DEF Rows
<1>7. StoredWaits(S) = StoredWaits(db) \cup {<<t, b>>}
  <2>1. StoredNesting(S) = StoredNesting(db)
    BY <1>3, <1>5, <1>6 DEF StoredNesting
  <2> QED
    BY <1>3, <1>5, <2>1 DEF StoredWaits
<1>8. Wired(S)
  <2>1. /\ StoredWaits(db) \in SUBSET (TaskId \X TaskId) /\ Acyclic(StoredWaits(db))
        /\ StoredWaits(db) \in SUBSET (Rows(db) \X Rows(db))
    BY <1>3, WiredEdges DEF Wired
  <2>2. t \in TaskId /\ b \in TaskId
    BY <1>3, <1>4
  <2>3. Acyclic(StoredWaits(S))
    BY <1>4, <1>7, <2>1, <2>2, AddedEdgeAcyclic
  <2> QED
    BY <1>4, <1>5, <1>6, <1>7, <2>1, <2>3 DEF Wired
<1>9. Follows(db, S)
  BY <1>3, <1>4, <1>5, <1>6 DEF Follows, Remembered, AllInOrder
<1> QED
  BY <1>1, <1>2, <1>6, <1>8, <1>9, WriteStepped DEF Prepared

LEMMA EditedRowParent ==
  ASSUME NEW t \in TaskId, task[t] \in Row, db.task = task, NEW f
  PROVE  EditedRow(db, t, f).parent = Patched(f, "parent", task[t].parent)
<1> DEFINE old == task[t]
           s == LandingStatus(db, t, f)
           q == Patched(f, "parent", old.parent)
           p == IF Given(f, "project") /\ f.project = None THEN General
                ELSE Patched(f, "project", old.project)
           d == Patched(f, "due", old.due)
           e == Patched(f, "repeat", old.repeat)
<1>1. EditedRow(db, t, f) = Retouched(old, s, q, p, d, e)
  BY DEF EditedRow, Retouched
<1>2. old \in Row
  OBVIOUS
<1> HIDE DEF old, s, q, p, d, e
<1>3. Retouched(old, s, q, p, d, e).parent = q
  BY <1>2 DEF Retouched, Row
<1> QED
  BY <1>1, <1>3 DEF q, old

\* A move is checked against the stored graph unless the parent stays the same.
LEMMA MovedParent ==
  ASSUME WiredDb, NEW t, NEW f \in Patches, UpdateTask(t, f), NEW q,
         q = Patched(f, "parent", task[t].parent)
  PROVE  \/ q = None
         \/ q = task[t].parent
         \/ q \in Rows(db) /\ q \notin Reach(StoredWaits(db), {t})
<1>1. CASE Given(f, "parent") /\ f.parent # None
  <2>1. MoveAllowed(db, t, f.parent) /\ q = f.parent /\ db.task = task
    BY <1>1, DbFacts DEF UpdateTask, Patched
  <2> QED
    BY <2>1 DEF MoveAllowed, WaitsOn, Live, Rows
<1>2. CASE ~(Given(f, "parent") /\ f.parent # None)
  BY <1>2 DEF Patched
<1> QED
  BY <1>1, <1>2

LEMMA WithRepeatMarks ==
  ASSUME NEW row \in Row, NEW every \in 0..MaxEvery
  PROVE  /\ WithRepeat(row, every) \in Row
         /\ WithRepeat(row, every).state = row.state
         /\ WithRepeat(row, every).parent = row.parent
         /\ WithRepeat(row, every).series = row.series
         /\ WithRepeat(row, every).due = row.due
         /\ WithRepeat(row, every).skipped = row.skipped
         /\ InOrder(row) /\ row.due # None => InOrder(WithRepeat(row, every))
<1> DEFINE new == WithRepeat(row, every)
<1>1. new \in Row
  BY DEF WithRepeat, Row
<1>2. new.state = row.state /\ new.parent = row.parent /\ new.series = row.series
  BY DEF WithRepeat, Row
<1>3. new.due = row.due /\ new.skipped = row.skipped
  BY DEF WithRepeat, Row
<1>4. new.dwt = row.dwt /\ new.dwp = row.dwp /\ new.superseded = row.superseded
  BY DEF WithRepeat, Row
<1> HIDE DEF new
<1>5. InOrder(row) /\ row.due # None => InOrder(new)
  BY <1>2, <1>3, <1>4 DEF InOrder, Unmarked
<1> QED
  BY <1>1, <1>2, <1>3, <1>5 DEF new

LEMMA UpdateTaskPrepared ==
  ASSUME WiredDb, NEW t, NEW f \in Patches, UpdateTask(t, f)
  PROVE  Prepared(db, Edited(db, t, f))
<1> DEFINE bare == EditedRow(db, t, f)
           series == IF bare.repeat # 0 /\ bare.series = None
                     THEN CHOOSE s \in FreshSeries(db) : TRUE ELSE bare.series
           new == Minted(bare, series)
           every == IF Given(f, "repeat") THEN f.repeat ELSE 0
           T == Replaced(task, t, new)
           S1 == [db EXCEPT !.task[t] = new]
           fwd == IF EditsFuture(f) /\ Given(f, "repeat") /\ new.due # None
                  THEN LaterOccurrences(S1, t, new.due) ELSE {}
           U == Reinterval(T, fwd, every)
           S == Rec(U, dep, project)
<1>1. /\ t \in Live(db) /\ bare \in Row /\ bare.state = "live" /\ Unmarked(bare)
      /\ bare.series = task[t].series
      /\ bare.repeat # 0 => bare.due # None
  BY EditedRowShape DEF WiredDb
<1>2. /\ t \in TaskId /\ t \in Rows(db) /\ db.task = task /\ db.dep = dep
      /\ task[t] \in Row /\ task[t].state = "live" /\ Rows(db) = Present(task)
      /\ db \in Store
  BY <1>1, DbFacts DEF Live, Rows
<1>3. series \in Series \cup {None}
  <2>1. CASE bare.repeat # 0 /\ bare.series = None
    <3>1. FreshSeries(db) # {}
      BY <1>1, <2>1 DEF UpdateTask
    <3>2. series \in FreshSeries(db)
      BY <2>1, <3>1
    <3> QED
      BY <3>2 DEF FreshSeries
  <2>2. CASE ~(bare.repeat # 0 /\ bare.series = None)
    BY <1>1, <2>2 DEF Row
  <2> QED
    BY <2>1, <2>2
<1>4. Edited(db, t, f) = S
  <2>1. WithSeries(db, bare) = new
    BY DEF WithSeries, Minted
  <2>2. S1.task = T /\ S1.dep = dep /\ S1.project = project
    BY DEF db, Replaced
  <2>3. fwd # {} => every = f.repeat
    OBVIOUS
  <2>4. Edited(db, t, f) =
          [S1 EXCEPT !.task = [u \in TaskId |-> IF u \in fwd
                                                THEN [S1.task[u] EXCEPT !.repeat = f.repeat]
                                                ELSE S1.task[u]]]
    BY <2>1 DEF Edited
  <2>5. Edited(db, t, f) = [S1 EXCEPT !.task = Reinterval(S1.task, fwd, f.repeat)]
    BY <2>4 DEF Reinterval, WithRepeat
  <2>6. S1 = Rec(T, dep, project)
    BY DEF db, Rec, Replaced
  <2> HIDE DEF fwd, every, S1, T
  <2>7. Reinterval(S1.task, fwd, f.repeat) = U
    BY <2>2, <2>3 DEF Reinterval
  <2> HIDE DEF U
  <2> QED
    BY <2>5, <2>6, <2>7 DEF Rec
<1>5. bare.parent = Patched(f, "parent", task[t].parent)
  BY <1>2, EditedRowParent
<1> HIDE DEF bare, series
<1>6. /\ new \in Row /\ new.state = "live" /\ new.parent = bare.parent /\ Unmarked(new)
      /\ new.repeat # 0 => new.due # None
  BY <1>1, <1>3, MintedShape
<1> HIDE DEF new
<1>7. every \in 0..MaxEvery
  BY RequestShapes, RowBounds DEF Given
<1>7a. \A u \in fwd : T[u].due # None
  <2>1. S1.task = T
    BY DEF db, Replaced
  <2> HIDE DEF S1, T
  <2> QED
    BY <2>1 DEF LaterOccurrences
<1> HIDE DEF every, S1, fwd
<1>8. /\ T \in [TaskId -> Row] /\ T[t] = new
      /\ \A u \in TaskId : u # t => T[u] = task[u]
  BY <1>2, <1>6 DEF Replaced, WiredDb, Sound
<1> HIDE DEF T
<1>9. /\ \A u \in TaskId : U[u] = IF u \in fwd THEN WithRepeat(T[u], every) ELSE T[u]
      /\ U = [u \in TaskId |-> U[u]]
  BY DEF Reinterval
<1> HIDE DEF U
<1>10. ASSUME NEW u \in TaskId
       PROVE  /\ U[u] \in Row /\ U[u].state = T[u].state /\ U[u].parent = T[u].parent
              /\ U[u].series = T[u].series /\ U[u].due = T[u].due
              /\ U[u].skipped = T[u].skipped
              /\ InOrder(T[u]) => InOrder(U[u])
  <2>1. T[u] \in Row
    BY <1>8
  <2>2. CASE u \in fwd
    <3>1. U[u] = WithRepeat(T[u], every)
      BY <1>9, <2>2
    <3> QED
      BY <1>7, <1>7a, <2>1, <2>2, <3>1, WithRepeatMarks
  <2>3. CASE u \notin fwd
    BY <1>9, <2>1, <2>3
  <2> QED
    BY <2>2, <2>3
<1>11. S.task = U /\ S.dep = dep /\ S \in Store
  <2>1. U \in [TaskId -> Row]
    BY <1>9, <1>10
  <2>2. dep \in SUBSET (TaskId \X TaskId) /\ project \in [ProjectId -> Lifecycle]
    BY <1>2, DbFacts DEF Store
  <2> QED
    BY <2>1, <2>2 DEF Rec, Store
<1>12. Edited(db, t, f) = S
  BY <1>4
<1> HIDE DEF S
<1>13. Rows(S) = Rows(db) /\ Rows(db) \subseteq TaskId
  BY <1>2, <1>6, <1>8, <1>10, <1>11 DEF Rows
<1>14. Wired(S)
  <2>1. \A u \in Rows(S) \ {t} : S.task[u].parent = task[u].parent
    BY <1>8, <1>10, <1>11, <1>13
  <2>2. S.task[t].parent = bare.parent
    BY <1>2, <1>6, <1>8, <1>10, <1>11
  <2>3. \/ bare.parent = None
        \/ bare.parent = task[t].parent
        \/ bare.parent \in Rows(db) /\ bare.parent \notin Reach(StoredWaits(db), {t})
    BY <1>5, MovedParent
  <2>4. Rows(S) = Rows(db) \cup {t}
    BY <1>2, <1>13
  <2> QED
    BY <1>2, <1>11, <2>1, <2>2, <2>3, <2>4, PlacedWired
<1>15. Follows(db, S)
  <2>1. ASSUME NEW u \in Rows(db), task[u].skipped
        PROVE  Remembered(db, S, u)
    <3>1. u \in TaskId /\ u # t
      BY <1>2, <1>13, <2>1, OnlyTrashIsSkipped
    <3>2. /\ U[u].skipped = task[u].skipped /\ U[u].series = task[u].series
          /\ U[u].due = task[u].due
      BY <1>8, <1>10, <3>1
    <3> QED
      BY <1>2, <1>11, <2>1, <3>2 DEF Remembered
  <2>2. InOrder(new)
    BY <1>6 DEF InOrder, Unmarked
  <2>3. AllInOrder(db) => AllInOrder(S)
    BY <1>2, <1>8, <1>10, <1>11, <2>2 DEF AllInOrder
  <2> QED
    BY <1>2, <1>11, <1>13, <2>1, <2>3 DEF Follows
<1>16. Prepared(db, S)
  BY <1>13, <1>14, <1>15 DEF Prepared
<1> QED
  BY <1>12, <1>16

LEMMA UpdateTaskStepped ==
  ASSUME WiredDb, NEW t, NEW f \in Patches, UpdateTask(t, f)
  PROVE  Stepped
<1>1. Commit(Edited(db, t, f), EditSeeds(db, t, f))
  BY DEF UpdateTask
<1> QED
  BY <1>1, UpdateTaskPrepared, CommitStepped

-----------------------------------------------------------------------------
(* The step, and what it gives                                              *)

LEMMA NextStepped ==
  ASSUME WiredDb, Next
  PROVE  Stepped
<1>1. ASSUME NEW id \in 1..MaxPosted, NEW n \in NewTasks, CreateTask(id, n)
      PROVE  Stepped
  BY <1>1, CreateTaskStepped
<1>2. ASSUME NEW t \in TaskId, NEW f \in Patches, UpdateTask(t, f)
      PROVE  Stepped
  BY <1>2, UpdateTaskStepped
<1>3. ASSUME NEW t \in TaskId, MarkDone(t)
      PROVE  Stepped
  BY <1>3, MarkDoneStepped
<1>4. ASSUME NEW t \in TaskId, ReopenTask(t)
      PROVE  Stepped
  BY <1>4, ReopenTaskStepped
<1>5. ASSUME NEW t \in TaskId, SoftDeleteTask(t)
      PROVE  Stepped
  BY <1>5, SoftDeleteTaskStepped
<1>6. ASSUME NEW t \in TaskId, SkipOccurrence(t)
      PROVE  Stepped
  BY <1>6, SkipOccurrenceStepped
<1>7. ASSUME NEW t \in TaskId, StopRecurrence(t)
      PROVE  Stepped
  BY <1>7, StopRecurrenceStepped
<1>8. ASSUME NEW t \in 1..MaxPosted, NEW b \in 1..MaxPosted, AddDependency(t, b)
      PROVE  Stepped
  BY <1>8, AddDependencyStepped
<1>9. ASSUME NEW e \in TaskId \X TaskId, RemoveDependency(e)
      PROVE  Stepped
  BY <1>9, RemoveDependencyStepped
<1>10. ASSUME NEW t \in TaskId, RestoreTask(t)
       PROVE  Stepped
  BY <1>10, RestoreTaskStepped
<1>11. ASSUME NEW t \in TaskId, RestoreTaskSubtree(t)
       PROVE  Stepped
  BY <1>11, RestoreTaskSubtreeStepped
<1>12. ASSUME NEW t \in TaskId, PurgeTask(t)
       PROVE  Stepped
  BY <1>12, PurgeTaskStepped
<1>13. ASSUME NEW p \in ProjectId, CreateProject(p)
       PROVE  Stepped
  BY <1>13, CreateProjectStepped
<1>14. ASSUME NEW p \in ProjectId, SoftDeleteProject(p)
       PROVE  Stepped
  BY <1>14, SoftDeleteProjectStepped
<1>15. ASSUME NEW p \in ProjectId, RestoreProjectWithTasks(p)
       PROVE  Stepped
  BY <1>15, RestoreProjectWithTasksStepped
<1>16. ASSUME NEW p \in ProjectId, RestoreProjectAlone(p)
       PROVE  Stepped
  BY <1>16, RestoreProjectAloneStepped
<1>17. ASSUME NEW p \in ProjectId, PurgeProject(p)
       PROVE  Stepped
  BY <1>17, PurgeProjectStepped
<1> QED
  BY <1>1, <1>2, <1>3, <1>4, <1>5, <1>6, <1>7, <1>8, <1>9, <1>10, <1>11, <1>12, <1>13,
     <1>14, <1>15, <1>16, <1>17 DEF Next

\* The rows are sound, and nothing waits for itself: what the next request finds.
StoreWired == StoreSound /\ WaitsAcyclic

LEMMA WiredStore ==
  ASSUME StoreWired
  PROVE  WiredDb
<1>1. /\ Sound(task, dep, project) /\ db \in Store /\ Rows(db) = Present(task)
      /\ db.task = task /\ db.dep = dep /\ Acyclic(StoredWaits(db))
  BY DbStore DEF StoreWired, StoreSound, WaitsAcyclic
<1>2. StoredWaits(db) \in SUBSET (Rows(db) \X Rows(db))
  BY <1>1 DEF StoredWaits, StoredNesting, Sound, RowSound, Present
<1> QED
  BY <1>1, <1>2 DEF WiredDb, Wired

LEMMA StepWired ==
  ASSUME StoreWired, [Next]_vars
  PROVE  StoreWired' /\ Follows(db, db')
<1>1. StoreSound'
  BY StepKept DEF StoreWired
<1>2. Stepped
  <2>1. CASE Next
    BY <2>1, WiredStore, NextStepped
  <2>2. CASE UNCHANGED vars
    <3>1. db' = db
      BY <2>2 DEF vars, db
    <3> QED
      BY <3>1, WiredStore, DbPrepared DEF Stepped, Prepared
  <2> QED
    BY <2>1, <2>2
<1>3. WaitsAcyclic'
  BY <1>2 DEF Stepped, Wired, WaitsAcyclic
<1> QED
  BY <1>1, <1>2, <1>3 DEF StoreWired, Stepped

LEMMA InitWired ==
  ASSUME Init
  PROVE  StoreWired
<1>1. StoreSound
  BY InitSound DEF StoreSound
<1>2. /\ Rows(db) = {} /\ db.dep = {}
  BY NoRowType DEF Init, DbInit, EmptyStore, db, Rows
<1>3. StoredWaits(db) = {}
  BY <1>2 DEF StoredWaits, StoredNesting
<1> QED
  BY <1>1, <1>3 DEF StoreWired, WaitsAcyclic, Acyclic

\* The inductive invariant of the requests as steps.
THEOREM StoreStaysWired == Spec => []StoreWired
<1>1. Init => StoreWired
  BY InitWired
<1>2. StoreWired /\ [Next]_vars => StoreWired'
  BY StepWired
<1> QED
  BY <1>1, <1>2, PTL DEF Spec

\* No sequence of moves, links, restores, purges and roll-forwards closes a loop
\* in the stored wait graph: the cycle guards of the PATCH handler and of
\* add_dependency see every edge a later restore can bring back.
THEOREM NothingWaitsForItself == Spec => []WaitsAcyclic
<1>1. StoreWired => WaitsAcyclic
  BY DEF StoreWired
<1> QED
  BY <1>1, StoreStaysWired, PTL

\* No request leaves a row out of order.
THEOREM RowsStayInOrder == Spec => []AllInOrder(db)
<1>1. Init => AllInOrder(db)
  <2> SUFFICES ASSUME Init, NEW t \in TaskId
               PROVE  InOrder(db.task[t])
    BY DEF AllInOrder
  <2>1. db.task[t] = NoRow
    BY DEF Init, DbInit, EmptyStore, db
  <2> QED
    BY <2>1, NoRowType DEF InOrder, Unmarked, NoRow
<1>2. StoreWired /\ AllInOrder(db) /\ [Next]_vars => AllInOrder(db)'
  BY StepWired DEF Follows, AllInOrder
<1> QED
  BY <1>1, <1>2, StoreStaysWired, PTL DEF Spec

\* The trash bookkeeping never contradicts itself: what took a row into the trash
\* is recorded once, a live row carries no record of it, and a row that a project
\* took is found again in that project.
THEOREM MarkersStayTruthful == Spec => []TrashMarkersTruthful
<1>1. StoreWired /\ AllInOrder(db) => TrashMarkersTruthful
  <2> SUFFICES ASSUME StoreWired, AllInOrder(db), NEW t \in TaskId
               PROVE  RowSound(task[t], Present(task), project) /\ InOrder(task[t])
    BY DEF TrashMarkersTruthful, RowSound, Unmarked, InOrder
  <2> QED
    BY WiredStore, DbFacts DEF AllInOrder
<1> QED
  BY <1>1, StoreStaysWired, RowsStayInOrder, PTL

\* A row that repeats, in the trash too, can be rolled forward: it has a date and
\* a series.
THEOREM RepeatsRollForward == Spec => []RepeatHasSeriesAndDate
<1>1. StoreWired /\ AllInOrder(db) => RepeatHasSeriesAndDate
  <2> SUFFICES ASSUME StoreWired, AllInOrder(db), NEW t \in Rows(db), task[t].repeat # 0
               PROVE  task[t].series # None /\ task[t].due # None
    BY DEF RepeatHasSeriesAndDate
  <2>1. /\ t \in TaskId /\ task[t].state # "none" /\ db.task = task
        /\ RowSound(task[t], Present(task), project)
    BY WiredStore, DbFacts DEF Present
  <2> QED
    BY <2>1 DEF RowSound, AllInOrder, InOrder
<1> QED
  BY <1>1, StoreStaysWired, RowsStayInOrder, PTL

\* A roll-forward lands on no date the user skipped, whichever request ran it.
THEOREM SkipsAreHonoured == Spec => SkippedDateNotRevived
<1>1. StoreWired /\ [Next]_vars
        => [\A t \in Rows(db)' \ Rows(db) :
              task'[t].series # None
                => ~SkippedOccurrenceOn(db, task'[t].series, task'[t].due)]_vars
  <2> SUFFICES ASSUME StoreWired, [Next]_vars,
                      NEW t \in Rows(db)' \ Rows(db), task'[t].series # None
               PROVE  ~SkippedOccurrenceOn(db, task'[t].series, task'[t].due)
    OBVIOUS
  <2>1. Follows(db, db')
    BY StepWired
  <2>2. t \in Rows(db') \ Rows(db) /\ db'.task = task'
    BY DEF Rows, db
  <2> QED
    BY <2>1, <2>2 DEF Follows
<1> QED
  BY <1>1, StoreStaysWired, PTL DEF Spec, SkippedDateNotRevived

\* A date that stops being skipped has live work on it: the restored occurrence,
\* or the successor that the un-skip rewound.
THEOREM UnskipBringsWork == Spec => UnskippedDateIsLive
<1>1. StoreWired /\ [Next]_vars
        => [\A t \in Rows(db) \cap Rows(db)' :
              task[t].skipped /\ ~task'[t].skipped
                => Occurrences(db', task[t].series, task[t].due) # {}]_vars
  <2> SUFFICES ASSUME StoreWired, [Next]_vars,
                      NEW t \in Rows(db) \cap Rows(db)', task[t].skipped, ~task'[t].skipped
               PROVE  Occurrences(db', task[t].series, task[t].due) # {}
    OBVIOUS
  <2>1. Follows(db, db')
    BY StepWired
  <2>2. t \in Rows(db) \cap Rows(db') /\ db'.task = task' /\ db.task = task
    BY DEF Rows, db
  <2> QED
    BY <2>1, <2>2 DEF Follows, Remembered
<1> QED
  BY <1>1, StoreStaysWired, PTL DEF Spec, UnskippedDateIsLive

\* An edge that a step adds joins two rows that were there or two that were not:
\* a clone never waits on, or blocks, a row of an earlier occurrence.
THEOREM ClonesStayApart == Spec => ClonesKeepToThemselves
<1>1. StoreWired /\ [Next]_vars
        => [\A e \in dep' \ dep : e[1] \in Rows(db) <=> e[2] \in Rows(db)]_vars
  <2> SUFFICES ASSUME StoreWired, [Next]_vars, NEW e \in dep' \ dep
               PROVE  e[1] \in Rows(db) <=> e[2] \in Rows(db)
    OBVIOUS
  <2>1. Follows(db, db')
    BY StepWired
  <2>2. db'.dep = dep' /\ db.dep = dep
    BY DEF db
  <2> QED
    BY <2>1, <2>2 DEF Follows
<1> QED
  BY <1>1, StoreStaysWired, PTL DEF Spec, ClonesKeepToThemselves
-----------------------------------------------------------------------------
(* Effective status: the recursive roll-up is well defined where nothing      *)
(* waits for itself                                                           *)

\* Of any rows, one waits for none of the others.
LEMMA LastInLine ==
  ASSUME NEW E \in SUBSET (TaskId \X TaskId), Acyclic(E), NEW X \in SUBSET TaskId, X # {}
  PROVE  \E t \in X : \A e \in E : e[1] = t => e[2] \notin X
<1> DEFINE R(t) == Reach(E, {t})
           N == {Cardinality(R(t)) : t \in X}
<1>1. IsFiniteSet(TaskId)
  BY RowBounds, FS_Interval DEF TaskId
<1>2. ASSUME NEW t \in X
      PROVE  /\ IsFiniteSet(R(t)) /\ Cardinality(R(t)) \in Nat /\ t \in R(t)
  <2>1. t \in R(t) /\ R(t) \in SUBSET TaskId
    BY ReachHolds
  <2> HIDE DEF R
  <2> QED
    BY <1>1, <2>1, FS_Subset, FS_CardinalityType
<1>3. ASSUME NEW e \in E, e[1] \in X, e[2] \in X
      PROVE  Cardinality(R(e[2])) < Cardinality(R(e[1]))
  <2>1. R(e[2]) \subseteq R(e[1]) /\ e[1] \notin R(e[2])
    BY ReachStep DEF Acyclic
  <2>2. IsFiniteSet(R(e[1])) /\ IsFiniteSet(R(e[2])) /\ e[1] \in R(e[1])
    BY <1>2, <1>3
  <2>3. Cardinality(R(e[1])) \in Nat /\ Cardinality(R(e[2])) \in Nat
    BY <1>2, <1>3
  <2> HIDE DEF R
  <2>4. R(e[2]) # R(e[1])
    BY <2>1, <2>2
  <2>5. /\ Cardinality(R(e[2])) <= Cardinality(R(e[1]))
        /\ Cardinality(R(e[2])) = Cardinality(R(e[1])) => R(e[2]) = R(e[1])
    BY <2>1, <2>2, FS_Subset
  <2> QED
    BY <2>3, <2>4, <2>5
<1> HIDE DEF R
<1>4. N \in SUBSET Nat /\ N # {}
  BY <1>2
<1>5. PICK d \in N : \A k \in N : d <= k
  BY <1>4, LeastNatural
<1>6. PICK t \in X : d = Cardinality(R(t))
  OBVIOUS
<1>7. ASSUME NEW e \in E, e[1] = t, e[2] \in X
      PROVE  FALSE
  <2>1. Cardinality(R(e[2])) < Cardinality(R(t))
    BY <1>3, <1>7
  <2>2. Cardinality(R(t)) <= Cardinality(R(e[2]))
    BY <1>5, <1>6, <1>7
  <2>3. Cardinality(R(t)) \in Nat /\ Cardinality(R(e[2])) \in Nat
    BY <1>2, <1>7
  <2> QED
    BY <2>1, <2>2, <2>3
<1> QED
  BY <1>7

LEMMA WaitsTyped ==
  ASSUME NEW S \in Store
  PROVE  StoredWaits(S) \in SUBSET (TaskId \X TaskId)
<1>1. \A c \in Rows(S) : c \in TaskId /\ S.task[c].parent \in TaskId \cup {None}
  BY DEF Rows, Store, Row
<1>2. StoredNesting(S) \subseteq TaskId \X TaskId
  BY <1>1 DEF StoredNesting
<1> QED
  BY <1>2 DEF StoredWaits, Store

\* The subtasks whose status decides, and what Rollups takes of one row from the
\* rows it waits on.
Kids(S, t) ==
  {c \in ListSubtasks(S, t) : t \notin Reach(LiveEdges(S, StoredNesting(S)), {c})}

Blocks(S, roll, t) ==
  \E b \in Live(S) :
    /\ <<t, b>> \in S.dep
    /\ t \in Reach(LiveEdges(S, StoredWaits(S)), {b}) \/ roll[b].status # "done"

RollOf(S, roll, t) ==
  LET subtasks == RollupStatus({roll[c].status : c \in Kids(S, t)})
      own      == IF Kids(S, t) = {} THEN S.task[t].status
                  ELSE EffectiveParentStatus(subtasks, S.task[t].status)
  IN  [status   |-> CappedStatus(own, Blocks(S, roll, t)),
       subtasks |-> IF Kids(S, t) = {} THEN "leaf" ELSE subtasks,
       blocked  |-> Blocks(S, roll, t)]

\* A row's roll-up looks at the rows it waits on and no other.
LEMMA RollOfLocal ==
  ASSUME NEW S \in Store, NEW f, NEW g, NEW t \in TaskId,
         \A e \in StoredWaits(S) : e[1] = t => f[e[2]] = g[e[2]]
  PROVE  RollOf(S, f, t) = RollOf(S, g, t)
<1>1. ASSUME NEW c \in Kids(S, t)
      PROVE  f[c] = g[c]
  <2>1. c \in Rows(S) /\ S.task[c].parent = t
    BY DEF Kids, ListSubtasks, Live, Rows
  <2>2. t # None
    BY DEF TaskId, None
  <2>3. <<t, c>> \in StoredWaits(S)
    BY <2>1, <2>2 DEF StoredWaits, StoredNesting
  <2> QED
    BY <2>3
<1>2. {f[c].status : c \in Kids(S, t)} = {g[c].status : c \in Kids(S, t)}
  BY <1>1
<1>3. ASSUME NEW b \in Live(S), <<t, b>> \in S.dep
      PROVE  f[b] = g[b]
  <2>1. <<t, b>> \in StoredWaits(S)
    BY <1>3 DEF StoredWaits
  <2> QED
    BY <2>1
<1>4. Blocks(S, f, t) <=> Blocks(S, g, t)
  BY <1>3 DEF Blocks
<1>5. Blocks(S, f, t) = Blocks(S, g, t)
  BY <1>4 DEF Blocks
<1> QED
  BY <1>2, <1>5 DEF RollOf

\* The rows D can be rolled up by themselves.
RollsUp(S, D) ==
  /\ Closed(StoredWaits(S), D)
  /\ \E f : f = [t \in D |-> RollOf(S, f, t)]

LEMMA RollsFurther ==
  ASSUME NEW S \in Store, Acyclic(StoredWaits(S)), NEW D \in SUBSET TaskId, D # TaskId, RollsUp(S, D)
  PROVE  \E t \in TaskId \ D : RollsUp(S, D \cup {t})
<1>1. StoredWaits(S) \in SUBSET (TaskId \X TaskId)
  BY WaitsTyped
<1>2. PICK t \in TaskId \ D : \A e \in StoredWaits(S) : e[1] = t => e[2] \notin TaskId \ D
  BY <1>1, LastInLine
<1>3. ASSUME NEW e \in StoredWaits(S), e[1] \in D \cup {t}
      PROVE  e[2] \in D
  BY <1>1, <1>2, <1>3 DEF RollsUp, Closed
<1>4. PICK f : f = [u \in D |-> RollOf(S, f, u)]
  BY DEF RollsUp
<1> DEFINE g == [u \in D \cup {t} |-> IF u = t THEN RollOf(S, f, t) ELSE f[u]]
<1>5. \A u \in D : g[u] = f[u]
  BY <1>2
<1>6. g[t] = RollOf(S, f, t) /\ g = [u \in D \cup {t} |-> g[u]]
  OBVIOUS
<1> HIDE DEF g
<1>7. ASSUME NEW u \in D \cup {t}
      PROVE  g[u] = RollOf(S, g, u)
  <2>1. \A e \in StoredWaits(S) : e[1] = u => f[e[2]] = g[e[2]]
    BY <1>3, <1>5
  <2>2. RollOf(S, f, u) = RollOf(S, g, u)
    BY <1>1, <2>1, RollOfLocal
  <2>3. g[u] = RollOf(S, f, u)
    BY <1>4, <1>5, <1>6
  <2> QED
    BY <2>2, <2>3
<1>8. g = [u \in D \cup {t} |-> RollOf(S, g, u)]
  BY <1>6, <1>7
<1>9. Closed(StoredWaits(S), D \cup {t})
  BY <1>3 DEF Closed
<1> QED
  BY <1>8, <1>9 DEF RollsUp

\* The equation that defines the roll-up has a solution.
LEMMA AllRollUp ==
  ASSUME NEW S \in Store, Acyclic(StoredWaits(S))
  PROVE  RollsUp(S, TaskId)
<1> DEFINE G == {D \in SUBSET TaskId : RollsUp(S, D)}
           N == {Cardinality(TaskId \ D) : D \in G}
<1>1. ASSUME NEW D \in SUBSET TaskId
      PROVE  IsFiniteSet(TaskId \ D) /\ Cardinality(TaskId \ D) \in Nat
  <2>1. IsFiniteSet(TaskId) /\ TaskId \ D \subseteq TaskId
    BY RowBounds, FS_Interval DEF TaskId
  <2> QED
    BY <2>1, FS_Subset, FS_CardinalityType
<1>2. {} \in G
  <2>1. Closed(StoredWaits(S), {})
    BY DEF Closed
  <2>2. \E f : f = [t \in {} |-> RollOf(S, f, t)]
    <3> DEFINE f == [t \in {} |-> 0]
    <3>1. f = [t \in {} |-> RollOf(S, f, t)]
      OBVIOUS
    <3> QED
      BY <3>1
  <2> QED
    BY <2>1, <2>2 DEF RollsUp
<1>3. N \in SUBSET Nat /\ N # {}
  BY <1>1, <1>2
<1>4. PICK d \in N : \A k \in N : d <= k
  BY <1>3, LeastNatural
<1>5. PICK D \in G : d = Cardinality(TaskId \ D)
  OBVIOUS
<1>6. CASE D # TaskId
  <2>1. PICK t \in TaskId \ D : RollsUp(S, D \cup {t})
    BY <1>5, <1>6, RollsFurther
  <2>2. D \cup {t} \in G
    BY <1>5, <2>1
  <2>3. d <= Cardinality(TaskId \ (D \cup {t}))
    BY <1>4, <2>2
  <2>4. TaskId \ (D \cup {t}) = (TaskId \ D) \ {t}
    OBVIOUS
  <2>5. Cardinality(TaskId \ (D \cup {t})) = Cardinality(TaskId \ D) - 1
    <3>1. IsFiniteSet(TaskId \ D)
      BY <1>1, <1>5
    <3> QED
      BY <2>1, <2>4, <3>1, FS_RemoveElement
  <2>6. d \in Nat
    BY <1>1, <1>5
  <2> QED
    BY <1>5, <2>3, <2>5, <2>6
<1> QED
  BY <1>5, <1>6

\* What Rollups computes solves it.
LEMMA RollupsRoll ==
  ASSUME NEW S \in Store, Acyclic(StoredWaits(S))
  PROVE  \E roll : /\ roll = [t \in TaskId |-> RollOf(S, roll, t)]
                   /\ Rollups(S) = [t \in Live(S) |-> roll[t]]
<1> DEFINE
      nesting == LiveEdges(S, StoredNesting(S))
      waits   == LiveEdges(S, StoredWaits(S))
      nests   == [t \in TaskId |-> Reach(nesting, {t})]
      reaches == [t \in TaskId |-> Reach(waits, {t})]
      kids(t) == {c \in ListSubtasks(S, t) : t \notin nests[c]}
      blocks(r, t) == \E b \in Live(S) :
                        /\ <<t, b>> \in S.dep
                        /\ t \in reaches[b] \/ r[b].status # "done"
      sub(r, t) == RollupStatus({r[c].status : c \in kids(t)})
      own(r, t) == IF kids(t) = {} THEN S.task[t].status
                   ELSE EffectiveParentStatus(sub(r, t), S.task[t].status)
      of(r, t) == [status   |-> CappedStatus(own(r, t), blocks(r, t)),
                   subtasks |-> IF kids(t) = {} THEN "leaf" ELSE sub(r, t),
                   blocked  |-> blocks(r, t)]
      roll[t \in TaskId] == of(roll, t)
<1>1. Rollups(S) = [t \in Live(S) |-> roll[t]]
  BY DEF Rollups
<1>2. \A t \in TaskId : kids(t) = Kids(S, t)
  <2>1. \A t \in TaskId : \A c \in ListSubtasks(S, t) : c \in TaskId
    BY DEF ListSubtasks, Live
  <2> QED
    BY <2>1 DEF Kids
<1>3. \A r : \A t \in TaskId : blocks(r, t) = Blocks(S, r, t)
  <2>1. \A b \in Live(S) : b \in TaskId
    BY DEF Live
  <2> QED
    BY <2>1 DEF Blocks
<1> HIDE DEF kids, blocks
<1>4. \A r : \A t \in TaskId : of(r, t) = RollOf(S, r, t)
  BY <1>2, <1>3 DEF RollOf
<1>5. PICK f : f = [t \in TaskId |-> RollOf(S, f, t)]
  BY AllRollUp DEF RollsUp
<1> HIDE DEF of
<1>6. f = [t \in TaskId |-> of(f, t)]
  BY <1>4, <1>5
<1>7. roll = [t \in TaskId |-> of(roll, t)]
  BY <1>6
<1> HIDE DEF roll
<1>8. roll = [t \in TaskId |-> RollOf(S, roll, t)]
  BY <1>4, <1>7
<1> QED
  BY <1>1, <1>8

\* A row that reads as done waits on nothing that does not.
LEMMA DoneIsClosed ==
  ASSUME NEW S \in Store, Acyclic(StoredWaits(S))
  PROVE  /\ EffectivelyDone(S) \in SUBSET TaskId
         /\ Closed(LiveEdges(S, StoredWaits(S)), EffectivelyDone(S))
<1>1. PICK roll : /\ roll = [t \in TaskId |-> RollOf(S, roll, t)]
                  /\ Rollups(S) = [t \in Live(S) |-> roll[t]]
  BY RollupsRoll
<1>2. EffectivelyDone(S) = {t \in Live(S) : roll[t].status = "done"}
  BY <1>1 DEF EffectivelyDone
<1>3. Live(S) \subseteq TaskId
  BY DEF Live
<1> SUFFICES ASSUME NEW e \in LiveEdges(S, StoredWaits(S)), roll[e[1]].status = "done"
             PROVE  roll[e[2]].status = "done"
  BY <1>2, <1>3 DEF Closed, LiveEdges
<1> DEFINE t == e[1]
           u == e[2]
<1>4. /\ t \in Live(S) /\ u \in Live(S) /\ e \in StoredWaits(S) /\ t \in TaskId /\ u \in TaskId
  BY <1>3 DEF LiveEdges
<1>5. /\ StoredWaits(S) \in SUBSET (TaskId \X TaskId) /\ t \notin Reach(StoredWaits(S), {u})
  BY <1>4, WaitsTyped DEF Acyclic
<1>6. roll[t] = RollOf(S, roll, t)
  BY <1>1, <1>4
<1>7. /\ ~Blocks(S, roll, t)
      /\ Kids(S, t) # {} => RollupStatus({roll[c].status : c \in Kids(S, t)}) = "done"
  BY <1>6 DEF RollOf, CappedStatus, EffectiveParentStatus
<1>8. CASE e \in StoredNesting(S)
  <2>1. S.task[u].parent = t
    BY <1>8 DEF StoredNesting
  <2>2. Reach(LiveEdges(S, StoredNesting(S)), {u}) \subseteq Reach(StoredWaits(S), {u})
    <3>1. LiveEdges(S, StoredNesting(S)) \subseteq StoredWaits(S)
      BY DEF LiveEdges, StoredWaits
    <3>2. {u} \in SUBSET TaskId
      BY <1>4
    <3>3. Reach(StoredWaits(S), {u}) \in SUBSET TaskId /\ {u} \subseteq Reach(StoredWaits(S), {u})
      BY <3>2, ReachHolds
    <3>4. Closed(StoredWaits(S), Reach(StoredWaits(S), {u}))
      BY <1>5, <3>2, ReachClosed
    <3>5. Closed(LiveEdges(S, StoredNesting(S)), Reach(StoredWaits(S), {u}))
      BY <3>1, <3>4 DEF Closed
    <3> QED
      BY <3>3, <3>5, ReachLeast
  <2>3. u \in Kids(S, t)
    BY <1>4, <1>5, <2>1, <2>2 DEF Kids, ListSubtasks
  <2>4. RollupStatus({roll[c].status : c \in Kids(S, t)}) = "done"
    BY <1>7, <2>3
  <2>5. {roll[c].status : c \in Kids(S, t)} \subseteq {"done"}
    BY <2>4 DEF RollupStatus
  <2> QED
    BY <2>3, <2>5
<1>9. CASE e \in S.dep
  <2>1. <<t, u>> \in S.dep
    BY <1>4, <1>5, <1>9
  <2> QED
    BY <1>4, <1>7, <2>1 DEF Blocks
<1> QED
  BY <1>4, <1>8, <1>9 DEF StoredWaits

LEMMA WiredIsDone ==
  ASSUME StoreWired
  PROVE  DoneMeansAllDone
<1>1. Wired(db)
  BY WiredStore DEF WiredDb
<1>2. /\ EffectivelyDone(db) \in SUBSET TaskId
      /\ Closed(LiveEdges(db, StoredWaits(db)), EffectivelyDone(db))
  BY <1>1, DoneIsClosed DEF Wired
<1>3. Reach(LiveEdges(db, StoredWaits(db)), EffectivelyDone(db)) \subseteq EffectivelyDone(db)
  BY <1>2, ReachLeast
<1>4. EffectivelyDone(db) \subseteq Reach(LiveEdges(db, StoredWaits(db)), EffectivelyDone(db))
  BY <1>2, ReachHolds
<1> QED
  BY <1>3, <1>4 DEF DoneMeansAllDone

\* No row reads as done over unfinished work, through any mix of subtasks and blockers:
\* compute_rollups caps a row by its blockers and folds a parent from its subtasks.
THEOREM DoneIsAllDone == Spec => []DoneMeansAllDone
BY WiredIsDone, StoreStaysWired, PTL
=============================================================================
