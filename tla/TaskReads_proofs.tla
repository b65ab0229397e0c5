-------------------------- MODULE TaskReads_proofs --------------------------
(***************************************************************************)
(* What the readers derive, for any number of rows and any graph the         *)
(* requests can leave: a row reads the same whichever rows are read with it. *)
(*                                                                          *)
(* Every reader loads the rows it was asked for and all that they wait on.   *)
(* That set is closed under the live waits, the waits have no loop, and so   *)
(* the roll-up of a loaded row is its roll-up in the whole store.            *)
(*                                                                          *)
(* The second half is about who else derives it: reconcile, which rolls on   *)
(* the series that a request completes.  A row is done just when no open     *)
(* leaf is among the rows it waits on (DoneRows), so a step completes it     *)
(* only where the step disturbs one of them (NewlyDone); each request tells  *)
(* reconcile what it disturbed (Quiet, one lemma per request), and reconcile *)
(* climbs from there to every head that is not held up (ReconcileClimbs).    *)
(***************************************************************************)
EXTENDS TaskReads, TaskSteps_proofs

-----------------------------------------------------------------------------
(* Graphs *)

LEMMA ReachFewer ==
  ASSUME NEW E \in SUBSET (TaskId \X TaskId), NEW F \in SUBSET E, NEW A \in SUBSET TaskId
  PROVE  Reach(F, A) \subseteq Reach(E, A)
<1>1. Reach(E, A) \in SUBSET TaskId /\ A \subseteq Reach(E, A) /\ Closed(E, Reach(E, A))
  BY ReachHolds, ReachClosed
<1>2. Closed(F, Reach(E, A))
  BY <1>1 DEF Closed
<1> QED
  BY <1>1, <1>2, ReachLeast

\* What is reached and was not there is reached over an edge.
LEMMA ReachedOver ==
  ASSUME NEW E \in SUBSET (TaskId \X TaskId), NEW a \in TaskId, NEW x \in Reach(E, {a}), x # a
  PROVE  \E e \in E : e[1] \in Reach(E, {a}) /\ e[2] = x
<1> SUFFICES ASSUME \A e \in E : e[1] \in Reach(E, {a}) => e[2] # x
             PROVE  FALSE
  OBVIOUS
<1> DEFINE R == Reach(E, {a})
<1>1. R \in SUBSET TaskId /\ {a} \subseteq R /\ Closed(E, R)
  BY ReachHolds, ReachClosed
<1>2. R \ {x} \in SUBSET TaskId /\ {a} \subseteq R \ {x} /\ Closed(E, R \ {x})
  BY <1>1 DEF Closed
<1> QED
  BY <1>2, ReachLeast

\* Of any rows, one is waited for by none of the others.
LEMMA FirstInLine ==
  ASSUME NEW E \in SUBSET (TaskId \X TaskId), Acyclic(E), NEW X \in SUBSET TaskId, X # {}
  PROVE  \E t \in X : \A e \in E : e[2] = t => e[1] \notin X
<1> DEFINE F == {<<e[2], e[1]>> : e \in E}
<1>1. /\ F \in SUBSET (TaskId \X TaskId)
      /\ \A f \in F : <<f[2], f[1]>> \in E
      /\ \A e \in E : <<e[2], e[1]>> \in F
  OBVIOUS
<1> HIDE DEF F
<1>2. ASSUME NEW e \in E
      PROVE  e[2] \notin Reach(F, {e[1]})
  <2> DEFINE B == {x \in TaskId : e[1] \in Reach(E, {x})}
  <2>1. e[1] \in TaskId /\ e[2] \in TaskId /\ e[1] \in Reach(E, {e[1]})
    BY ReachHolds
  <2>2. {e[1]} \subseteq B /\ B \in SUBSET TaskId
    BY <2>1
  <2>3. ASSUME NEW f \in F, f[1] \in B
        PROVE  f[2] \in B
    <3>1. <<f[2], f[1]>> \in E /\ f[2] \in TaskId /\ f[1] \in TaskId
      BY <1>1
    <3>2. Reach(E, {f[1]}) \subseteq Reach(E, {f[2]})
      BY <3>1, ReachStep
    <3> QED
      BY <2>3, <3>1, <3>2
  <2> HIDE DEF B
  <2>4. Closed(F, B)
    BY <2>3 DEF Closed
  <2>5. Reach(F, {e[1]}) \subseteq B
    BY <2>2, <2>4, ReachLeast
  <2>6. e[2] \notin B
    BY DEF Acyclic, B
  <2> QED
    BY <2>5, <2>6
<1>3. Acyclic(F)
  <2> SUFFICES ASSUME NEW f \in F
               PROVE  f[1] \notin Reach(F, {f[2]})
    BY DEF Acyclic
  <2> DEFINE e == <<f[2], f[1]>>
  <2>1. e \in E /\ e[1] = f[2] /\ e[2] = f[1]
    BY <1>1
  <2> QED
    BY <1>2, <2>1
<1>4. PICK t \in X : \A f \in F : f[1] = t => f[2] \notin X
  BY <1>1, <1>3, LastInLine
<1>5. ASSUME NEW e \in E, e[2] = t
      PROVE  e[1] \notin X
  <2>1. <<e[2], e[1]>> \in F
    BY <1>1
  <2> QED
    BY <1>4, <1>5, <2>1
<1> QED
  BY <1>5

-----------------------------------------------------------------------------
(* The roll-up of a part *)

\* Where nothing waits for itself, the guards against loops decide nothing.
LEMMA NoLoopsSkipped ==
  ASSUME NEW S \in Store, Acyclic(StoredWaits(S)), NEW t \in TaskId
  PROVE  /\ Kids(S, t) = ListSubtasks(S, t)
         /\ \A roll : Blocks(S, roll, t)
                        <=> \E b \in Live(S) : <<t, b>> \in S.dep /\ roll[b].status # "done"
<1> DEFINE W == StoredWaits(S)
<1>1. W \in SUBSET (TaskId \X TaskId)
  BY WaitsTyped
<1>2. ASSUME NEW E \in SUBSET W, NEW u \in TaskId, <<t, u>> \in W
      PROVE  t \notin Reach(E, {u})
  <2>1. t \notin Reach(W, {u})
    BY <1>2 DEF Acyclic
  <2>2. Reach(E, {u}) \subseteq Reach(W, {u})
    <3>1. {u} \in SUBSET TaskId
      OBVIOUS
    <3> HIDE DEF W
    <3> QED
      BY <1>1, <3>1, ReachFewer
  <2> QED
    BY <2>1, <2>2
<1>3. LiveEdges(S, StoredNesting(S)) \in SUBSET W /\ LiveEdges(S, W) \in SUBSET W
  BY DEF LiveEdges, StoredWaits
<1>4. ASSUME NEW c \in ListSubtasks(S, t)
      PROVE  t \notin Reach(LiveEdges(S, StoredNesting(S)), {c})
  <2>1. c \in TaskId /\ c \in Rows(S) /\ S.task[c].parent = t /\ t # None
    BY DEF ListSubtasks, Live, Rows, TaskId, None
  <2>2. <<t, c>> \in W
    BY <2>1 DEF StoredWaits, StoredNesting
  <2> QED
    BY <1>2, <1>3, <2>1, <2>2
<1>5. ASSUME NEW b \in Live(S), <<t, b>> \in S.dep
      PROVE  t \notin Reach(LiveEdges(S, W), {b})
  <2>1. b \in TaskId /\ <<t, b>> \in W
    BY <1>5 DEF StoredWaits, Live
  <2> QED
    BY <1>2, <1>3, <2>1
<1> QED
  BY <1>4, <1>5 DEF Kids, Blocks

\* Two stores that agree on the rows D, on what they wait on and that it is in D,
\* roll D up alike.
Alike(S, P, D) ==
  /\ D \subseteq Live(S) \cap Live(P)
  /\ \A t \in D :
       /\ S.task[t].status = P.task[t].status
       /\ ListSubtasks(S, t) = ListSubtasks(P, t) /\ ListSubtasks(S, t) \subseteq D
       /\ {b \in Live(S) : <<t, b>> \in S.dep} = {b \in Live(P) : <<t, b>> \in P.dep}
       /\ {b \in Live(S) : <<t, b>> \in S.dep} \subseteq D

LEMMA RollupsAlike ==
  ASSUME NEW S \in Store, Acyclic(StoredWaits(S)), NEW P \in Store, Acyclic(StoredWaits(P)),
         NEW D, Alike(S, P, D), NEW t \in D
  PROVE  Rollups(S)[t] = Rollups(P)[t]
<1>1. PICK f : f = [u \in TaskId |-> RollOf(S, f, u)] /\ Rollups(S) = [u \in Live(S) |-> f[u]]
  BY RollupsRoll
<1>2. PICK g : g = [u \in TaskId |-> RollOf(P, g, u)] /\ Rollups(P) = [u \in Live(P) |-> g[u]]
  BY RollupsRoll
<1> DEFINE X == {u \in D : f[u] # g[u]}
<1>3. D \subseteq Live(S) /\ D \subseteq Live(P) /\ D \subseteq TaskId
  BY DEF Alike, Live
<1>4. CASE X # {}
  <2>1. X \in SUBSET TaskId /\ StoredWaits(S) \in SUBSET (TaskId \X TaskId)
    BY <1>3, WaitsTyped
  <2>2. PICK u \in X : \A e \in StoredWaits(S) : e[1] = u => e[2] \notin X
    BY <1>4, <2>1, LastInLine
  <2>3. u \in D /\ u \in TaskId /\ f[u] # g[u]
    BY <1>3
  <2>4. Kids(S, u) = ListSubtasks(S, u) /\ Kids(P, u) = ListSubtasks(S, u)
        /\ ListSubtasks(S, u) \subseteq D /\ S.task[u].status = P.task[u].status
    BY <2>3, NoLoopsSkipped DEF Alike
  <2>5. ASSUME NEW c \in ListSubtasks(S, u)
        PROVE  f[c] = g[c]
    <3>1. c \in Rows(S) /\ S.task[c].parent = u /\ u # None
      BY <2>3 DEF ListSubtasks, Live, Rows, TaskId, None
    <3>2. <<u, c>> \in StoredWaits(S)
      BY <3>1 DEF StoredWaits, StoredNesting
    <3> QED
      BY <2>2, <2>4, <3>2
  <2>6. {f[c].status : c \in Kids(S, u)} = {g[c].status : c \in Kids(P, u)}
    BY <2>4, <2>5
  <2>7. ASSUME NEW b \in Live(S), <<u, b>> \in S.dep
        PROVE  b \in Live(P) /\ <<u, b>> \in P.dep /\ f[b] = g[b]
    <3>1. b \in D /\ b \in Live(P) /\ <<u, b>> \in P.dep
      BY <2>3, <2>7 DEF Alike
    <3>2. <<u, b>> \in StoredWaits(S)
      BY <2>7 DEF StoredWaits
    <3> QED
      BY <2>2, <3>1, <3>2
  <2>8. ASSUME NEW b \in Live(P), <<u, b>> \in P.dep
        PROVE  b \in Live(S) /\ <<u, b>> \in S.dep
    BY <2>3, <2>8 DEF Alike
  <2>9. Blocks(S, f, u) <=> Blocks(P, g, u)
    <3>1. Blocks(S, f, u) <=> \E b \in Live(S) : <<u, b>> \in S.dep /\ f[b].status # "done"
      BY <2>3, NoLoopsSkipped
    <3>2. Blocks(P, g, u) <=> \E b \in Live(P) : <<u, b>> \in P.dep /\ g[b].status # "done"
      BY <2>3, NoLoopsSkipped
    <3> QED
      BY <2>7, <2>8, <3>1, <3>2
  <2>10. Blocks(S, f, u) = Blocks(P, g, u)
    BY <2>9 DEF Blocks
  <2>11. Kids(S, u) = {} <=> Kids(P, u) = {}
    BY <2>4
  <2>12. RollOf(S, f, u) = RollOf(P, g, u)
    BY <2>4, <2>6, <2>10, <2>11 DEF RollOf
  <2> QED
    BY <1>1, <1>2, <2>3, <2>12
<1> QED
  BY <1>1, <1>2, <1>3, <1>4

LEMMA LoadedLive ==
  ASSUME NEW S \in Store, NEW A \in SUBSET Live(S)
  PROVE  /\ A \subseteq Loaded(S, A) /\ Loaded(S, A) \subseteq Live(S)
         /\ Closed(LiveEdges(S, StoredWaits(S)), Loaded(S, A))
<1> DEFINE E == LiveEdges(S, StoredWaits(S))
<1>1. E \in SUBSET (TaskId \X TaskId) /\ Closed(E, Live(S))
  BY WaitsTyped DEF LiveEdges, Closed
<1>2. A \in SUBSET TaskId /\ Live(S) \in SUBSET TaskId
  BY DEF Live
<1> HIDE DEF E
<1>3. A \subseteq Reach(E, A) /\ Reach(E, A) \subseteq Live(S) /\ Closed(E, Reach(E, A))
  BY <1>1, <1>2, ReachHolds, ReachClosed, ReachLeast
<1> QED
  BY <1>3 DEF Loaded, E

\* A part of the store, as rows and edges.
LEMMA OnlyPart ==
  ASSUME NEW S \in Store, NEW L \in SUBSET Live(S)
  PROVE  /\ Only(S, L) \in Store /\ Live(Only(S, L)) = L
         /\ Only(S, L).dep = S.dep
         /\ \A t \in L : Only(S, L).task[t] = S.task[t]
         /\ StoredWaits(Only(S, L)) \in SUBSET StoredWaits(S)
<1> DEFINE P == Only(S, L)
           T == [t \in TaskId |-> IF t \in L THEN S.task[t] ELSE NoRow]
<1>1. P = [S EXCEPT !.task = T]
  BY DEF Only
<1>2. \A t \in TaskId : T[t] = IF t \in L THEN S.task[t] ELSE NoRow
  OBVIOUS
<1>3. NoRow \in Row /\ NoRow.state = "none"
  BY RowBounds DEF NoRow, Row, Lifecycle, WorkflowStatus, ProjectId, General, None
<1>4. T \in [TaskId -> Row]
  BY <1>3 DEF Store
<1> HIDE DEF T
<1>5. P \in Store /\ P.task = T /\ P.dep = S.dep
  BY <1>1, <1>4 DEF Store
<1> HIDE DEF P
<1>6. L \subseteq TaskId /\ \A t \in L : S.task[t].state = "live"
  BY DEF Live
<1>7. Live(P) = L /\ Rows(P) = L
  BY <1>2, <1>3, <1>5, <1>6 DEF Live, Rows
<1>8. L \subseteq Rows(S)
  BY <1>6 DEF Rows
<1>9. StoredNesting(P) \subseteq StoredNesting(S)
  BY <1>2, <1>5, <1>6, <1>7, <1>8 DEF StoredNesting
<1>10. StoredWaits(P) \subseteq StoredWaits(S)
  BY <1>5, <1>9 DEF StoredWaits
<1> QED
  BY <1>2, <1>5, <1>6, <1>7, <1>10 DEF P

\* The roll-up of what is loaded is its roll-up in the whole store.
LEMMA ComputedAsWhole ==
  ASSUME NEW S \in Store, Acyclic(StoredWaits(S)), NEW A \in SUBSET Live(S)
  PROVE  /\ DOMAIN ComputeRollups(S, A) = Loaded(S, A)
         /\ \A t \in Loaded(S, A) : ComputeRollups(S, A)[t] = Rollups(S)[t]
<1> DEFINE L == Loaded(S, A)
           P == Only(S, L)
           E == LiveEdges(S, StoredWaits(S))
<1>1. L \in SUBSET Live(S) /\ Closed(E, L)
  BY LoadedLive
<1>2. /\ P \in Store /\ Live(P) = L /\ P.dep = S.dep
      /\ \A t \in L : P.task[t] = S.task[t]
      /\ StoredWaits(P) \in SUBSET StoredWaits(S)
  BY <1>1, OnlyPart
<1>3. Acyclic(StoredWaits(P))
  BY <1>2, WaitsTyped, FewerEdgesAcyclic
<1>4. ComputeRollups(S, A) = Rollups(P)
  BY DEF ComputeRollups
<1>5. DOMAIN Rollups(P) = L
  BY <1>2, <1>3, RollupsRoll
<1> HIDE DEF P, L
<1>6. ASSUME NEW t \in L
      PROVE  /\ ListSubtasks(S, t) = ListSubtasks(P, t) /\ ListSubtasks(S, t) \subseteq L
             /\ {b \in Live(S) : <<t, b>> \in S.dep} = {b \in Live(P) : <<t, b>> \in P.dep}
             /\ {b \in Live(S) : <<t, b>> \in S.dep} \subseteq L
  <2>1. t \in Live(S) /\ t # None
    BY <1>1 DEF Live, TaskId, None
  <2>2. ASSUME NEW c \in ListSubtasks(S, t)
        PROVE  c \in L
    <3>1. c \in Live(S) /\ c \in Rows(S) /\ S.task[c].parent = t
      BY DEF ListSubtasks, Live, Rows
    <3>2. <<t, c>> \in StoredWaits(S)
      BY <2>1, <3>1 DEF StoredWaits, StoredNesting
    <3>3. <<t, c>> \in E
      BY <2>1, <3>1, <3>2 DEF LiveEdges
    <3> QED
      BY <1>1, <3>3 DEF Closed
  <2>3. ASSUME NEW b \in Live(S), <<t, b>> \in S.dep
        PROVE  b \in L
    <3>1. <<t, b>> \in E
      BY <2>1, <2>3 DEF LiveEdges, StoredWaits
    <3> QED
      BY <1>1, <3>1 DEF Closed
  <2>4. ListSubtasks(S, t) = ListSubtasks(P, t)
    BY <1>1, <1>2, <2>2 DEF ListSubtasks
  <2> QED
    BY <1>1, <1>2, <2>2, <2>3, <2>4
<1>7. Alike(S, P, L)
  BY <1>1, <1>2, <1>6 DEF Alike
<1>8. \A t \in L : Rollups(S)[t] = Rollups(P)[t]
  BY <1>2, <1>3, <1>7, RollupsAlike
<1> QED
  BY <1>4, <1>5, <1>8 DEF L

\* What is unfinished of any rows is what of them is open.
LEMMA UnfinishedOpen ==
  ASSUME NEW S \in Store, Acyclic(StoredWaits(S)), NEW ids
  PROVE  Unfinished(S, ids) = ids \cap OpenTasks(S)
<1> DEFINE A == ids \cap Live(S)
<1>1. A \in SUBSET Live(S) /\ A \subseteq Loaded(S, A)
  BY LoadedLive
<1>2. \A t \in A : ComputeRollups(S, A)[t] = Rollups(S)[t]
  BY <1>1, ComputedAsWhole
<1>3. Unfinished(S, ids) = {t \in A : ComputeRollups(S, A)[t].status # "done"}
  BY DEF Unfinished
<1> QED
  BY <1>2, <1>3 DEF OpenTasks

\* A row is blocked while a live row that is not done blocks it.
LEMMA BlockedByOpen ==
  ASSUME NEW S \in Store, Acyclic(StoredWaits(S)), NEW t \in Live(S)
  PROVE  Rollups(S)[t].blocked <=> \E b \in OpenTasks(S) : <<t, b>> \in S.dep
<1>1. PICK roll : roll = [u \in TaskId |-> RollOf(S, roll, u)]
                  /\ Rollups(S) = [u \in Live(S) |-> roll[u]]
  BY RollupsRoll
<1>2. t \in TaskId /\ Live(S) \subseteq TaskId
  BY DEF Live
<1>3. Rollups(S)[t].blocked = Blocks(S, roll, t)
  <2>1. Rollups(S)[t] = roll[t] /\ roll[t] = RollOf(S, roll, t)
    BY <1>1, <1>2
  <2> QED
    BY <2>1 DEF RollOf
<1>4. Blocks(S, roll, t) <=> \E b \in Live(S) : <<t, b>> \in S.dep /\ roll[b].status # "done"
  BY <1>2, NoLoopsSkipped
<1>5. \A b \in Live(S) : b \in OpenTasks(S) <=> roll[b].status # "done"
  BY <1>1 DEF OpenTasks
<1>6. OpenTasks(S) \subseteq Live(S)
  BY DEF OpenTasks
<1> QED
  BY <1>3, <1>4, <1>5, <1>6

-----------------------------------------------------------------------------
(* Blockers and what they hold up *)

\* The edges between unfinished rows, from a blocker to what it holds up.
Holds(S) == {<<e[2], e[1]>> : e \in {d \in S.dep : {d[1], d[2]} \subseteq OpenTasks(S)}}

Heads(S) == {t \in Live(S) : /\ \A e \in Holds(S) : e[2] # t
                             /\ \E e \in Holds(S) : e[1] = t}

\* A reader that is asked for more rows says the same of each.
LEMMA DownstreamAlike ==
  ASSUME NEW S \in Store, Acyclic(StoredWaits(S)), NEW A \in SUBSET Live(S)
  PROVE  /\ DOMAIN TopLevelBlockers(S, A) = A \cap Heads(S)
         /\ \A t \in A \cap Heads(S) :
              TopLevelBlockers(S, A)[t] = Reach(Holds(S), {t}) \ {t}
<1> DEFINE back == {<<e[2], e[1]>> : e \in S.dep}
           walked == Reach(back, A)
           open == Unfinished(S, walked \cup Blockers(S, A))
           holds == {<<e[2], e[1]>> : e \in {d \in S.dep : {d[1], d[2]} \subseteq open}}
           H == Holds(S)
           O == OpenTasks(S)
           top == {t \in A \ {e[2] : e \in holds} : \E e \in holds : e[1] = t}
<1>1. /\ back \in SUBSET (TaskId \X TaskId)
      /\ \A e \in back : <<e[2], e[1]>> \in S.dep
      /\ \A e \in S.dep : e[1] \in TaskId /\ e[2] \in TaskId /\ <<e[2], e[1]>> \in back
      /\ A \in SUBSET TaskId
  BY DEF Store, Live
<1>2. /\ A \subseteq walked /\ Closed(back, walked) /\ walked \subseteq TaskId
  <2> HIDE DEF back
  <2> QED
    BY <1>1, ReachHolds, ReachClosed
<1>3. open = (walked \cup Blockers(S, A)) \cap O
  BY UnfinishedOpen
<1>4. TopLevelBlockers(S, A) = [t \in top |-> Reach(holds, {t}) \ {t}]
  BY DEF TopLevelBlockers, Downstream
<1> HIDE DEF back, walked, open
<1>5. /\ \A e \in holds : <<e[2], e[1]>> \in S.dep /\ e[1] \in open /\ e[2] \in open
                          /\ e = <<e[1], e[2]>>
      /\ \A d \in S.dep : d[1] \in open /\ d[2] \in open => <<d[2], d[1]>> \in holds
  <2>1. \A d \in S.dep : d = <<d[1], d[2]>>
    BY DEF Store
  <2>2. ASSUME NEW e \in holds
        PROVE  /\ <<e[2], e[1]>> \in S.dep /\ e[1] \in open /\ e[2] \in open
               /\ e = <<e[1], e[2]>>
    <3>1. PICK d \in S.dep : d[1] \in open /\ d[2] \in open /\ e = <<d[2], d[1]>>
      OBVIOUS
    <3> QED
      BY <2>1, <3>1
  <2>3. ASSUME NEW d \in S.dep, d[1] \in open, d[2] \in open
        PROVE  <<d[2], d[1]>> \in holds
    BY <2>3
  <2> QED
    BY <2>2, <2>3
<1>6. /\ \A e \in H : <<e[2], e[1]>> \in S.dep /\ e[1] \in O /\ e[2] \in O /\ e = <<e[1], e[2]>>
      /\ \A d \in S.dep : d[1] \in O /\ d[2] \in O => <<d[2], d[1]>> \in H
  BY <1>1 DEF Holds
<1> HIDE DEF holds, H, O
<1>7. holds \subseteq H /\ H \subseteq back /\ H \in SUBSET (TaskId \X TaskId)
  <2>1. \A e \in holds : e \in H
    BY <1>3, <1>5, <1>6
  <2>2. \A e \in H : e \in back
    BY <1>1, <1>6
  <2> QED
    BY <1>1, <2>1, <2>2
<1>8. ASSUME NEW e \in H, e[1] \in walked
      PROVE  e \in holds /\ e[2] \in walked
  <2>1. e[2] \in walked
    BY <1>2, <1>7, <1>8 DEF Closed
  <2>2. e[1] \in open /\ e[2] \in open
    BY <1>3, <1>6, <1>8, <2>1
  <2> QED
    BY <1>5, <1>6, <2>1, <2>2
<1>9. ASSUME NEW e \in H, e[2] \in A
      PROVE  e \in holds
  <2>1. e[1] \in Blockers(S, A)
    <3>1. <<e[2], e[1]>> \in {d \in S.dep : d[1] \in A}
      BY <1>6, <1>9
    <3> QED
      BY <3>1 DEF Blockers
  <2>2. e[1] \in open /\ e[2] \in open
    BY <1>2, <1>3, <1>6, <1>9, <2>1
  <2> QED
    BY <1>5, <1>6, <2>2
<1>10. top = A \cap Heads(S)
  <2>1. ASSUME NEW t \in A
        PROVE  t \in top <=> t \in Heads(S)
    <3>1. (\E e \in holds : e[2] = t) <=> (\E e \in H : e[2] = t)
      BY <1>7, <1>9, <2>1
    <3>2. (\E e \in holds : e[1] = t) <=> (\E e \in H : e[1] = t)
      BY <1>2, <1>7, <1>8, <2>1
    <3> QED
      BY <3>1, <3>2 DEF Heads, H
  <2> QED
    BY <2>1
<1>11. ASSUME NEW t \in A
       PROVE  Reach(holds, {t}) = Reach(H, {t})
  <2> DEFINE R == Reach(holds, {t})
  <2>1. {t} \in SUBSET TaskId /\ holds \in SUBSET (TaskId \X TaskId) /\ holds \in SUBSET H
    BY <1>1, <1>7
  <2>2. R \subseteq Reach(H, {t})
    BY <1>7, <2>1, ReachFewer
  <2>3. {t} \subseteq R /\ R \subseteq TaskId /\ Closed(holds, R)
    BY <2>1, ReachHolds, ReachClosed
  <2>4. R \subseteq walked
    <3>1. {t} \subseteq walked /\ Closed(holds, walked) /\ walked \in SUBSET TaskId
      BY <1>2, <1>7, <1>11 DEF Closed
    <3> QED
      BY <3>1, ReachLeast
  <2> HIDE DEF R
  <2>5. Closed(H, R)
    BY <1>8, <2>3, <2>4 DEF Closed
  <2>6. Reach(H, {t}) \subseteq R
    BY <2>3, <2>5, ReachLeast
  <2> QED
    BY <2>2, <2>6 DEF R
<1> HIDE DEF top
<1> QED
  BY <1>4, <1>10, <1>11 DEF H

-----------------------------------------------------------------------------
(* What the readers say *)

\* What a row reads as, whoever reads it.
ReadOf(S, t) ==
  [status     |-> Rollups(S)[t].status,
   blocked    |-> Rollups(S)[t].blocked,
   subtasks   |-> Rollups(S)[t].subtasks,
   top        |-> S.task[t].parent \notin Live(S),
   downstream |-> IF t \in Heads(S) THEN Cardinality(Reach(Holds(S), {t}) \ {t}) ELSE 0]

LEMMA ReadAsOne ==
  ASSUME NEW S \in Store, Acyclic(StoredWaits(S)), NEW A \in SUBSET Live(S)
  PROVE  TaskReads(S, A) = [t \in A |-> ReadOf(S, t)]
<1> DEFINE roll == ComputeRollups(S, A)
           counts == TopLevelBlockers(S, A)
           read(t) == [status     |-> roll[t].status,
                       blocked    |-> roll[t].blocked,
                       subtasks   |-> roll[t].subtasks,
                       top        |-> t \in EffectiveTopLevel(S, A),
                       downstream |-> IF t \in DOMAIN counts THEN Cardinality(counts[t]) ELSE 0]
<1>1. TaskReads(S, A) = [t \in A |-> read(t)]
  BY DEF TaskReads
<1>2. \A t \in A : roll[t] = Rollups(S)[t]
  BY LoadedLive, ComputedAsWhole
<1>3. DOMAIN counts = A \cap Heads(S)
      /\ \A t \in A \cap Heads(S) : counts[t] = Reach(Holds(S), {t}) \ {t}
  BY DownstreamAlike
<1> HIDE DEF roll, counts
<1>4. \A t \in A : (t \in EffectiveTopLevel(S, A)) = (S.task[t].parent \notin Live(S))
  BY DEF EffectiveTopLevel
<1>5. \A t \in A : read(t) = ReadOf(S, t)
  BY <1>2, <1>3, <1>4 DEF ReadOf
<1> HIDE DEF read
<1> QED
  BY <1>1, <1>5

\* alone is what the property compares with.
LEMMA ReadsAlike ==
  ASSUME db \in Store, Acyclic(StoredWaits(db)),
         NEW alone, alone = [t \in Live(db) |-> TaskReads(db, {t})[t]]
  PROVE  ReadAlike(alone) /\ BlockersNamed(alone)
<1>1. \A t \in Live(db) : alone[t] = ReadOf(db, t)
  <2> SUFFICES ASSUME NEW t \in Live(db)
               PROVE  TaskReads(db, {t})[t] = ReadOf(db, t)
    OBVIOUS
  <2>1. TaskReads(db, {t}) = [u \in {t} |-> ReadOf(db, u)]
    BY ReadAsOne
  <2> QED
    BY <2>1
<1>2. \A A \in SUBSET Live(db) : TaskReads(db, A) = [t \in A |-> alone[t]]
  BY <1>1, ReadAsOne
<1>3. \A t \in Live(db) : alone[t].status = Rollups(db)[t].status
                          /\ alone[t].blocked = Rollups(db)[t].blocked
  <2> TAKE t \in Live(db)
  <2>1. alone[t] = ReadOf(db, t)
    BY <1>1
  <2> QED
    BY <2>1 DEF ReadOf
<1>4. ReadAlike(alone)
  BY <1>2, <1>3 DEF ReadAlike
<1> DEFINE O == OpenTasks(db)
           waits == {e \in dep : e[1] \in Live(db) /\ ~DependsOnDone(db, e[2])}
<1>5. \A b : DependsOnDone(db, b) <=> b \notin O
  BY UnfinishedOpen DEF DependsOnDone
<1>6. db.dep = dep
  BY DEF db
<1>7. ASSUME NEW A \in SUBSET Live(db)
      PROVE  /\ UnfinishedDependencies(db, A) = {e \in waits : e[1] \in A}
             /\ BlockedTaskIds(db, A) = {t \in A : alone[t].blocked}
  <2>1. Unfinished(db, Blockers(db, A)) = Blockers(db, A) \cap O
    BY UnfinishedOpen
  <2>2. UnfinishedDependencies(db, A) = {e \in dep : e[1] \in A /\ e[2] \in Blockers(db, A) \cap O}
    BY <1>6, <2>1 DEF UnfinishedDependencies
  <2>3. \A e \in dep : e[1] \in A => e[2] \in Blockers(db, A)
    BY <1>6 DEF Blockers
  <2>4. UnfinishedDependencies(db, A) = {e \in dep : e[1] \in A /\ e[2] \in O}
    BY <2>2, <2>3
  <2>5. \A t \in A : alone[t].blocked <=> \E b \in O : <<t, b>> \in dep
    BY <1>3, <1>6, BlockedByOpen
  <2>6. \A e \in dep : e = <<e[1], e[2]>>
    BY <1>6 DEF Store
  <2>7. BlockedTaskIds(db, A) = {t \in A : \E b \in O : <<t, b>> \in dep}
    <3>1. BlockedTaskIds(db, A) = {e[1] : e \in {d \in dep : d[1] \in A /\ d[2] \in O}}
      BY <2>4 DEF BlockedTaskIds
    <3>2. ASSUME NEW t \in BlockedTaskIds(db, A)
          PROVE  t \in A /\ \E b \in O : <<t, b>> \in dep
      <4>1. PICK e \in dep : e[1] \in A /\ e[2] \in O /\ t = e[1]
        BY <3>1
      <4> QED
        BY <2>6, <4>1
    <3>3. ASSUME NEW t \in A, NEW b \in O, <<t, b>> \in dep
          PROVE  t \in BlockedTaskIds(db, A)
      <4>1. <<t, b>> \in {d \in dep : d[1] \in A /\ d[2] \in O}
        BY <3>3
      <4> QED
        BY <3>1, <4>1
    <3> QED
      BY <3>2, <3>3
  <2>8. \A t \in A : t \in BlockedTaskIds(db, A) <=> alone[t].blocked
    BY <2>5, <2>7
  <2>9. BlockedTaskIds(db, A) \subseteq A
    BY <2>7
  <2> QED
    BY <1>5, <2>4, <2>8, <2>9
<1>8. BlockersNamed(alone)
  BY <1>7 DEF BlockersNamed
<1> QED
  BY <1>4, <1>8

-----------------------------------------------------------------------------
(* Lists and boards *)

LEMMA OpenListed ==
  ASSUME db \in Store, Acyclic(StoredWaits(db))
  PROVE  ListsCounted
<1> SUFFICES ASSUME NEW top \in BOOLEAN
             PROVE  ListTasks(db, [top |-> top, project |-> None, status |-> Any,
                                   excludeDone |-> TRUE])
                      = OpenTasks(db) \cap (IF top THEN EffectiveTopLevel(db, Live(db)) ELSE Live(db))
  BY DEF ListsCounted
<1> DEFINE f == [top |-> top, project |-> None, status |-> Any, excludeDone |-> TRUE]
           A == IF top THEN EffectiveTopLevel(db, Live(db)) ELSE Live(db)
           rows == {t \in (IF f.top THEN EffectiveTopLevel(db, Live(db)) ELSE Live(db)) :
                      f.project \in {None, db.task[t].project}}
<1>1. A \in SUBSET Live(db)
  BY DEF EffectiveTopLevel
<1>2. rows = A
  OBVIOUS
<1>3. \A t \in A : ComputeRollups(db, A)[t] = Rollups(db)[t]
  BY <1>1, LoadedLive, ComputedAsWhole
<1>4. ListTasks(db, f) = {t \in rows : ComputeRollups(db, rows)[t].status # "done"}
  BY DEF ListTasks, Any
<1> HIDE DEF f, rows, A
<1>5. ListTasks(db, f) = {t \in A : Rollups(db)[t].status # "done"}
  BY <1>2, <1>3, <1>4
<1>6. {t \in A : Rollups(db)[t].status # "done"} = OpenTasks(db) \cap A
  BY <1>1 DEF OpenTasks
<1> QED
  BY <1>5, <1>6 DEF f, A

\* Nesting is a forest: two rows at the top have no row below both.
LEMMA OneRowEach ==
  ASSUME db \in Store, Acyclic(StoredWaits(db))
  PROVE  OnOneBoardRow
<1> DEFINE E == LiveEdges(db, StoredNesting(db))
           board == EffectiveTopLevel(db, Live(db))
<1>1. /\ E \in SUBSET (TaskId \X TaskId)
      /\ \A e \in E : e[1] \in Live(db) /\ e[2] \in Live(db) /\ db.task[e[2]].parent = e[1]
      /\ \A c \in Live(db) : db.task[c].parent \in Live(db) => <<db.task[c].parent, c>> \in E
  <2>1. E \subseteq StoredWaits(db)
    BY DEF LiveEdges, StoredWaits
  <2>2. E \in SUBSET (TaskId \X TaskId)
    BY <2>1, WaitsTyped
  <2>3. \A e \in E : e[1] \in Live(db) /\ e[2] \in Live(db) /\ db.task[e[2]].parent = e[1]
    BY DEF LiveEdges, StoredNesting
  <2>4. ASSUME NEW c \in Live(db), db.task[c].parent \in Live(db)
        PROVE  <<db.task[c].parent, c>> \in E
    <3>1. c \in Rows(db) /\ db.task[c].parent # None
      BY <2>4 DEF Live, Rows, TaskId, None
    <3>2. <<db.task[c].parent, c>> \in StoredNesting(db)
      BY <3>1 DEF StoredNesting
    <3> QED
      BY <2>4, <3>2 DEF LiveEdges
  <2> QED
    BY <2>2, <2>3, <2>4
<1>2. E \in SUBSET StoredWaits(db)
  BY DEF LiveEdges, StoredWaits
<1>3. Acyclic(E)
  <2> HIDE DEF E
  <2> QED
    BY <1>2, WaitsTyped, FewerEdgesAcyclic
<1>4. \A a : LiveSubtree(db, a) = Reach(E, {a})
  BY DEF LiveSubtree
<1>5. \A a : a \in board <=> a \in Live(db) /\ db.task[a].parent \notin Live(db)
  BY DEF EffectiveTopLevel
<1>6. Live(db) \subseteq TaskId
  BY DEF Live
<1> HIDE DEF E, board
<1> SUFFICES ASSUME NEW t \in Live(db)
             PROVE  \E r \in board : {a \in board : t \in Reach(E, {a})} = {r}
  <2>1. \A t : {a \in board : t \in LiveSubtree(db, a)} = {a \in board : t \in Reach(E, {a})}
    BY <1>4
  <2>2. OnOneBoardRow <=> \A t \in Live(db) : \E r \in board :
                            {a \in board : t \in LiveSubtree(db, a)} = {r}
    BY DEF OnOneBoardRow, board
  <2> QED
    BY <2>1, <2>2
<1> DEFINE X == {a \in Live(db) : t \in Reach(E, {a})}
<1>7. t \in X
  BY <1>6, ReachHolds
<1>8. PICK r \in X : \A e \in E : e[2] = r => e[1] \notin X
  <2>1. X \in SUBSET TaskId /\ X # {}
    BY <1>6, <1>7
  <2> HIDE DEF X
  <2> QED
    BY <1>1, <1>3, <2>1, FirstInLine
<1>9. r \in board
  <2> SUFFICES ASSUME db.task[r].parent \in Live(db)
               PROVE  FALSE
    BY <1>5
  <2> DEFINE e == <<db.task[r].parent, r>>
  <2>1. e \in E /\ e[1] = db.task[r].parent /\ e[2] = r
    BY <1>1
  <2>2. t \in Reach(E, {e[1]})
    BY <1>1, <2>1, ReachStep
  <2> QED
    BY <1>8, <2>1, <2>2
<1>10. ASSUME NEW a \in board, t \in Reach(E, {a}), a # r
       PROVE  FALSE
  <2> DEFINE W == Reach(E, {r}) \ Reach(E, {a})
  <2>1. a \in TaskId /\ r \in TaskId
    BY <1>5, <1>6, <1>9
  <2>2. r \in Reach(E, {r}) /\ Reach(E, {r}) \in SUBSET TaskId /\ Closed(E, Reach(E, {r}))
    BY <1>1, <2>1, ReachHolds, ReachClosed
  <2>3. \A x \in Reach(E, {a}) : x # a => \E e \in E : e[1] \in Reach(E, {a}) /\ e[2] = x
    BY <1>1, <2>1, ReachedOver
  <2>4. r \notin Reach(E, {a})
    BY <1>1, <1>5, <1>9, <1>10, <2>3
  <2>5. ASSUME NEW e \in E, e[1] \in W
        PROVE  e[2] \in W
    <3>1. e[2] \in Reach(E, {r})
      BY <2>2, <2>5 DEF Closed
    <3>2. CASE e[2] \in Reach(E, {a})
      <4>1. e[2] # a
        BY <1>1, <1>5, <1>10
      <4>2. PICK d \in E : d[1] \in Reach(E, {a}) /\ d[2] = e[2]
        BY <2>3, <3>2, <4>1
      <4>3. d[1] = e[1]
        BY <1>1, <4>2
      <4> QED
        BY <2>5, <4>2, <4>3
    <3> QED
      BY <3>1, <3>2
  <2>6. {r} \subseteq W /\ W \in SUBSET TaskId
    BY <2>2, <2>4
  <2>7. Reach(E, {r}) \subseteq W
    <3> HIDE DEF W
    <3>1. Closed(E, W)
      BY <2>5 DEF Closed
    <3> QED
      BY <2>6, <3>1, ReachLeast
  <2> QED
    BY <1>8, <1>10, <2>7
<1>11. {a \in board : t \in Reach(E, {a})} = {r}
  BY <1>8, <1>9, <1>10
<1> QED
  BY <1>9, <1>11

\* The walk up from blocked work ends, and where it ends is on the list.
LEMMA WorkIsCounted ==
  ASSUME db \in Store, Acyclic(StoredWaits(db)), NEW t \in OpenTasks(db), Rollups(db)[t].blocked
  PROVE  \E b \in Heads(db) : t \in Reach(Holds(db), {b}) \ {b}
<1> DEFINE H == Holds(db)
           O == OpenTasks(db)
           X == {u \in O : t \in Reach(H, {u})}
           E == db.dep
<1>1. O \subseteq Live(db) /\ O \subseteq TaskId
  BY DEF OpenTasks, Live
<1>2. /\ E \in SUBSET (TaskId \X TaskId) /\ E \in SUBSET StoredWaits(db)
      /\ \A d \in E : d = <<d[1], d[2]>>
  BY DEF Store, StoredWaits
<1>3. /\ \A e \in H : <<e[2], e[1]>> \in E /\ e[1] \in O /\ e[2] \in O
      /\ \A d \in E : d[1] \in O /\ d[2] \in O => <<d[2], d[1]>> \in H
      /\ \A e \in H : e = <<e[1], e[2]>>
  BY <1>2 DEF Holds
<1>4. Acyclic(E)
  <2> HIDE DEF E
  <2> QED
    BY <1>2, WaitsTyped, FewerEdgesAcyclic
<1> HIDE DEF H, O, E
<1>5. H \in SUBSET (TaskId \X TaskId)
  <2> SUFFICES ASSUME NEW e \in H
               PROVE  e \in TaskId \X TaskId
    OBVIOUS
  <2>1. e = <<e[1], e[2]>> /\ e[1] \in TaskId /\ e[2] \in TaskId
    BY <1>1, <1>3
  <2> QED
    BY <2>1
<1>6. t \in X
  BY <1>1, ReachHolds DEF O
<1>7. PICK u \in X : \A e \in E : e[1] = u => e[2] \notin X
  <2>1. X \in SUBSET TaskId /\ X # {}
    BY <1>1, <1>6
  <2> HIDE DEF X
  <2> QED
    BY <1>2, <1>4, <2>1, LastInLine
<1>8. ASSUME NEW e \in H, e[2] = u
      PROVE  FALSE
  <2>1. <<u, e[1]>> \in E /\ e[1] \in O
    BY <1>3, <1>8
  <2>2. t \in Reach(H, {e[1]})
    BY <1>5, <1>7, <1>8, ReachStep
  <2> QED
    BY <1>7, <2>1, <2>2
<1>9. u # t
  <2>1. PICK b \in O : <<t, b>> \in E
    BY BlockedByOpen DEF O, E, OpenTasks
  <2>2. <<b, t>> \in H
    <3> DEFINE d == <<t, b>>
    <3>1. d \in E /\ d[1] = t /\ d[2] = b
      BY <2>1
    <3> QED
      BY <1>3, <3>1 DEF O
  <2> QED
    BY <1>8, <2>2
<1>10. \E e \in H : e[1] = u
  <2> SUFFICES ASSUME \A e \in H : e[1] # u
               PROVE  FALSE
    OBVIOUS
  <2>1. {u} \in SUBSET TaskId /\ Closed(H, {u})
    BY <1>1 DEF Closed
  <2>2. Reach(H, {u}) \subseteq {u}
    BY <2>1, ReachLeast
  <2> QED
    BY <1>7, <1>9, <2>2
<1>11. u \in Heads(db)
  BY <1>1, <1>8, <1>10 DEF Heads, H
<1> QED
  BY <1>7, <1>9, <1>11 DEF H

-----------------------------------------------------------------------------
(* The results *)

LEMMA WiredReads ==
  ASSUME StoreWired
  PROVE  db \in Store /\ Acyclic(StoredWaits(db))
  BY WiredStore DEF WiredDb, Wired

\* A task reads the same alone, in a list, on a board and on the dashboard: reads_with_blocked,
\* list_tasks_page, the overview and the blocked rows of the day plan agree, each
\* from the rows it loads.
THEOREM ReadersAgree == Spec => []ReadsAgree
<1>1. StoreWired => ReadsAgree
  BY WiredReads, ReadsAlike, OpenListed, OneRowEach DEF ReadsAgree
<1> QED
  BY <1>1, StoreStaysWired, PTL

\* Blocked work is counted downstream of a blocker that the dashboard names: the walk of
\* top_level_blockers leaves out no chain of waits.
THEOREM BlockedWorkSurfaces == Spec => []BlockersSurface
<1>1. StoreWired => BlockersSurface
  <2> SUFFICES ASSUME StoreWired, NEW t \in Live(db),
                      Rollups(db)[t].blocked, Rollups(db)[t].status # "done"
               PROVE  \E b \in DOMAIN TopLevelBlockers(db, Live(db)) :
                        t \in TopLevelBlockers(db, Live(db))[b]
    BY DEF BlockersSurface
  <2>1. db \in Store /\ Acyclic(StoredWaits(db))
    BY WiredReads
  <2>2. t \in OpenTasks(db)
    BY DEF OpenTasks
  <2>3. PICK b \in Heads(db) : t \in Reach(Holds(db), {b}) \ {b}
    BY <2>1, <2>2, WorkIsCounted
  <2>4. b \in Live(db)
    BY DEF Heads
  <2>5. /\ DOMAIN TopLevelBlockers(db, Live(db)) = Live(db) \cap Heads(db)
        /\ \A u \in Live(db) \cap Heads(db) :
             TopLevelBlockers(db, Live(db))[u] = Reach(Holds(db), {u}) \ {u}
    <3>1. Live(db) \in SUBSET Live(db)
      OBVIOUS
    <3> QED
      BY <2>1, <3>1, DownstreamAlike
  <2> QED
    BY <2>3, <2>4, <2>5
<1> QED
  BY <1>1, StoreStaysWired, PTL
-----------------------------------------------------------------------------
(* What keeps a row from being done: an open leaf that it waits on          *)

Waits(S) == LiveEdges(S, StoredWaits(S))

LEMMA WaitsEdges ==
  ASSUME NEW S, Wired(S)
  PROVE  /\ Waits(S) \in SUBSET (TaskId \X TaskId) /\ Acyclic(Waits(S))
         /\ \A x, y : <<x, y>> \in Waits(S) <=>
                        /\ x \in Live(S) /\ y \in Live(S)
                        /\ S.task[y].parent = x \/ <<x, y>> \in S.dep
<1>1. /\ S \in Store /\ StoredWaits(S) \in SUBSET (TaskId \X TaskId)
      /\ Acyclic(StoredWaits(S)) /\ Waits(S) \in SUBSET StoredWaits(S)
  BY WiredEdges DEF Wired, Waits, LiveEdges
<1>2. Waits(S) \in SUBSET (TaskId \X TaskId) /\ Acyclic(Waits(S))
  BY <1>1, FewerEdgesAcyclic
<1>3. ASSUME NEW x \in Live(S), NEW y \in Live(S)
      PROVE  <<x, y>> \in StoredWaits(S) <=> S.task[y].parent = x \/ <<x, y>> \in S.dep
  <2>1. x # None /\ y \in Rows(S)
    BY RowBounds DEF Live, Rows, TaskId, None
  <2>2. <<x, y>> \in StoredNesting(S) <=> S.task[y].parent = x
    BY <2>1 DEF StoredNesting
  <2> QED
    BY <2>2 DEF StoredWaits
<1>4. \A x, y : <<x, y>> \in Waits(S) <=>
                  x \in Live(S) /\ y \in Live(S) /\ <<x, y>> \in StoredWaits(S)
  BY DEF Waits, LiveEdges
<1> QED
  BY <1>2, <1>3, <1>4

\* All that a live row waits on.
Awaited(S, t) == Reach(Waits(S), {t})

LEMMA AwaitedLive ==
  ASSUME NEW S, Wired(S), NEW t \in Live(S)
  PROVE  /\ t \in Awaited(S, t) /\ Awaited(S, t) \subseteq Live(S)
         /\ \A x, y : x \in Awaited(S, t) /\ <<x, y>> \in Waits(S) => y \in Awaited(S, t)
<1>1. /\ Waits(S) \in SUBSET (TaskId \X TaskId) /\ {t} \in SUBSET TaskId
      /\ {t} \subseteq Live(S) /\ Live(S) \in SUBSET TaskId
  BY WaitsEdges DEF Live
<1>2. Closed(Waits(S), Live(S))
  BY DEF Closed, Waits, LiveEdges
<1>3. Awaited(S, t) \subseteq Live(S)
  BY <1>1, <1>2, ReachLeast DEF Awaited
<1>4. {t} \subseteq Awaited(S, t) /\ Closed(Waits(S), Awaited(S, t))
  BY <1>1, ReachHolds, ReachClosed DEF Awaited
<1> QED
  BY <1>3, <1>4 DEF Closed

\* What a row that is waited on waits on, is waited on.
LEMMA AwaitedOn ==
  ASSUME NEW S, Wired(S), NEW t \in Live(S), NEW x \in Awaited(S, t)
  PROVE  Awaited(S, x) \subseteq Awaited(S, t)
<1>1. Waits(S) \in SUBSET (TaskId \X TaskId) /\ t \in TaskId
  BY WaitsEdges DEF Live
<1> QED
  BY <1>1, ReachTransitive DEF Awaited

\* The rows that are unfinished by themselves: no subtask decides for them.
OpenLeaves(S) ==
  {t \in Live(S) : ListSubtasks(S, t) = {} /\ S.task[t].status # "done"}

\* A row reads as done just when no open leaf is among the rows it waits on.
LEMMA DoneRows ==
  ASSUME NEW S, Wired(S), NEW t \in Live(S)
  PROVE  t \in EffectivelyDone(S) <=> Awaited(S, t) \cap OpenLeaves(S) = {}
<1>1. S \in Store /\ Acyclic(StoredWaits(S)) /\ Live(S) \subseteq TaskId
  BY DEF Wired, Live
<1>2. PICK f : f = [u \in TaskId |-> RollOf(S, f, u)] /\ Rollups(S) = [u \in Live(S) |-> f[u]]
  BY <1>1, RollupsRoll
<1>3. EffectivelyDone(S) = {u \in Live(S) : f[u].status = "done"}
  BY <1>2 DEF EffectivelyDone
<1>4. ASSUME NEW u \in TaskId
      PROVE  f[u].status =
               CappedStatus(IF Kids(S, u) = {} THEN S.task[u].status
                            ELSE EffectiveParentStatus(RollupStatus({f[c].status : c \in Kids(S, u)}),
                                                       S.task[u].status),
                            Blocks(S, f, u))
  <2>1. f[u] = RollOf(S, f, u)
    BY <1>2
  <2> QED
    BY <2>1 DEF RollOf
<1>5. ASSUME NEW u \in OpenLeaves(S)
      PROVE  f[u].status # "done"
  <2>1. u \in TaskId /\ ListSubtasks(S, u) = {} /\ S.task[u].status # "done"
    BY <1>1 DEF OpenLeaves
  <2>2. Kids(S, u) = {}
    BY <2>1 DEF Kids
  <2> QED
    BY <1>4, <2>1, <2>2 DEF CappedStatus
<1>6. ASSUME NEW u \in Live(S), u \notin OpenLeaves(S),
             \A y : <<u, y>> \in Waits(S) => f[y].status = "done"
      PROVE  f[u].status = "done"
  <2>1. u \in TaskId
    BY <1>1
  <2>2. ~Blocks(S, f, u)
    <3>1. ASSUME NEW b \in Live(S), <<u, b>> \in S.dep
          PROVE  f[b].status = "done"
      BY <1>6, <3>1, WaitsEdges
    <3> QED
      BY <1>1, <2>1, <3>1, NoLoopsSkipped
  <2>3. CASE ListSubtasks(S, u) = {}
    <3>1. S.task[u].status = "done" /\ Kids(S, u) = {}
      BY <1>6, <2>3 DEF OpenLeaves, Kids
    <3> QED
      BY <1>4, <2>1, <2>2, <3>1 DEF CappedStatus
  <2>4. CASE ListSubtasks(S, u) # {}
    <3>1. Kids(S, u) = ListSubtasks(S, u)
      BY <1>1, <2>1, NoLoopsSkipped
    <3>2. ASSUME NEW c \in ListSubtasks(S, u)
          PROVE  f[c].status = "done"
      <4>1. c \in Live(S) /\ S.task[c].parent = u
        BY DEF ListSubtasks
      <4> QED
        BY <1>6, <4>1, WaitsEdges
    <3>3. {f[c].status : c \in Kids(S, u)} \subseteq {"done"}
      BY <3>1, <3>2
    <3>4. RollupStatus({f[c].status : c \in Kids(S, u)}) = "done"
      BY <3>3 DEF RollupStatus
    <3>5. EffectiveParentStatus("done", S.task[u].status) = "done"
      BY DEF EffectiveParentStatus
    <3> QED
      BY <1>4, <2>1, <2>2, <2>4, <3>1, <3>4, <3>5 DEF CappedStatus
  <2> QED
    BY <2>3, <2>4
<1>7. ASSUME t \in EffectivelyDone(S), NEW x \in Awaited(S, t)
      PROVE  x \notin OpenLeaves(S)
  <2>1. /\ EffectivelyDone(S) \in SUBSET TaskId /\ Closed(Waits(S), EffectivelyDone(S))
        /\ {t} \subseteq EffectivelyDone(S)
    BY <1>1, <1>7, DoneIsClosed DEF Waits
  <2>2. Awaited(S, t) \subseteq EffectivelyDone(S)
    BY <2>1, ReachLeast DEF Awaited
  <2> QED
    BY <1>3, <1>5, <2>2
<1>8. ASSUME Awaited(S, t) \cap OpenLeaves(S) = {}, t \notin EffectivelyDone(S)
      PROVE  FALSE
  <2> DEFINE X == {x \in Awaited(S, t) : f[x].status # "done"}
  <2>1. /\ t \in Awaited(S, t) /\ Awaited(S, t) \subseteq Live(S)
        /\ \A x, y : x \in Awaited(S, t) /\ <<x, y>> \in Waits(S) => y \in Awaited(S, t)
    BY AwaitedLive
  <2>2. X \in SUBSET TaskId /\ X # {}
    BY <1>1, <1>3, <1>8, <2>1
  <2>3. Waits(S) \in SUBSET (TaskId \X TaskId) /\ Acyclic(Waits(S))
    BY WaitsEdges
  <2> HIDE DEF X
  <2>4. PICK x \in X : \A e \in Waits(S) : e[1] = x => e[2] \notin X
    BY <2>2, <2>3, LastInLine
  <2>5. x \in Awaited(S, t) /\ f[x].status # "done"
    BY DEF X
  <2>6. ASSUME NEW y, <<x, y>> \in Waits(S)
        PROVE  f[y].status = "done"
    <3>1. y \in Awaited(S, t) /\ y \notin X
      BY <2>1, <2>4, <2>5, <2>6
    <3> QED
      BY <3>1 DEF X
  <2> QED
    BY <1>6, <1>8, <2>1, <2>5, <2>6
<1> QED
  BY <1>7, <1>8

\* Row x of A is live in B, waits there for all that it waited for, and is as
\* unfinished by itself as it was.
Undisturbed(A, B, x) ==
  /\ x \in Live(A)
  /\ \A y : <<x, y>> \in Waits(A) => <<x, y>> \in Waits(B)
  /\ x \in OpenLeaves(A) => x \in OpenLeaves(B)

\* What was not done stays so, unless a row that it waits on is disturbed.
LEMMA NewlyDone ==
  ASSUME NEW A, Wired(A), NEW B, Wired(B), NEW t \in EffectivelyDone(B),
         \A x \in Awaited(B, t) : Undisturbed(A, B, x)
  PROVE  t \in EffectivelyDone(A)
<1>1. t \in Live(B)
  BY DEF EffectivelyDone
<1> DEFINE R == Awaited(B, t)
<1>2. /\ t \in R /\ R \subseteq Live(B)
      /\ \A x, y : x \in R /\ <<x, y>> \in Waits(B) => y \in R
  BY <1>1, AwaitedLive
<1>3. R \cap OpenLeaves(B) = {}
  BY <1>1, DoneRows
<1>4. t \in Live(A)
  BY <1>2 DEF Undisturbed
<1> HIDE DEF R
<1>5. Closed(Waits(A), R)
  <2> SUFFICES ASSUME NEW e \in Waits(A), e[1] \in R
               PROVE  e[2] \in R
    BY DEF Closed
  <2>1. e = <<e[1], e[2]>>
    BY WaitsEdges
  <2> QED
    BY <1>2, <2>1 DEF Undisturbed, R
<1>6. R \in SUBSET TaskId /\ {t} \subseteq R
  BY <1>2 DEF Live
<1>7. Awaited(A, t) \subseteq R
  BY <1>5, <1>6, ReachLeast DEF Awaited
<1>8. Awaited(A, t) \cap OpenLeaves(A) = {}
  BY <1>3, <1>7 DEF Undisturbed, R
<1> QED
  BY <1>4, <1>8, DoneRows

-----------------------------------------------------------------------------
(* Where a reconcile gets to *)

\* A row below that reconcile does not climb from.
HeldBelow(S, t) ==
  \E h \in Awaited(S, t) \ {t} : IsSeriesHead(S, h) /\ S.task[h].parent \in Live(S)

\* A done row is reached from any seed that it waits on.
LEMMA ReconcileClimbs ==
  ASSUME NEW S, Wired(S), NEW seeds, NEW t \in EffectivelyDone(S),
         Awaited(S, t) \cap seeds # {}
  PROVE  t \in Reconciled(S, seeds) \/ HeldBelow(S, t)
<1> DEFINE R == Awaited(S, t)
           C == Reconciled(S, seeds)
           walk == LiveEdges(S, WalkEdges(S))
           Y == R \ C
<1> SUFFICES ASSUME t \notin C, ~HeldBelow(S, t)
             PROVE  FALSE
  OBVIOUS
<1>1. t \in Live(S) /\ S \in Store /\ Acyclic(StoredWaits(S)) /\ Live(S) \in SUBSET TaskId
  BY DEF EffectivelyDone, Wired, Live
<1>2. /\ t \in R /\ R \subseteq Live(S)
      /\ \A x, y : x \in R /\ <<x, y>> \in Waits(S) => y \in R
  BY <1>1, AwaitedLive
<1>3. R \subseteq EffectivelyDone(S)
  <2>1. /\ EffectivelyDone(S) \in SUBSET TaskId /\ Closed(Waits(S), EffectivelyDone(S))
        /\ {t} \subseteq EffectivelyDone(S)
    BY <1>1, DoneIsClosed DEF Waits
  <2> QED
    BY <2>1, ReachLeast DEF Awaited
<1>4. seeds \cap Live(S) \subseteq C /\ Closed(walk, C)
  <2>1. walk \in SUBSET (TaskId \X TaskId)
    <3>1. ASSUME NEW e \in walk
          PROVE  e \in TaskId \X TaskId
      <4>1. e \in WalkEdges(S) /\ e[1] \in Live(S) /\ e[2] \in Live(S)
        BY DEF LiveEdges
      <4>2. e = <<e[1], e[2]>>
        BY <4>1 DEF WalkEdges
      <4> QED
        BY <1>1, <4>1, <4>2
    <3> QED
      BY <3>1
  <2>2. seeds \cap Live(S) \in SUBSET TaskId
    BY <1>1
  <2> HIDE DEF walk
  <2> QED
    BY <2>1, <2>2, ReachHolds, ReachClosed DEF Reconciled, walk
<1>5. ASSUME NEW x, NEW y, x \in Y, <<x, y>> \in Waits(S)
      PROVE  y \in Y
  <2>1. x \in R /\ y \in R /\ x \in Live(S) /\ y \in Live(S) /\ y \in EffectivelyDone(S)
    BY <1>2, <1>3, <1>5
  <2>2. SUFFICES ASSUME y \in C
                 PROVE  FALSE
    BY <2>1
  <2>3. <<y, x>> \notin walk
    BY <1>4, <1>5, <2>2 DEF Closed
  <2>4. <<y, x>> \notin WalkEdges(S)
    BY <2>1, <2>3 DEF LiveEdges
  <2>5. <<x, y>> \notin S.dep
    <3>1. ASSUME <<x, y>> \in S.dep
          PROVE  <<y, x>> \in WalkEdges(S)
      <4> DEFINE d == <<x, y>>
      <4>1. d \in S.dep /\ d[2] \in EffectivelyDone(S) /\ <<d[2], d[1]>> = <<y, x>>
        BY <2>1, <3>1
      <4> QED
        BY <4>1 DEF WalkEdges
    <3> QED
      BY <2>4, <3>1
  <2>6. S.task[y].parent = x
    BY <1>5, <2>5, WaitsEdges
  <2>7. IsSeriesHead(S, y)
    <3>1. x # None
      BY <1>1, <2>1, RowBounds DEF TaskId, None
    <3> QED
      BY <2>1, <2>4, <2>6, <3>1 DEF WalkEdges
  <2>8. y # t
    <3>1. <<x, y>> \in Waits(S) /\ Waits(S) \in SUBSET (TaskId \X TaskId) /\ Acyclic(Waits(S))
      BY <1>5, WaitsEdges
    <3>2. x \notin Reach(Waits(S), {y})
      BY <3>1 DEF Acyclic
    <3> QED
      BY <2>1, <3>2 DEF Awaited
  <2> QED
    BY <2>1, <2>6, <2>7, <2>8 DEF HeldBelow
<1>6. Closed(Waits(S), Y)
  <2> SUFFICES ASSUME NEW e \in Waits(S), e[1] \in Y
               PROVE  e[2] \in Y
    BY DEF Closed
  <2>1. e = <<e[1], e[2]>>
    BY WaitsEdges
  <2> HIDE DEF Y
  <2> QED
    BY <1>5, <2>1
<1>7. Y \in SUBSET TaskId /\ {t} \subseteq Y
  BY <1>1, <1>2
<1>8. R \subseteq Y
  BY <1>6, <1>7, ReachLeast DEF Awaited
<1> QED
  BY <1>2, <1>4, <1>8

-----------------------------------------------------------------------------
(* What a roll-forward leaves alone, and what it leaves behind              *)

LEMMA ForwardEffect ==
  ASSUME NEW S, Wired(S), NEW H \in SUBSET Live(S), CanRollForward(S, H),
         NEW R, R = RollForward(S, H), NEW N, N = Taken(S, Inserting(S, H))
  PROVE  /\ Wired(R) /\ RolledForward(S, Inserting(S, H), R)
         /\ \A t \in Rows(S) : R.task[t] = S.task[t]
         /\ Rows(R) = Rows(S) \cup N /\ Live(R) = Live(S) \cup N
         /\ N \cap Rows(S) = {} /\ Live(S) \subseteq Rows(S)
         /\ \A x, y : x \in Live(S) => (<<x, y>> \in Waits(R) <=> <<x, y>> \in Waits(S))
         /\ \A x, y : x \in N /\ <<x, y>> \in Waits(R) => y \in N
<1> DEFINE I == Inserting(S, H)
<1>1. /\ S \in Store /\ I \in SUBSET Live(S) /\ HasRoom(S, I)
      /\ \A h \in I : \E d \in Date : Lands(S, h, d)
  BY DEF Wired, Inserting, CanRollForward
<1>2. Wired(R) /\ RolledForward(S, I, R)
  BY <1>1, InsertedWired, InsertOccurrencesEffect DEF RollForward
<1> HIDE DEF I
<1>3. /\ \A t \in Rows(S) : R.task[t] = S.task[t]
      /\ \A t \in TaskId \ Rows(S) :
           \/ t \notin N /\ R.task[t] = S.task[t]
           \/ t \in N /\ FreshCopy(S, I, t, R.task[t])
      /\ R.dep \subseteq S.dep \cup (N \X N) /\ S.dep \subseteq R.dep
  BY <1>2 DEF RolledForward, I
<1>4. /\ N \cap Rows(S) = {} /\ N \subseteq TaskId /\ Rows(S) \subseteq TaskId
      /\ Live(S) \subseteq Rows(S)
  BY TakenFree DEF Taken, Rows, Live, I
<1>5. \A n \in N : /\ n \in TaskId /\ R.task[n].state = "live"
                   /\ R.task[n].parent \in N \cup {None}
  BY <1>3, <1>4 DEF FreshCopy, I
<1>6. Rows(R) = Rows(S) \cup N
  BY <1>3, <1>4, <1>5 DEF Rows
<1>7. Live(R) = Live(S) \cup N
  BY <1>3, <1>4, <1>5 DEF Rows, Live
<1>8. /\ \A y \in Rows(S) : S.task[y].parent \in Rows(S) \cup {None}
      /\ \A e \in S.dep : e[1] \in Rows(S) /\ e[2] \in Rows(S)
  <2>1. StoredWaits(S) \in SUBSET (Rows(S) \X Rows(S))
    BY DEF Wired
  <2> QED
    BY <2>1, WiredEdges
<1>9. ASSUME NEW x \in Live(S), NEW y
      PROVE  <<x, y>> \in Waits(R) <=> <<x, y>> \in Waits(S)
  <2>1. x \notin N /\ x \in Rows(S) /\ x # None
    BY <1>4, RowBounds DEF TaskId, None
  <2>2. <<x, y>> \in R.dep <=> <<x, y>> \in S.dep
    BY <1>3, <2>1
  <2>3. CASE y \in N
    <3>1. R.task[y].parent # x
      BY <1>5, <2>1, <2>3
    <3>2. <<x, y>> \notin S.dep /\ y \notin Live(S)
      <4> DEFINE e == <<x, y>>
      <4>1. e[2] = y
        OBVIOUS
      <4> QED
        BY <1>4, <1>8, <2>3, <4>1
    <3> QED
      BY <1>2, <2>2, <3>1, <3>2, WaitsEdges
  <2>4. CASE y \notin N
    <3>1. y \in Live(R) <=> y \in Live(S)
      BY <1>7, <2>4
    <3>2. y \in Live(S) => R.task[y] = S.task[y]
      BY <1>3, <1>4
    <3>3. x \in Live(R)
      BY <1>7
    <3> QED
      BY <1>2, <2>2, <3>1, <3>2, <3>3, WaitsEdges
  <2> QED
    BY <2>3, <2>4
<1>10. ASSUME NEW x \in N, NEW y, <<x, y>> \in Waits(R)
       PROVE  y \in N
  <2>1. y \in Live(R) /\ (R.task[y].parent = x \/ <<x, y>> \in R.dep)
    BY <1>2, <1>10, WaitsEdges
  <2>2. x \notin Rows(S) /\ x # None
    BY <1>4, RowBounds DEF TaskId, None
  <2>3. CASE R.task[y].parent = x
    BY <1>3, <1>4, <1>7, <1>8, <2>1, <2>2, <2>3
  <2>4. CASE <<x, y>> \in R.dep
    <3> DEFINE e == <<x, y>>
    <3>1. e[1] = x /\ e[2] = y
      OBVIOUS
    <3>2. e \notin S.dep
      BY <1>8, <2>2, <3>1
    <3> QED
      BY <1>3, <2>4, <3>2
  <2> QED
    BY <2>1, <2>3, <2>4
<1> QED
  BY <1>2, <1>3, <1>4, <1>6, <1>7, <1>9, <1>10 DEF I

LEMMA CopyRowOpen ==
  ASSUME NEW S, NEW H, NEW c
  PROVE  /\ CopyRow(S, H, c).status = "open" /\ CopyRow(S, H, c).state = "live"
         /\ CopyRow(S, H, c).due = CHOOSE d \in Date : Lands(S, c[1], d)
         /\ c[1] = c[2] => CopyRow(S, H, c).series = S.task[c[2]].series
<1>1. DOMAIN NoRow = {"state", "status", "project", "parent", "due", "repeat", "series",
                      "dwt", "dwp", "skipped", "superseded"} /\ NoRow.status = "open"
  BY DEF NoRow
<1> QED
  BY <1>1 DEF CopyRow

\* No copy is done: what it waits on are copies, and they start open.
LEMMA CopiesNotDone ==
  ASSUME NEW S, Wired(S), NEW H \in SUBSET Live(S), CanRollForward(S, H),
         NEW R, R = RollForward(S, H), NEW t \in EffectivelyDone(R)
  PROVE  t \in Live(S)
<1> DEFINE N == Taken(S, Inserting(S, H))
<1>1. /\ Wired(R) /\ Live(R) = Live(S) \cup N
      /\ \A x, y : x \in N /\ <<x, y>> \in Waits(R) => y \in N
  BY ForwardEffect
<1>2. N \in SUBSET TaskId /\ t \in Live(R)
  BY DEF Taken, EffectivelyDone
<1>3. ASSUME NEW n \in N
      PROVE  R.task[n].status = "open"
  <2>1. R = InsertOccurrences(S, Inserting(S, H)) /\ S \in Store /\ n \in TaskId
    BY <1>2 DEF RollForward, Wired
  <2>2. \E c : R.task[n] = CopyRow(S, Inserting(S, H), c)
    BY <1>3, <2>1, InsertedRow
  <2> QED
    BY <2>2, CopyRowOpen
<1> HIDE DEF N
<1>4. SUFFICES ASSUME t \in N
               PROVE  FALSE
  BY <1>1, <1>2
<1> DEFINE X == Awaited(R, t)
<1>5. /\ t \in X /\ X \subseteq Live(R) /\ X \cap OpenLeaves(R) = {}
      /\ \A x, y : x \in X /\ <<x, y>> \in Waits(R) => y \in X
  BY <1>1, <1>2, AwaitedLive, DoneRows
<1>6. /\ Waits(R) \in SUBSET (TaskId \X TaskId) /\ Acyclic(Waits(R))
      /\ X \in SUBSET TaskId /\ X # {}
  BY <1>1, <1>5, WaitsEdges DEF Live
<1>7. X \subseteq N
  <2>1. Closed(Waits(R), N)
    <3> SUFFICES ASSUME NEW e \in Waits(R), e[1] \in N
                 PROVE  e[2] \in N
      BY DEF Closed
    <3>1. e = <<e[1], e[2]>>
      BY <1>6
    <3> QED
      BY <1>1, <3>1
  <2> QED
    BY <1>2, <1>4, <2>1, ReachLeast DEF Awaited
<1> HIDE DEF X
<1>8. PICK x \in X : \A e \in Waits(R) : e[1] = x => e[2] \notin X
  BY <1>6, LastInLine
<1>9. ASSUME NEW c \in ListSubtasks(R, x)
      PROVE  FALSE
  <2>1. c \in Live(R) /\ R.task[c].parent = x
    BY DEF ListSubtasks
  <2>2. <<x, c>> \in Waits(R)
    BY <1>1, <1>5, <2>1, WaitsEdges
  <2> QED
    BY <1>5, <1>8, <2>2
<1>10. x \in OpenLeaves(R)
  BY <1>3, <1>5, <1>7, <1>9 DEF OpenLeaves
<1> QED
  BY <1>5, <1>10

\* A row that was there waits on what it did, and is as done as it was.
LEMMA RowsStayAsDone ==
  ASSUME NEW S, Wired(S), NEW H \in SUBSET Live(S), CanRollForward(S, H),
         NEW R, R = RollForward(S, H), NEW t \in Live(S)
  PROVE  /\ Awaited(R, t) = Awaited(S, t)
         /\ t \in EffectivelyDone(R) <=> t \in EffectivelyDone(S)
<1> DEFINE N == Taken(S, Inserting(S, H))
<1>1. /\ Wired(R) /\ Live(R) = Live(S) \cup N /\ N \cap Rows(S) = {}
      /\ Live(S) \subseteq Rows(S) /\ \A u \in Rows(S) : R.task[u] = S.task[u]
      /\ \A x, y : x \in Live(S) => (<<x, y>> \in Waits(R) <=> <<x, y>> \in Waits(S))
  BY ForwardEffect
<1> HIDE DEF N
<1>2. t \in Live(R) /\ t \in TaskId /\ {t} \in SUBSET TaskId
  BY <1>1 DEF Live
<1>3. ASSUME NEW A, Wired(A), NEW B, Wired(B), t \in Live(A), t \in Live(B),
             \A x, y : x \in Awaited(A, t) => (<<x, y>> \in Waits(B) => <<x, y>> \in Waits(A))
      PROVE  Awaited(B, t) \subseteq Awaited(A, t)
  <2>1. /\ t \in Awaited(A, t) /\ Awaited(A, t) \subseteq Live(A)
        /\ \A x, y : x \in Awaited(A, t) /\ <<x, y>> \in Waits(A) => y \in Awaited(A, t)
    BY <1>3, AwaitedLive
  <2>2. Closed(Waits(B), Awaited(A, t))
    <3> SUFFICES ASSUME NEW e \in Waits(B), e[1] \in Awaited(A, t)
                 PROVE  e[2] \in Awaited(A, t)
      BY DEF Closed
    <3>1. e = <<e[1], e[2]>>
      BY <1>3, WaitsEdges
    <3> QED
      BY <1>3, <2>1, <3>1
  <2>3. Awaited(A, t) \in SUBSET TaskId /\ {t} \subseteq Awaited(A, t)
    BY <2>1 DEF Live
  <2>4. \A C \in SUBSET TaskId : {t} \subseteq C /\ Closed(Waits(B), C)
                                   => Reach(Waits(B), {t}) \subseteq C
    BY <1>2, ReachLeast
  <2> QED
    BY <2>2, <2>3, <2>4 DEF Awaited
<1>4. Awaited(S, t) \subseteq Live(S)
  BY AwaitedLive
<1>5. Awaited(R, t) \subseteq Awaited(S, t)
  BY <1>1, <1>2, <1>3, <1>4
<1>6. Awaited(S, t) \subseteq Awaited(R, t)
  BY <1>1, <1>2, <1>3, <1>4, <1>5
<1>7. ASSUME NEW x \in Live(S)
      PROVE  x \in OpenLeaves(R) <=> x \in OpenLeaves(S)
  <2>1. x \in Live(R) /\ R.task[x] = S.task[x]
    BY <1>1
  <2>2. \A c : c \in ListSubtasks(S, x) <=> <<x, c>> \in Waits(S) /\ S.task[c].parent = x
    BY WaitsEdges DEF ListSubtasks
  <2>3. \A c : c \in ListSubtasks(R, x) <=> <<x, c>> \in Waits(R) /\ R.task[c].parent = x
    BY <1>1, <2>1, WaitsEdges DEF ListSubtasks
  <2>4. \A c : <<x, c>> \in Waits(S) => R.task[c] = S.task[c]
    BY <1>1, WaitsEdges
  <2>5. ListSubtasks(R, x) = {} <=> ListSubtasks(S, x) = {}
    BY <1>1, <2>2, <2>3, <2>4
  <2> QED
    BY <2>1, <2>5 DEF OpenLeaves
<1>8. t \in EffectivelyDone(R) <=> Awaited(R, t) \cap OpenLeaves(R) = {}
  BY <1>1, <1>2, DoneRows
<1>9. t \in EffectivelyDone(S) <=> Awaited(S, t) \cap OpenLeaves(S) = {}
  BY DoneRows
<1> QED
  BY <1>4, <1>5, <1>6, <1>7, <1>8, <1>9

-----------------------------------------------------------------------------
(* A head that is rolled forward is followed                                *)

\* The copies of a series land where a roll-forward of it may stop anyway.
LEMMA LandingDatesStay ==
  ASSUME NEW S, Wired(S), NEW H \in SUBSET Live(S), CanRollForward(S, H),
         NEW R, R = RollForward(S, H), NEW h \in Live(S)
  PROVE  LandingDates(R, h) = LandingDates(S, h)
<1> DEFINE I == Inserting(S, H)
           N == Taken(S, I)
           s == S.task[h].series
<1>1. /\ RolledForward(S, I, R) /\ Rows(R) = Rows(S) \cup N /\ Live(R) = Live(S) \cup N
      /\ N \cap Rows(S) = {} /\ \A t \in Rows(S) : R.task[t] = S.task[t]
      /\ Live(S) \subseteq Rows(S)
  BY ForwardEffect
<1>2. R.task[h] = S.task[h]
  BY <1>1
<1>3. \A n \in N : n \in TaskId /\ FreshCopy(S, I, n, R.task[n])
  BY <1>1 DEF RolledForward, Taken
<1>3a. I \subseteq Live(S)
  BY DEF Inserting
<1> HIDE DEF N, I
<1>4. ASSUME NEW e
      PROVE  SkippedOccurrenceOn(R, s, e) <=> SkippedOccurrenceOn(S, s, e)
  <2>1. \A n \in N : ~R.task[n].skipped
    BY <1>3 DEF FreshCopy, Unmarked
  <2> QED
    BY <1>1, <2>1 DEF SkippedOccurrenceOn
<1>5. ASSUME NEW e, Occurrences(R, s, e) # {}, Occurrences(S, s, e) = {}
      PROVE  ~SkippedOccurrenceOn(S, s, e)
  <2>1. PICK n \in Live(R) : s # None /\ R.task[n].series = s /\ R.task[n].due = e
    BY <1>5 DEF Occurrences
  <2>2. n \in N
    BY <1>1, <1>5, <2>1 DEF Occurrences
  <2>3. FreshCopy(S, I, n, R.task[n])
    BY <1>3, <2>2
  <2>4. PICK g \in I : s = S.task[g].series /\ Lands(S, g, e)
    BY <2>1, <2>3 DEF FreshCopy
  <2>5. e \in LandingDates(S, g)
    BY <2>4 DEF Lands
  <2> QED
    BY <1>5, <2>4, <2>5 DEF LandingDates
<1>6. ASSUME NEW e, Occurrences(S, s, e) # {}
      PROVE  Occurrences(R, s, e) # {}
  BY <1>1, <1>6 DEF Occurrences
<1>7. \A e \in Date : (Occurrences(R, s, e) # {} \/ ~SkippedOccurrenceOn(R, s, e))
                        <=> (Occurrences(S, s, e) # {} \/ ~SkippedOccurrenceOn(S, s, e))
  BY <1>4, <1>5, <1>6
<1> QED
  BY <1>2, <1>7 DEF LandingDates

LEMMA HeadFollowed ==
  ASSUME NEW S, Wired(S), NEW H \in SUBSET Live(S), CanRollForward(S, H),
         NEW R, R = RollForward(S, H), NEW h \in H, S.task[h].series # None
  PROVE  Followed(R, h)
<1> DEFINE I == Inserting(S, H)
           N == Taken(S, I)
           s == S.task[h].series
<1>1. /\ Rows(R) = Rows(S) \cup N /\ Live(R) = Live(S) \cup N
      /\ Live(S) \subseteq Rows(S) /\ \A t \in Rows(S) : R.task[t] = S.task[t]
  BY ForwardEffect
<1>2. h \in Live(S) /\ R.task[h] = S.task[h] /\ S \in Store
  BY <1>1 DEF Wired
<1>3. PICK d \in LandingDates(S, h) : \A e \in LandingDates(S, h) : d <= e
  <2>1. LandingDates(S, h) # {}
    BY DEF CanRollForward, RollsOffCalendar
  <2>2. LandingDates(S, h) \in SUBSET Nat
    BY RowBounds DEF LandingDates, Date
  <2> QED
    BY <2>1, <2>2, LeastNatural
<1>4. Lands(S, h, d) /\ d \in Date
  BY <1>3 DEF Lands, LandingDates
<1>5. Lands(R, h, d)
  BY <1>2, <1>4, LandingDatesStay DEF Lands
<1>6. SUFFICES Occurrences(R, s, d) # {}
  BY <1>2, <1>4, <1>5 DEF Followed
<1>7. CASE Occurrences(S, s, d) # {}
  BY <1>1, <1>7 DEF Occurrences
<1>8. CASE Occurrences(S, s, d) = {}
  <2> DEFINE G == {g \in H : S.task[g].series = s /\ Lands(S, g, d)}
  <2>1. G \in SUBSET Nat /\ h \in G
    <3>1. TaskId \in SUBSET Nat /\ H \in SUBSET TaskId
      BY RowBounds DEF Live, TaskId
    <3> QED
      BY <1>4, <3>1
  <2>2. PICK g \in G : \A k \in G : g <= k
    BY <2>1, LeastNatural
  <2>3. /\ g \in H /\ S.task[g].series = s /\ Lands(S, g, d) /\ g \in Live(S) /\ g \in TaskId
        /\ \A k \in H : S.task[k].series = S.task[g].series /\ Lands(S, k, d) => g <= k
    BY <2>2 DEF Live
  <2>4. g \in I
    BY <1>4, <1>8, <2>3 DEF Inserting
  <2> DEFINE c == <<g, g>>
  <2>5. c \in Copies(S, I) /\ I \in SUBSET Live(S)
    BY <1>2, <2>3, <2>4, SubtreeLive DEF Copies, Inserting
  <2>6. PICK n \in TaskId : TakesId(S, I, c, n)
    BY <2>5 DEF CanRollForward, HasRoom
  <2>7. n \in N
    BY <2>5, <2>6 DEF Taken
  <2>8. PICK b \in Copies(S, I) : TakesId(S, I, b, n) /\ R.task[n] = CopyRow(S, I, b)
    BY <1>2, <2>6, <2>7, InsertedRow DEF RollForward
  <2>9. b = c
    BY <1>2, <2>5, <2>6, <2>8, OneCopyPerId
  <2>10. c[1] = g /\ c[2] = g
    OBVIOUS
  <2> HIDE DEF c
  <2>11. (CHOOSE x \in Date : Lands(S, c[1], x)) = d
    <3>1. Lands(S, c[1], d)
      BY <2>3, <2>10
    <3> QED
      BY <1>4, <3>1, LandsOnce
  <2>12. R.task[n].state = "live" /\ R.task[n].series = s /\ R.task[n].due = d
    <3> DEFINE row == CopyRow(S, I, c)
    <3>1. R.task[n] = row
      BY <2>8, <2>9
    <3> HIDE DEF I
    <3>2. row.state = "live" /\ row.due = (CHOOSE x \in Date : Lands(S, c[1], x))
      BY CopyRowOpen
    <3>3. row.series = S.task[g].series
      BY <2>10, CopyRowOpen
    <3> HIDE DEF row
    <3> QED
      BY <2>3, <2>11, <3>1, <3>2, <3>3
  <2> QED
    BY <2>6, <2>12 DEF Occurrences, Live
<1> QED
  BY <1>7, <1>8

-----------------------------------------------------------------------------
(* What reconcile owes the heads that a request completes                   *)

LEMMA ReconciledHeads ==
  ASSUME NEW S, Wired(S), NEW seeds, CanReconcile(S, seeds),
         NEW R, R = Reconcile(S, seeds), NEW t \in DoneHeads(R), R.task[t].series # None
  PROVE  /\ t \in Live(S) /\ t \in DoneHeads(S)
         /\ Awaited(S, t) \cap seeds # {} => Followed(R, t) \/ HeldBelow(R, t)
<1> DEFINE H == DueHeads(S, seeds)
<1>1. /\ H \in SUBSET Live(S) /\ CanRollForward(S, H) /\ R = RollForward(S, H)
      /\ t \in EffectivelyDone(R) /\ IsSeriesHead(R, t)
  BY HeadsLive DEF Wired, CanReconcile, Reconcile, DoneHeads
<1> HIDE DEF H
<1>2. /\ Wired(R) /\ Live(S) \subseteq Live(R)
      /\ Live(S) \subseteq Rows(S) /\ \A u \in Rows(S) : R.task[u] = S.task[u]
  BY <1>1, ForwardEffect
<1>3. t \in Live(S)
  BY <1>1, CopiesNotDone
<1>4. t \in EffectivelyDone(S) /\ Awaited(R, t) = Awaited(S, t)
  BY <1>1, <1>3, RowsStayAsDone
<1>5. R.task[t] = S.task[t] /\ IsSeriesHead(S, t)
  BY <1>1, <1>2, <1>3 DEF IsSeriesHead
<1>6. ASSUME Awaited(S, t) \cap seeds # {}
      PROVE  Followed(R, t) \/ HeldBelow(R, t)
  <2>1. CASE t \in Reconciled(S, seeds)
    <3>1. t \in H
      BY <1>4, <1>5, <2>1 DEF DueHeads, H
    <3> QED
      BY <1>1, <1>5, <3>1, HeadFollowed
  <2>2. CASE HeldBelow(S, t)
    <3>1. PICK h \in Awaited(S, t) \ {t} : IsSeriesHead(S, h) /\ S.task[h].parent \in Live(S)
      BY <2>2 DEF HeldBelow
    <3>2. h \in Live(S)
      BY <1>3, <3>1, AwaitedLive
    <3>3. R.task[h] = S.task[h]
      BY <1>2, <3>2
    <3> QED
      BY <1>2, <1>4, <3>1, <3>3 DEF HeldBelow, IsSeriesHead
  <2> QED
    BY <1>4, <1>6, <2>1, <2>2, ReconcileClimbs
<1> QED
  BY <1>3, <1>4, <1>5, <1>6 DEF DoneHeads

-----------------------------------------------------------------------------
(* What a request disturbs is told to its reconcile                         *)

\* Outside the seeds the rows of S were there in A, wait on what they waited on,
\* are no more finished than they were, and repeat only if they did or are in a
\* series.
Quiet(A, S, seeds) ==
  \A x \in Live(S) \ seeds :
    /\ x \in Live(A) /\ S.task[x].parent \in {A.task[x].parent, None}
    /\ S.task[x].status = A.task[x].status \/ S.task[x].status # "done"
    /\ S.task[x].repeat # 0 => A.task[x].repeat # 0 \/ A.task[x].series # None
    /\ \A y : <<x, y>> \in Waits(A) => <<x, y>> \in Waits(S)

\* What a reconcile of S from the seeds has to answer for t is answered: all that
\* t waits on is as it was in A or waits on a seed, and t is no new head.
Answers(A, S, seeds, t) ==
  /\ \A x \in Awaited(S, t) : Undisturbed(A, S, x) \/ Awaited(S, x) \cap seeds # {}
  /\ \/ t \in seeds
     \/ IsSeriesHead(S, t) => IsSeriesHead(A, t) \/ A.task[t].series # None

LEMMA QuietAnswers ==
  ASSUME NEW A, Wired(A), AllInOrder(A), NEW S, Wired(S), NEW seeds, Quiet(A, S, seeds),
         NEW t \in Live(S)
  PROVE  Answers(A, S, seeds, t)
<1>1. /\ t \in Awaited(S, t) /\ Awaited(S, t) \subseteq Live(S)
      /\ Live(S) \subseteq TaskId
  BY AwaitedLive DEF Live
<1>2. ASSUME NEW x \in Awaited(S, t), Awaited(S, x) \cap seeds = {}
      PROVE  Undisturbed(A, S, x)
  <2>1. /\ x \in Live(S) /\ x \in Awaited(S, x)
        /\ \A y : <<x, y>> \in Waits(S) => y \in Awaited(S, x)
    BY <1>1, AwaitedLive
  <2>2. x \notin seeds
    BY <1>2, <2>1
  <2>3. /\ x \in Live(A)
        /\ S.task[x].status = A.task[x].status \/ S.task[x].status # "done"
    BY <2>1, <2>2 DEF Quiet
  <2>4. \A y : <<x, y>> \in Waits(A) => <<x, y>> \in Waits(S)
    BY <2>1, <2>2 DEF Quiet
  <2>5. ASSUME x \in OpenLeaves(A)
        PROVE  x \in OpenLeaves(S)
    <3>1. ListSubtasks(A, x) = {} /\ A.task[x].status # "done"
      BY <2>5 DEF OpenLeaves
    <3>2. ASSUME NEW c \in ListSubtasks(S, x)
          PROVE  FALSE
      <4>1. c \in Live(S) /\ S.task[c].parent = x
        BY DEF ListSubtasks
      <4>2. c \notin seeds
        BY <1>2, <2>1, <4>1, WaitsEdges
      <4>3. x # None
        BY <1>1, RowBounds DEF TaskId, None
      <4>4. c \in Live(A) /\ A.task[c].parent = x
        BY <4>1, <4>2, <4>3 DEF Quiet
      <4> QED
        BY <3>1, <4>4 DEF ListSubtasks
    <3> QED
      BY <2>1, <2>3, <3>1, <3>2 DEF OpenLeaves
  <2> QED
    BY <2>3, <2>4, <2>5 DEF Undisturbed
<1>3. ASSUME t \notin seeds, IsSeriesHead(S, t)
      PROVE  IsSeriesHead(A, t) \/ A.task[t].series # None
  <2>1. A.task[t].repeat # 0 \/ A.task[t].series # None
    BY <1>3 DEF Quiet, IsSeriesHead
  <2>2. A.task[t].repeat # 0 => A.task[t].due # None
    BY <1>1 DEF AllInOrder, InOrder
  <2> QED
    BY <2>1, <2>2 DEF IsSeriesHead
<1> QED
  BY <1>2, <1>3 DEF Answers

\* A head that reconcile owes a successor for.
Owed(A, R, t) ==
  /\ t \in DoneHeads(R) \ DoneHeads(A)
  /\ t \notin EffectivelyDone(A) \/ A.task[t].series = None
  /\ R.task[t].series # None

LEMMA HeadsAnswered ==
  ASSUME NEW A, Wired(A), NEW S, Wired(S), NEW seeds, CanReconcile(S, seeds),
         NEW R, R = Reconcile(S, seeds), NEW t, Owed(A, R, t), Answers(A, S, seeds, t)
  PROVE  Followed(R, t) \/ HeldBelow(R, t)
<1>1. /\ t \in Live(S) /\ t \in EffectivelyDone(S) /\ IsSeriesHead(S, t)
      /\ Awaited(S, t) \cap seeds # {} => Followed(R, t) \/ HeldBelow(R, t)
  BY ReconciledHeads DEF Owed, DoneHeads
<1>2. SUFFICES ASSUME Awaited(S, t) \cap seeds = {}
               PROVE  FALSE
  BY <1>1
<1>3. t \in Awaited(S, t)
  BY <1>1, AwaitedLive
<1>4. ASSUME NEW x \in Awaited(S, t)
      PROVE  Undisturbed(A, S, x)
  <2>1. Awaited(S, x) \subseteq Awaited(S, t)
    BY <1>1, AwaitedOn
  <2> QED
    BY <1>2, <2>1 DEF Answers
<1>5. t \in EffectivelyDone(A)
  BY <1>1, <1>4, NewlyDone
<1>6. ~IsSeriesHead(A, t) /\ A.task[t].series = None
  BY <1>5 DEF Owed, DoneHeads
<1> QED
  BY <1>1, <1>2, <1>3, <1>6 DEF Answers

\* The rows of X are rewritten, and every row that waits on one of them is told.
LEMMA QuietElsewhere ==
  ASSUME NEW A, Wired(A), NEW S, Wired(S), NEW X, NEW seeds, S.dep = A.dep,
         \A u \in TaskId \ X : S.task[u] = A.task[u],
         X \cap Live(S) \subseteq seeds,
         \A x, y : <<x, y>> \in Waits(A) /\ y \in X => x \in X \/ x \in seeds
  PROVE  Quiet(A, S, seeds)
<1> SUFFICES ASSUME NEW x \in Live(S) \ seeds
             PROVE  /\ x \in Live(A) /\ S.task[x] = A.task[x]
                    /\ \A y : <<x, y>> \in Waits(A) => <<x, y>> \in Waits(S)
  BY DEF Quiet
<1>1. x \in TaskId /\ x \notin X
  BY DEF Live
<1>2. x \in Live(A) /\ S.task[x] = A.task[x]
  BY <1>1 DEF Live
<1>3. ASSUME NEW y, <<x, y>> \in Waits(A)
      PROVE  <<x, y>> \in Waits(S)
  <2>1. y \in Live(A) /\ (A.task[y].parent = x \/ <<x, y>> \in A.dep)
    BY <1>3, WaitsEdges
  <2>2. y \notin X
    BY <1>1, <1>3
  <2>3. y \in Live(S) /\ S.task[y] = A.task[y]
    BY <2>1, <2>2 DEF Live
  <2> QED
    BY <2>1, <2>3, WaitsEdges
<1> QED
  BY <1>2, <1>3

\* Nothing is moved, at most pointers to the trash are cleared, and a row that is
\* finished or that starts to repeat is told or was in a series.
LEMMA QuietRows ==
  ASSUME NEW A, Wired(A), NEW S, Wired(S), NEW seeds, Live(S) = Live(A),
         \A x, y \in Live(A) : <<x, y>> \in A.dep => <<x, y>> \in S.dep,
         \A x \in Live(A) : S.task[x].parent = A.task[x].parent
                            \/ (S.task[x].parent = None /\ A.task[x].parent \notin Live(A)),
         \A x \in Live(A) \ seeds :
            /\ S.task[x].status = A.task[x].status \/ S.task[x].status # "done"
            /\ S.task[x].repeat # 0 => A.task[x].repeat # 0 \/ A.task[x].series # None
  PROVE  Quiet(A, S, seeds)
<1>1. ASSUME NEW x \in Live(S), NEW y, <<x, y>> \in Waits(A)
      PROVE  <<x, y>> \in Waits(S)
  <2>1. x \in Live(A) /\ y \in Live(A) /\ (A.task[y].parent = x \/ <<x, y>> \in A.dep)
    BY <1>1, WaitsEdges
  <2> QED
    BY <2>1, WaitsEdges
<1> QED
  BY <1>1 DEF Quiet

-----------------------------------------------------------------------------
(* What a request leaves, once more                                         *)

\* What CompletedSeriesGoOn says of the step.
HeadsGoOn ==
  \A t \in DoneHeads(db') \ DoneHeads(db) :
    t \notin EffectivelyDone(db) \/ task[t].series = None
      => WaitsOnHead(db, t) \/ WaitsOnHead(db', t) \/ GoesOn(t)

\* What is known of the stores around it.
Orderly ==
  /\ WiredDb /\ AllInOrder(db)
  /\ Wired(db')
  /\ \A t \in Live(db') : db'.task[t].repeat # 0 => db'.task[t].series # None

LEMMA HeadsOwed ==
  ASSUME Orderly, \A t : Owed(db, db', t) => WaitsOnHead(db, t) \/ WaitsOnHead(db', t) \/ GoesOn(t)
  PROVE  HeadsGoOn
<1> SUFFICES ASSUME NEW t \in DoneHeads(db') \ DoneHeads(db),
                    t \notin EffectivelyDone(db) \/ task[t].series = None
             PROVE  Owed(db, db', t)
  BY DEF HeadsGoOn
<1>1. t \in Live(db') /\ db'.task[t].repeat # 0
  BY DEF DoneHeads, EffectivelyDone, IsSeriesHead
<1>2. db.task = task
  BY DEF db
<1> QED
  BY <1>1, <1>2 DEF Owed, Orderly

LEMMA HeldWaits ==
  ASSUME NEW t, HeldBelow(db', t)
  PROVE  WaitsOnHead(db', t)
<1> DEFINE B == db'
<1> HIDE DEF B
<1>1. HeldBelow(B, t)
  BY DEF B
<1>2. WaitsOnHead(B, t)
  BY <1>1 DEF HeldBelow, WaitsOnHead, Awaited, Waits
<1> QED
  BY <1>2 DEF B

LEMMA CommitGoesOn ==
  ASSUME Orderly, NEW S, Wired(S), NEW seeds, Commit(S, seeds), Quiet(db, S, seeds)
  PROVE  HeadsGoOn
<1> DEFINE R == Reconcile(S, seeds)
<1>1. CanReconcile(S, seeds) /\ Write(R)
  BY DEF Commit
<1>2. /\ DueHeads(S, seeds) \in SUBSET Live(S) /\ CanRollForward(S, DueHeads(S, seeds))
      /\ R = RollForward(S, DueHeads(S, seeds))
  BY <1>1, HeadsLive DEF Wired, CanReconcile, Reconcile
<1> HIDE DEF R
<1>3. R \in Store
  BY <1>2, ForwardEffect DEF Wired
<1>4. db' = R
  BY <1>1, <1>3, WrittenStore
<1>5. ASSUME NEW t, Owed(db, R, t)
      PROVE  Followed(R, t) \/ HeldBelow(R, t)
  <2>1. t \in Live(S)
    BY <1>1, <1>5, ReconciledHeads DEF Owed, R
  <2>2. Answers(db, S, seeds, t)
    BY <2>1, QuietAnswers DEF Orderly, WiredDb
  <2> QED
    BY <1>1, <1>5, <2>2, HeadsAnswered DEF Orderly, WiredDb, R
<1>6. ASSUME NEW t, Owed(db, db', t)
      PROVE  WaitsOnHead(db', t) \/ GoesOn(t)
  BY <1>4, <1>5, <1>6, HeldWaits DEF GoesOn
<1> QED
  BY <1>6, HeadsOwed

LEMMA WriteGoesOn ==
  ASSUME Orderly, Quiet(db, db', {})
  PROVE  HeadsGoOn
<1> DEFINE S == db'
<1>1. Wired(S) /\ Wired(db) /\ AllInOrder(db) /\ Quiet(db, S, {})
  BY DEF Orderly, WiredDb
<1> HIDE DEF S
<1>2. ASSUME NEW t, Owed(db, S, t)
      PROVE  FALSE
  <2>1. t \in Live(S) /\ t \in EffectivelyDone(S) /\ IsSeriesHead(S, t)
    BY <1>2 DEF Owed, DoneHeads, EffectivelyDone
  <2>2. Answers(db, S, {}, t)
    BY <1>1, <2>1, QuietAnswers
  <2>3. \A x \in Awaited(S, t) : Undisturbed(db, S, x)
    BY <2>2 DEF Answers
  <2>4. t \in EffectivelyDone(db)
    BY <1>1, <2>1, <2>3, NewlyDone
  <2> QED
    BY <1>2, <2>1, <2>2, <2>4 DEF Owed, DoneHeads, Answers
<1> QED
  BY <1>2, HeadsOwed DEF S

-----------------------------------------------------------------------------
(* Requests, one by one: what each tells its reconcile                      *)

LEMMA CreateTaskGoesOn ==
  ASSUME Orderly, NEW id, NEW n \in NewTasks, CreateTask(id, n)
  PROVE  HeadsGoOn
<1> DEFINE S == [db EXCEPT !.task[id] = NewRow(db, n)]
<1>1. /\ WiredDb /\ Prepared(db, S) /\ id \in TaskId /\ id \notin Rows(db) /\ Commit(S, {id})
  BY CreateTaskPrepared DEF Orderly, CreateTask
<1>2. /\ Wired(db) /\ Wired(S) /\ S.dep = db.dep
      /\ \A u \in TaskId \ {id} : S.task[u] = db.task[u]
  BY <1>1 DEF Prepared, WiredDb, db
<1> HIDE DEF S
<1>3. \A x, y : <<x, y>> \in Waits(db) => y # id
  BY <1>1, <1>2, WaitsEdges DEF Rows, Live
<1>4. Quiet(db, S, {id})
  BY <1>2, <1>3, QuietElsewhere
<1> QED
  BY <1>1, <1>2, <1>4, CommitGoesOn

LEMMA StatusQuiet ==
  ASSUME WiredDb, NEW t \in Live(db), NEW s \in WorkflowStatus, NEW seeds,
         t \in seeds \/ s # "done",
         NEW S, S.dep = db.dep, S.task = [db EXCEPT !.task[t].status = s].task, Wired(S)
  PROVE  Quiet(db, S, seeds)
<1>1. /\ db.task = task /\ Wired(db) /\ t \in TaskId
      /\ \A u \in TaskId : task[u] \in Row
  BY DbFacts DEF Live
<1>2. S.task = Replaced(task, t, WithStatus(task[t], s))
  BY DEF db, Replaced, WithStatus
<1>3. /\ \A u \in TaskId \ {t} : S.task[u] = task[u]
      /\ S.task[t] = WithStatus(task[t], s)
  BY <1>1, <1>2 DEF Replaced, WiredDb, Sound
<1>4. SameFacts(S.task[t], task[t])
  BY <1>1, <1>3, WithStatusShape
<1>5. S.task[t].status = s
  BY <1>1, <1>3 DEF WithStatus, Row
<1>6. Live(S) = Live(db)
  BY <1>1, <1>3, <1>4 DEF Live, SameFacts
<1>7. \A x \in Live(db) : /\ S.task[x].parent = db.task[x].parent
                          /\ S.task[x].repeat = db.task[x].repeat
                          /\ x # t => S.task[x].status = db.task[x].status
  BY <1>1, <1>3, <1>4 DEF Live, SameFacts
<1> QED
  BY <1>1, <1>5, <1>6, <1>7, QuietRows

LEMMA MarkDoneGoesOn ==
  ASSUME Orderly, NEW t, MarkDone(t)
  PROVE  HeadsGoOn
<1> DEFINE S == [db EXCEPT !.task[t].status = "done"]
<1>1. "done" \in WorkflowStatus /\ t \in Live(db) /\ WiredDb /\ Commit(S, {t})
  BY DEF WorkflowStatus, MarkDone, Orderly
<1>2. Wired(S) /\ S.dep = db.dep /\ S.task = [db EXCEPT !.task[t].status = "done"].task
  BY <1>1, StatusStepped DEF Prepared, db
<1> HIDE DEF S
<1>3. Quiet(db, S, {t})
  BY <1>1, <1>2, StatusQuiet
<1> QED
  BY <1>1, <1>2, <1>3, CommitGoesOn

LEMMA ReopenTaskGoesOn ==
  ASSUME Orderly, NEW t, ReopenTask(t)
  PROVE  HeadsGoOn
<1> DEFINE B == db'
<1>1. "open" \in WorkflowStatus /\ t \in Live(db) /\ WiredDb
  BY DEF WorkflowStatus, ReopenTask, Orderly
<1>2. Wired(B) /\ B.dep = db.dep /\ B.task = [db EXCEPT !.task[t].status = "open"].task
  BY DEF Orderly, ReopenTask, Write, db
<1> HIDE DEF B
<1>3. Quiet(db, B, {})
  BY <1>1, <1>2, StatusQuiet
<1> QED
  BY <1>3, WriteGoesOn DEF B

LEMMA StopRecurrenceGoesOn ==
  ASSUME Orderly, NEW t, StopRecurrence(t)
  PROVE  HeadsGoOn
<1> DEFINE B == db'
<1>1. /\ WiredDb /\ db.task = task /\ Wired(db) /\ \A u \in TaskId : task[u] \in Row
  BY DbFacts DEF Orderly
<1>2. PICK rows : task' = [u \in TaskId |-> IF u \in rows THEN WithRepeat(task[u], 0) ELSE task[u]]
                  /\ dep' = dep
  BY DEF StopRecurrence, Write, db, WithRepeat
<1>3. /\ Wired(B) /\ B.dep = db.dep
      /\ B.task = [u \in TaskId |-> IF u \in rows THEN WithRepeat(task[u], 0) ELSE task[u]]
  BY <1>2 DEF Orderly, db
<1> HIDE DEF B
<1>4. ASSUME NEW u \in TaskId
      PROVE  /\ B.task[u].state = task[u].state /\ B.task[u].parent = task[u].parent
             /\ B.task[u].status = task[u].status
             /\ B.task[u].repeat = 0 \/ B.task[u].repeat = task[u].repeat
  <2>1. B.task[u] = WithRepeat(task[u], 0) \/ B.task[u] = task[u]
    BY <1>3
  <2>2. LET new == WithRepeat(task[u], 0)
        IN  /\ new.state = task[u].state /\ new.parent = task[u].parent
            /\ new.status = task[u].status /\ new.repeat = 0
    BY <1>1 DEF WithRepeat, Row
  <2> QED
    BY <2>1, <2>2
<1>5. Live(B) = Live(db)
  BY <1>1, <1>4 DEF Live
<1>6. \A x \in Live(db) : /\ B.task[x].parent = db.task[x].parent
                          /\ B.task[x].status = db.task[x].status
                          /\ B.task[x].repeat # 0 => db.task[x].repeat # 0
  BY <1>1, <1>4 DEF Live
<1>7. Quiet(db, B, {})
  BY <1>1, <1>3, <1>5, <1>6, QuietRows
<1> QED
  BY <1>7, WriteGoesOn DEF B

LEMMA AddDependencyGoesOn ==
  ASSUME Orderly, NEW t, NEW b, AddDependency(t, b)
  PROVE  HeadsGoOn
<1> DEFINE B == db'
<1>1. Wired(db) /\ Wired(B) /\ B.task = db.task /\ B.dep = db.dep \cup {<<t, b>>}
  BY DEF Orderly, WiredDb, AddDependency, Write, db
<1> HIDE DEF B
<1>2. Live(B) = Live(db)
  BY <1>1 DEF Live
<1>3. Quiet(db, B, {})
  BY <1>1, <1>2, QuietRows
<1> QED
  BY <1>3, WriteGoesOn DEF B

LEMMA RemoveDependencyGoesOn ==
  ASSUME Orderly, NEW e, RemoveDependency(e)
  PROVE  HeadsGoOn
<1> DEFINE S == [db EXCEPT !.dep = @ \ {e}]
<1>1. /\ Wired(db) /\ Wired(S) /\ S.task = db.task /\ S.dep = db.dep \ {e}
      /\ Commit(S, {e[1]})
  BY RemoveDependencyPrepared DEF Orderly, WiredDb, RemoveDependency, Prepared, db
<1> HIDE DEF S
<1>2. Live(S) = Live(db)
  BY <1>1 DEF Live
<1>3. ASSUME NEW x \in Live(S) \ {e[1]}, NEW y, <<x, y>> \in Waits(db)
      PROVE  <<x, y>> \in Waits(S)
  <2>1. x \in Live(db) /\ y \in Live(db) /\ (db.task[y].parent = x \/ <<x, y>> \in db.dep)
    BY <1>1, <1>3, WaitsEdges
  <2>2. <<x, y>> # e
    BY <1>3
  <2> QED
    BY <1>1, <1>2, <2>1, <2>2, WaitsEdges
<1>4. Quiet(db, S, {e[1]})
  BY <1>1, <1>2, <1>3 DEF Quiet
<1> QED
  BY <1>1, <1>4, CommitGoesOn

\* Rows of S outside X are as in A, and no row of X is live any more: the rows
\* that waited on one are its neighbours.
LEMMA QuietGone ==
  ASSUME NEW A, Wired(A), NEW S, Wired(S), NEW X, NEW seeds, S.dep = A.dep,
         \A u \in TaskId \ X : S.task[u] = A.task[u], X \cap Live(S) = {},
         Neighbours(A, X) \subseteq seeds
  PROVE  Quiet(A, S, seeds)
<1>1. ASSUME NEW x, NEW y, <<x, y>> \in Waits(A), y \in X, x \notin X
      PROVE  x \in seeds
  <2>1. x \in Live(A) /\ (A.task[y].parent = x \/ <<x, y>> \in A.dep)
    BY <1>1, WaitsEdges
  <2>2. x \in TaskId
    BY <2>1 DEF Live
  <2>3. x \in Neighbours(A, X)
    BY <1>1, <2>1, <2>2 DEF Neighbours, ListDependents
  <2> QED
    BY <2>3
<1> QED
  BY <1>1, QuietElsewhere

LEMMA TrashingRows ==
  ASSUME NEW S \in Store, NEW A, NEW root
  PROVE  /\ Trashing(S, A, root).dep = S.dep
         /\ \A u \in TaskId \ A : Trashing(S, A, root).task[u] = S.task[u]
         /\ \A u \in TaskId \cap A : Trashing(S, A, root).task[u].state = "trashed"
<1> DEFINE by(u) == IF u = root THEN S.task[u].dwt ELSE root
<1>1. /\ Trashing(S, A, root).dep = S.dep
      /\ Trashing(S, A, root).task
           = [u \in TaskId |-> IF u \notin A THEN S.task[u] ELSE Binned(S.task[u], by(u))]
  BY DEF Trashing, Store, Binned
<1>2. \A u \in TaskId : S.task[u] \in Row
  BY DEF Store
<1> HIDE DEF by
<1>3. ASSUME NEW u \in TaskId \cap A
      PROVE  Trashing(S, A, root).task[u].state = "trashed"
  <2>1. Trashing(S, A, root).task[u] = Binned(S.task[u], by(u))
    BY <1>1
  <2>2. Binned(S.task[u], by(u)).state = "trashed"
    BY <1>2 DEF Binned, Row
  <2> QED
    BY <2>1, <2>2
<1> QED
  BY <1>1, <1>3

LEMMA SoftDeleteTaskGoesOn ==
  ASSUME Orderly, NEW t, SoftDeleteTask(t)
  PROVE  HeadsGoOn
<1> DEFINE A == LiveSubtree(db, t)
           S == Trashing(db, A, t)
           seeds == Neighbours(db, A)
<1>1. t \in Live(db) /\ Commit(S, seeds) /\ WiredDb /\ Wired(db) /\ db \in Store
  BY DbFacts DEF SoftDeleteTask, Orderly
<1>2. Wired(S)
  BY <1>1, SoftDeleteTaskPrepared DEF Prepared
<1>3. /\ S.dep = db.dep
      /\ \A u \in TaskId \ A : S.task[u] = db.task[u]
      /\ \A u \in TaskId \cap A : S.task[u].state = "trashed"
  BY <1>1, TrashingRows
<1> HIDE DEF S, A
<1>4. A \cap Live(S) = {}
  BY <1>3 DEF Live
<1>5. Quiet(db, S, seeds)
  BY <1>1, <1>2, <1>3, <1>4, QuietGone
<1> HIDE DEF seeds
<1> QED
  BY <1>1, <1>2, <1>5, CommitGoesOn

LEMMA SoftDeleteProjectGoesOn ==
  ASSUME Orderly, NEW p \in ProjectId, SoftDeleteProject(p)
  PROVE  HeadsGoOn
<1> DEFINE A == ProjectTasks(db, p)
           S == TrashedWithProject(db, p)
           seeds == ProjectNeighbours(db, p)
           R == Reconcile(S, seeds)
           B == db'
<1>1. /\ CanReconcile(S, seeds) /\ Write([R EXCEPT !.project[p] = "trashed"])
      /\ WiredDb /\ Wired(db) /\ db \in Store /\ db.task = task
      /\ \A u \in TaskId : task[u] \in Row
  BY DbFacts DEF SoftDeleteProject, Orderly
<1>2. Wired(S)
  BY <1>1, SoftDeleteProjectPrepared DEF Prepared
<1>3. /\ S.dep = db.dep
      /\ S.task = [u \in TaskId |-> IF u \in A THEN TakenBy(task[u], p) ELSE task[u]]
  BY <1>1 DEF TrashedWithProject, Store, TakenBy
<1>4. seeds = Neighbours(db, A)
  BY DEF ProjectNeighbours, Neighbours
<1> HIDE DEF S, A
<1>5. \A u \in TaskId \ A : S.task[u] = db.task[u]
  BY <1>1, <1>3
<1>6. A \cap Live(S) = {}
  <2>1. ASSUME NEW u \in TaskId \cap A
        PROVE  S.task[u].state = "trashed"
    <3>1. S.task[u] = TakenBy(task[u], p)
      BY <1>3
    <3>2. TakenBy(task[u], p).state = "trashed"
      BY <1>1 DEF TakenBy, Row
    <3> QED
      BY <3>1, <3>2
  <2> QED
    BY <2>1 DEF Live
<1>7. Quiet(db, S, seeds)
  BY <1>1, <1>2, <1>3, <1>4, <1>5, <1>6, QuietGone
<1> HIDE DEF seeds
<1>8. /\ DueHeads(S, seeds) \in SUBSET Live(S) /\ CanRollForward(S, DueHeads(S, seeds))
      /\ R = RollForward(S, DueHeads(S, seeds))
  BY <1>1, <1>2, HeadsLive DEF Wired, CanReconcile, Reconcile
<1> HIDE DEF R
<1>9. Wired(R) /\ R \in Store
  BY <1>2, <1>8, ForwardEffect DEF Wired
<1>10. Wired(B) /\ B.task = R.task /\ B.dep = R.dep
  BY <1>1, <1>9 DEF Write, Orderly, db, Store
<1>11. db' = B
  BY DEF B
<1> HIDE DEF B
<1>12. Live(B) = Live(R) /\ Waits(B) = Waits(R)
  <2>1. Live(B) = Live(R) /\ Rows(B) = Rows(R)
    BY <1>10 DEF Live, Rows
  <2> QED
    BY <1>10, <2>1 DEF Waits, LiveEdges, StoredWaits, StoredNesting
<1>13. \A t : /\ Awaited(B, t) = Awaited(R, t) /\ IsSeriesHead(B, t) = IsSeriesHead(R, t)
              /\ ListSubtasks(B, t) = ListSubtasks(R, t)
  BY <1>10, <1>12 DEF Awaited, IsSeriesHead, ListSubtasks
<1>14. OpenLeaves(B) = OpenLeaves(R)
  BY <1>10, <1>12, <1>13 DEF OpenLeaves
<1>15. ASSUME NEW t
       PROVE  t \in EffectivelyDone(B) <=> t \in EffectivelyDone(R)
  <2>1. t \notin Live(B) => t \notin EffectivelyDone(B) /\ t \notin EffectivelyDone(R)
    BY <1>12 DEF EffectivelyDone
  <2> QED
    BY <1>9, <1>10, <1>12, <1>13, <1>14, <2>1, DoneRows
<1>16. \A s, d : /\ Occurrences(B, s, d) = Occurrences(R, s, d)
                 /\ SkippedOccurrenceOn(B, s, d) <=> SkippedOccurrenceOn(R, s, d)
  BY <1>10, <1>12 DEF Occurrences, SkippedOccurrenceOn, Rows
<1>17. \A t, d : Lands(B, t, d) <=> Lands(R, t, d)
  BY <1>10, <1>16 DEF Lands, LandingDates
<1>18. ASSUME NEW t, Owed(db, B, t)
       PROVE  Followed(B, t) \/ HeldBelow(B, t)
  <2>1. Owed(db, R, t)
    BY <1>10, <1>13, <1>15, <1>18 DEF Owed, DoneHeads
  <2>2. t \in Live(S)
    BY <1>1, <1>2, <2>1, ReconciledHeads DEF Owed, R
  <2>3. Answers(db, S, seeds, t)
    BY <1>1, <1>2, <1>7, <2>2, QuietAnswers DEF Orderly
  <2>4. Followed(R, t) \/ HeldBelow(R, t)
    BY <1>1, <1>2, <2>1, <2>3, HeadsAnswered DEF R
  <2>5. Followed(R, t) => Followed(B, t)
    BY <1>10, <1>16, <1>17 DEF Followed
  <2>6. HeldBelow(R, t) => HeldBelow(B, t)
    BY <1>10, <1>12, <1>13 DEF HeldBelow
  <2> QED
    BY <2>4, <2>5, <2>6
<1>19. ASSUME NEW t, Owed(db, db', t)
       PROVE  WaitsOnHead(db', t) \/ GoesOn(t)
  BY <1>11, <1>18, <1>19, HeldWaits DEF GoesOn
<1> QED
  BY <1>19, HeadsOwed

\* Rows of S outside X are as in A, and no row of X was live in A.
LEMMA QuietBack ==
  ASSUME NEW A, Wired(A), NEW S, Wired(S), NEW X, S.dep = A.dep,
         \A u \in TaskId \ X : S.task[u] = A.task[u], X \cap Live(A) = {}
  PROVE  Quiet(A, S, X)
<1>1. \A x, y : <<x, y>> \in Waits(A) => y \notin X
  BY WaitsEdges
<1> QED
  BY <1>1, QuietElsewhere

LEMMA RestoredGoesOn ==
  ASSUME Orderly, NEW A \in SUBSET Trashed(db), \A u \in A : ~task[u].superseded,
         Commit(Restored(db, A), A)
  PROVE  HeadsGoOn
<1> DEFINE S == Restored(db, A)
<1>1. WiredDb /\ Wired(db) /\ Wired(S) /\ db \in Store
  BY RestoredPrepared, DbFacts DEF Orderly, Prepared
<1>2. S.dep = db.dep /\ \A u \in TaskId \ A : S.task[u] = db.task[u]
  BY <1>1 DEF Restored, Store
<1> HIDE DEF S
<1>3. A \cap Live(db) = {}
  BY DEF Trashed, Live
<1>4. Quiet(db, S, A)
  BY <1>1, <1>2, <1>3, QuietBack
<1> QED
  BY <1>1, <1>4, CommitGoesOn DEF S

\* A rewind writes dates and retires rows.
LEMMA RewoundRows ==
  ASSUME WiredDb, NEW t
  PROVE  /\ Rewound(db, t).dep = db.dep
         /\ \A u \in TaskId :
              LET new == Rewound(db, t).task[u]
              IN  /\ new.state = task[u].state /\ new.status = task[u].status
                  /\ new.parent = task[u].parent /\ new.repeat = task[u].repeat
<1> DEFINE next == NextLive(db, t)
           due == task[t].due
           S1 == Rescheduled(db, next, due)
           A == {t} \cup Stamped(S1, t)
<1>1. db \in Store /\ db.task = task /\ \A u \in TaskId : task[u] \in Row
  BY DbFacts
<1>2. /\ S1.dep = db.dep
      /\ S1.task = [u \in TaskId |-> IF u \in LiveSubtree(db, next)
                                     THEN WithDue(task[u], due) ELSE task[u]]
  BY <1>1 DEF Rescheduled, Store, WithDue
<1>3. /\ Rewound(db, t).dep = S1.dep
      /\ Rewound(db, t).task = [u \in TaskId |->
            IF u \in A
            THEN [S1.task[u] EXCEPT !.superseded = TRUE, !.skipped = IF u = t THEN FALSE ELSE @]
            ELSE S1.task[u]]
  BY <1>1 DEF Rewound, Supersede, Rescheduled, Store
<1> HIDE DEF S1, A, due
<1>4. ASSUME NEW u \in TaskId
      PROVE  LET new == Rewound(db, t).task[u]
             IN  /\ new.state = task[u].state /\ new.status = task[u].status
                 /\ new.parent = task[u].parent /\ new.repeat = task[u].repeat
  <2> DEFINE mid == S1.task[u]
             new == Rewound(db, t).task[u]
  <2>1. mid = WithDue(task[u], due) \/ mid = task[u]
    BY <1>2
  <2>2. \/ new = mid
        \/ new = [mid EXCEPT !.superseded = TRUE, !.skipped = IF u = t THEN FALSE ELSE @]
    BY <1>3
  <2> HIDE DEF mid, new
  <2>3. /\ mid.state = task[u].state /\ mid.status = task[u].status
        /\ mid.parent = task[u].parent /\ mid.repeat = task[u].repeat
        /\ DOMAIN mid = DOMAIN task[u]
    BY <1>1, <2>1 DEF WithDue, Row
  <2>4. /\ new.state = mid.state /\ new.status = mid.status
        /\ new.parent = mid.parent /\ new.repeat = mid.repeat
    <3>1. {"state", "status", "parent", "repeat"} \subseteq DOMAIN mid
      BY <1>1, <2>3 DEF Row
    <3> QED
      BY <2>2, <3>1
  <2> QED
    BY <2>3, <2>4 DEF new
<1> QED
  BY <1>2, <1>3, <1>4

LEMMA CommitRewindGoesOn ==
  ASSUME Orderly, NEW t \in Trashed(db), Rewinds(db, t), CommitRewind(t)
  PROVE  HeadsGoOn
<1> DEFINE S == Rewound(db, t)
           seeds == {NextLive(db, t)}
<1>1. /\ WiredDb /\ Wired(db) /\ Wired(S) /\ db.task = task /\ Commit(S, seeds)
  BY CommitRewindPrepared, DbFacts DEF Orderly, Prepared, CommitRewind
<1>2. /\ S.dep = db.dep
      /\ \A u \in TaskId : /\ S.task[u].state = task[u].state
                           /\ S.task[u].status = task[u].status
                           /\ S.task[u].parent = task[u].parent
                           /\ S.task[u].repeat = task[u].repeat
  BY <1>1, RewoundRows
<1> HIDE DEF S, seeds
<1>3. Live(S) = Live(db)
  BY <1>1, <1>2 DEF Live
<1>4. \A x \in Live(db) : /\ S.task[x].status = db.task[x].status
                          /\ S.task[x].parent = db.task[x].parent
                          /\ S.task[x].repeat = db.task[x].repeat
  BY <1>1, <1>2 DEF Live
<1>5. Quiet(db, S, seeds)
  BY <1>1, <1>2, <1>3, <1>4, QuietRows
<1> QED
  BY <1>1, <1>5, CommitGoesOn

LEMMA RestoreTaskGoesOn ==
  ASSUME Orderly, NEW t, RestoreTask(t)
  PROVE  HeadsGoOn
<1> DEFINE A == PlainRestoreSet(db, t)
<1>1. t \in Trashed(db) /\ db.task = task
  BY DEF RestoreTask, db
<1>2. CASE Rewinds(db, t)
  BY <1>1, <1>2, CommitRewindGoesOn DEF RestoreTask
<1>3. CASE ~Rewinds(db, t)
  <2>1. Commit(Restored(db, A), A)
    BY <1>3 DEF RestoreTask
  <2>2. A \in SUBSET Trashed(db) /\ \A u \in A : ~task[u].superseded
    BY <1>1 DEF RestoreTask, PlainRestoreSet, MarkedDescendants, Stamped
  <2> HIDE DEF A
  <2> QED
    BY <2>1, <2>2, RestoredGoesOn
<1> QED
  BY <1>2, <1>3

LEMMA RestoreTaskSubtreeGoesOn ==
  ASSUME Orderly, NEW t, RestoreTaskSubtree(t)
  PROVE  HeadsGoOn
<1> DEFINE A == {t} \cup MarkedDescendants(db, t)
<1>1. t \in Trashed(db) /\ db.task = task
  BY DEF RestoreTaskSubtree, db
<1>2. CASE Rewinds(db, t)
  BY <1>1, <1>2, CommitRewindGoesOn DEF RestoreTaskSubtree
<1>3. CASE ~Rewinds(db, t)
  <2>1. Commit(Restored(db, A), A)
    BY <1>3 DEF RestoreTaskSubtree
  <2>2. A \in SUBSET Trashed(db) /\ \A u \in A : ~task[u].superseded
    BY <1>1 DEF RestoreTaskSubtree, MarkedDescendants, Stamped
  <2> HIDE DEF A
  <2> QED
    BY <2>1, <2>2, RestoredGoesOn
<1> QED
  BY <1>2, <1>3

LEMMA RestoreProjectWithTasksGoesOn ==
  ASSUME Orderly, NEW p \in ProjectId, RestoreProjectWithTasks(p)
  PROVE  HeadsGoOn
<1> DEFINE S == BroughtBack(p)
           A == ProjectCascade(db, p)
<1>1. WiredDb /\ Wired(db) /\ Wired(S) /\ db.task = task
  BY RestoreProjectWithTasksPrepared, DbFacts DEF Orderly, Prepared
<1>2. Commit(S, A)
  BY DEF RestoreProjectWithTasks, BroughtBack
<1>3. S.dep = db.dep /\ \A u \in TaskId \ A : S.task[u] = db.task[u]
  BY <1>1 DEF BroughtBack, db
<1>4. A \cap Live(db) = {}
  BY DEF ProjectCascade, Trashed, Live
<1> HIDE DEF S, A
<1>5. Quiet(db, S, A)
  BY <1>1, <1>3, <1>4, QuietBack
<1> QED
  BY <1>1, <1>2, <1>5, CommitGoesOn

-----------------------------------------------------------------------------
(* Requests that only write                                                 *)

\* Live rows keep what counts, but for pointers to the trash and edges there.
LEMMA StillGoesOn ==
  ASSUME Orderly, NEW X, X \cap Live(db) = {},
         \A e \in dep : e[1] \notin X /\ e[2] \notin X => e \in dep',
         \A u \in TaskId \cap X : task'[u].state # "live",
         \A u \in TaskId \ X :
            /\ task'[u].state = task[u].state /\ task'[u].status = task[u].status
            /\ task'[u].repeat = task[u].repeat
            /\ \/ task'[u].parent = task[u].parent
               \/ task'[u].parent = None /\ task[u].parent \in X
  PROVE  HeadsGoOn
<1> DEFINE B == db'
<1>1. /\ Wired(db) /\ Wired(B) /\ db.task = task /\ db.dep = dep
      /\ B.task = task' /\ B.dep = dep'
  BY DEF Orderly, WiredDb, db
<1> HIDE DEF B
<1>2. Live(B) = Live(db)
  BY <1>1 DEF Live
<1>3. ASSUME NEW x \in Live(db), NEW y \in Live(db), <<x, y>> \in db.dep
      PROVE  <<x, y>> \in B.dep
  <2> DEFINE e == <<x, y>>
  <2>1. e \in dep /\ e[1] \notin X /\ e[2] \notin X
    BY <1>1, <1>3
  <2> QED
    BY <1>1, <2>1
<1>4. \A x \in Live(db) : x \in TaskId \ X
  BY DEF Live
<1>5. Quiet(db, B, {})
  BY <1>1, <1>2, <1>3, <1>4, QuietRows
<1> QED
  BY <1>5, WriteGoesOn DEF B

LEMMA CreateProjectGoesOn ==
  ASSUME Orderly, NEW p, CreateProject(p)
  PROVE  HeadsGoOn
<1>1. task' = task /\ dep' = dep
  BY DEF CreateProject, Write, db
<1>2. PICK X : X = {}
  OBVIOUS
<1>3. X \cap Live(db) = {} /\ \A u \in TaskId \cap X : task'[u].state # "live"
  BY <1>2
<1> QED
  BY <1>1, <1>3, StillGoesOn

LEMMA RestoreProjectAloneGoesOn ==
  ASSUME Orderly, NEW p, RestoreProjectAlone(p)
  PROVE  HeadsGoOn
<1>1. /\ dep' = dep
      /\ task' = [u \in TaskId |-> IF task[u].dwp = p THEN Unbound(task[u]) ELSE task[u]]
  BY DEF RestoreProjectAlone, Write, db, Unbound
<1>2. \A u \in TaskId : task[u] \in Row
  BY DbFacts DEF Orderly
<1>3. ASSUME NEW u \in TaskId
      PROVE  /\ task'[u].state = task[u].state /\ task'[u].status = task[u].status
             /\ task'[u].repeat = task[u].repeat /\ task'[u].parent = task[u].parent
  <2>1. task'[u] = task[u] \/ task'[u] = Unbound(task[u])
    BY <1>1
  <2> QED
    BY <1>2, <2>1 DEF Unbound, Row
<1>4. PICK X : X = {}
  OBVIOUS
<1>5. X \cap Live(db) = {} /\ \A u \in TaskId \cap X : task'[u].state # "live"
  BY <1>4
<1> QED
  BY <1>1, <1>3, <1>5, StillGoesOn

LEMMA PurgedRows ==
  ASSUME WiredDb, NEW A \in SUBSET TaskId
  PROVE  LET S == Purged(db, A)
         IN  /\ \A e \in dep : e[1] \notin A /\ e[2] \notin A => e \in S.dep
             /\ \A u \in A : S.task[u] = NoRow
             /\ \A u \in TaskId \ A :
                  /\ S.task[u] \in Row
                  /\ S.task[u].state = task[u].state /\ S.task[u].status = task[u].status
                  /\ S.task[u].repeat = task[u].repeat
                  /\ \/ S.task[u].parent = task[u].parent
                     \/ S.task[u].parent = None /\ task[u].parent \in A
<1> DEFINE S == Purged(db, A)
           cleared(ref) == IF ref \in A THEN None ELSE ref
<1>1. /\ S.dep = {e \in dep : e[1] \notin A /\ e[2] \notin A}
      /\ S.task = [u \in TaskId |->
                     IF u \in A THEN NoRow
                     ELSE Cleared(task[u], cleared(task[u].parent), cleared(task[u].dwt))]
  BY DEF Purged, db, Cleared
<1> HIDE DEF S
<1>2. ASSUME NEW u \in TaskId \ A
      PROVE  /\ S.task[u] \in Row
             /\ S.task[u].state = task[u].state /\ S.task[u].status = task[u].status
             /\ S.task[u].repeat = task[u].repeat
             /\ \/ S.task[u].parent = task[u].parent
                \/ S.task[u].parent = None /\ task[u].parent \in A
  <2> DEFINE row == task[u]
             q == cleared(row.parent)
             c == cleared(row.dwt)
             new == S.task[u]
  <2>1. row \in Row /\ new = Cleared(row, q, c)
    BY <1>1, DbFacts
  <2>2. q \in TaskId \cup {None} /\ c \in TaskId \cup {None}
    BY <2>1 DEF Row
  <2>3. q = row.parent \/ (q = None /\ row.parent \in A)
    OBVIOUS
  <2> HIDE DEF row, q, c, new
  <2>4. new \in Row /\ new.parent = q /\ new.state = row.state /\ new.repeat = row.repeat
    BY ONLY <2>1, <2>2, ClearedShape
  <2>5. new.status = row.status
    BY ONLY <2>1 DEF Cleared, Row
  <2> QED
    BY <2>3, <2>4, <2>5 DEF row, new
<1> QED
  BY <1>1, <1>2 DEF S

LEMMA PurgeTaskGoesOn ==
  ASSUME Orderly, NEW t, PurgeTask(t)
  PROVE  HeadsGoOn
<1> DEFINE A == PurgeSet(db, t)
           S == Purged(db, A)
<1>1. WiredDb /\ task' = S.task /\ dep' = S.dep /\ t \in Trashed(db) /\ t \in TaskId
  BY DEF Orderly, PurgeTask, Write, Trashed
<1>2. A \subseteq Trashed(db)
  <2> DEFINE mine == {u \in Trashed(db) : db.task[u].project = db.task[t].project}
             E == {e \in StoredNesting(db) : e[1] \in mine /\ e[2] \in mine}
  <2>1. mine \in SUBSET TaskId /\ {t} \subseteq mine /\ Closed(E, mine)
    BY <1>1 DEF Trashed, Closed
  <2>2. {t} \in SUBSET TaskId
    BY <1>1
  <2>3. A = Reach(E, {t})
    BY DEF PurgeSet
  <2> HIDE DEF mine, E, A
  <2>4. A \subseteq mine
    BY <2>1, <2>2, <2>3, ReachLeast
  <2> QED
    BY <2>4 DEF mine
<1> HIDE DEF A
<1>3. A \cap Live(db) = {} /\ A \in SUBSET TaskId
  BY <1>2 DEF Trashed, Live
<1>4. /\ \A e \in dep : e[1] \notin A /\ e[2] \notin A => e \in S.dep
      /\ \A u \in A : S.task[u] = NoRow
      /\ \A u \in TaskId \ A :
           /\ S.task[u].state = task[u].state /\ S.task[u].status = task[u].status
           /\ S.task[u].repeat = task[u].repeat
           /\ \/ S.task[u].parent = task[u].parent
              \/ S.task[u].parent = None /\ task[u].parent \in A
  BY <1>1, <1>3, PurgedRows
<1> HIDE DEF S
<1>5. NoRow.state # "live"
  BY NoRowType
<1> QED
  BY <1>1, <1>3, <1>4, <1>5, StillGoesOn

LEMMA PurgeProjectGoesOn ==
  ASSUME Orderly, NEW p, PurgeProject(p)
  PROVE  HeadsGoOn
<1> DEFINE A == {t \in Trashed(db) : task[t].project = p}
           S == Purged(db, A)
<1>1. /\ WiredDb /\ dep' = S.dep
      /\ task' = [u \in TaskId |-> IF S.task[u].dwp = p THEN Unbound(S.task[u]) ELSE S.task[u]]
  <2>1. S.dep = {e \in dep : e[1] \notin A /\ e[2] \notin A} /\ DOMAIN S = {"task", "dep", "project"}
    BY DEF Purged, db
  <2> HIDE DEF S
  <2> QED
    BY <2>1 DEF Orderly, PurgeProject, Write, Unbound, S
<1>2. A \cap Live(db) = {} /\ A \in SUBSET TaskId
  BY DEF Trashed, Live
<1> HIDE DEF A
<1>3. /\ \A e \in dep : e[1] \notin A /\ e[2] \notin A => e \in S.dep
      /\ \A u \in A : S.task[u] = NoRow
      /\ \A u \in TaskId \ A :
           /\ S.task[u] \in Row
           /\ S.task[u].state = task[u].state /\ S.task[u].status = task[u].status
           /\ S.task[u].repeat = task[u].repeat
           /\ \/ S.task[u].parent = task[u].parent
              \/ S.task[u].parent = None /\ task[u].parent \in A
  BY <1>1, <1>2, PurgedRows
<1> HIDE DEF S
<1>4. ASSUME NEW u \in TaskId
      PROVE  /\ task'[u].state = S.task[u].state /\ task'[u].status = S.task[u].status
             /\ task'[u].repeat = S.task[u].repeat /\ task'[u].parent = S.task[u].parent
  <2>1. task'[u] = S.task[u] \/ task'[u] = Unbound(S.task[u])
    BY <1>1
  <2>2. S.task[u] \in Row
    BY <1>3, NoRowType
  <2> QED
    BY <2>1, <2>2 DEF Unbound, Row
<1>5. NoRow.state # "live"
  BY NoRowType
<1> QED
  BY <1>1, <1>2, <1>3, <1>4, <1>5, StillGoesOn

\* A patch moves no row but t, and a row that it makes repeat is in a series.
LEMMA EditedRows ==
  ASSUME WiredDb, NEW t, NEW f \in Patches, UpdateTask(t, f)
  PROVE  LET S == Edited(db, t, f)
         IN  /\ S.dep = dep
             /\ S.task[t].state = "live"
             /\ S.task[t].parent = Patched(f, "parent", task[t].parent)
             /\ \A u \in TaskId \ {t} :
                  /\ S.task[u].state = task[u].state /\ S.task[u].status = task[u].status
                  /\ S.task[u].parent = task[u].parent
                  /\ S.task[u].repeat = task[u].repeat \/ task[u].series # None
<1> DEFINE bare == EditedRow(db, t, f)
           new == WithSeries(db, bare)
           S1 == [db EXCEPT !.task[t] = new]
           fwd == IF EditsFuture(f) /\ Given(f, "repeat") /\ new.due # None
                  THEN LaterOccurrences(S1, t, new.due) ELSE {}
           S == Edited(db, t, f)
<1>1. t \in Live(db) /\ bare \in Row /\ bare.state = "live"
  BY EditedRowShape DEF WiredDb
<1>2. t \in TaskId /\ db.task = task /\ \A u \in TaskId : task[u] \in Row
  BY <1>1, DbFacts DEF Live
<1>3. bare.parent = Patched(f, "parent", task[t].parent)
  BY <1>2, EditedRowParent
<1> HIDE DEF bare
<1>4. new.state = "live" /\ new.parent = bare.parent
  BY <1>1 DEF WithSeries, Row
<1>5. /\ S.dep = dep
      /\ S.task = [u \in TaskId |-> IF u \in fwd THEN WithRepeat(S1.task[u], f.repeat)
                                    ELSE S1.task[u]]
  BY DEF Edited, db, bare, WithRepeat
<1> HIDE DEF new, S
<1>6. S1.task = Replaced(task, t, new)
  BY DEF db, Replaced
<1> HIDE DEF S1
<1>7. S1.task[t] = new /\ \A u \in TaskId \ {t} : S1.task[u] = task[u]
  BY <1>2, <1>6 DEF Replaced, WiredDb, Sound
<1>8. t \notin fwd /\ \A u \in fwd : u \in TaskId \ {t} /\ S1.task[u].series # None
  BY DEF LaterOccurrences, Live
<1> HIDE DEF fwd
<1>9. S.task[t] = new
  BY <1>2, <1>5, <1>7, <1>8
<1>10. ASSUME NEW u \in TaskId \ {t}
       PROVE  /\ S.task[u].state = task[u].state /\ S.task[u].status = task[u].status
              /\ S.task[u].parent = task[u].parent
              /\ S.task[u].repeat = task[u].repeat \/ task[u].series # None
  <2>1. CASE u \in fwd
    <3>1. S.task[u] = WithRepeat(task[u], f.repeat) /\ task[u].series # None
      BY <1>5, <1>7, <1>8, <2>1
    <3> QED
      BY <1>2, <3>1 DEF WithRepeat, Row
  <2>2. CASE u \notin fwd
    BY <1>5, <1>7, <2>2
  <2> QED
    BY <2>1, <2>2
<1> QED
  BY <1>3, <1>4, <1>5, <1>9, <1>10 DEF S

LEMMA UpdateTaskGoesOn ==
  ASSUME Orderly, NEW t, NEW f \in Patches, UpdateTask(t, f)
  PROVE  HeadsGoOn
<1> DEFINE S == Edited(db, t, f)
           seeds == EditSeeds(db, t, f)
<1>1. /\ WiredDb /\ Wired(db) /\ Wired(S) /\ db.task = task /\ db.dep = dep
      /\ Commit(S, seeds) /\ t \in Live(db)
  BY UpdateTaskPrepared, DbFacts DEF Orderly, Prepared, UpdateTask
<1>2. /\ S.dep = dep /\ S.task[t].state = "live"
      /\ S.task[t].parent = Patched(f, "parent", task[t].parent)
      /\ \A u \in TaskId \ {t} :
           /\ S.task[u].state = task[u].state /\ S.task[u].status = task[u].status
           /\ S.task[u].parent = task[u].parent
           /\ S.task[u].repeat = task[u].repeat \/ task[u].series # None
  BY <1>1, EditedRows
<1>3. /\ t \in seeds
      /\ S.task[t].parent = task[t].parent \/ task[t].parent \in seeds
  BY <1>1, <1>2 DEF EditSeeds, Patched
<1> HIDE DEF S, seeds
<1>4. Live(S) = Live(db)
  BY <1>1, <1>2 DEF Live
<1>5. ASSUME NEW x \in Live(S) \ seeds, NEW y, <<x, y>> \in Waits(db)
      PROVE  <<x, y>> \in Waits(S)
  <2>1. /\ x \in Live(db) /\ y \in Live(db) /\ y \in TaskId
        /\ db.task[y].parent = x \/ <<x, y>> \in db.dep
    BY <1>1, <1>5, WaitsEdges DEF Live
  <2>2. db.task[y].parent = x => S.task[y].parent = x
    BY <1>1, <1>2, <1>3, <1>5, <2>1
  <2> QED
    BY <1>1, <1>2, <1>4, <2>1, <2>2, WaitsEdges
<1>6. \A x \in Live(S) \ seeds :
        /\ S.task[x].parent = db.task[x].parent /\ S.task[x].status = db.task[x].status
        /\ S.task[x].repeat # 0 => db.task[x].repeat # 0 \/ db.task[x].series # None
  BY <1>1, <1>2, <1>3 DEF Live
<1>7. Quiet(db, S, seeds)
  BY <1>4, <1>5, <1>6 DEF Quiet
<1> QED
  BY <1>1, <1>7, CommitGoesOn

-----------------------------------------------------------------------------
(* A skip: two roll-forwards, and the occurrence itself goes last           *)

\* A roll-forward hangs nothing below a row that was there.
LEMMA SubtreeStays ==
  ASSUME NEW S, Wired(S), NEW H \in SUBSET Live(S), CanRollForward(S, H),
         NEW R, R = RollForward(S, H), NEW t \in Live(S)
  PROVE  LiveSubtree(R, t) = LiveSubtree(S, t)
<1> DEFINE N == Taken(S, Inserting(S, H))
           E == LiveEdges(S, StoredNesting(S))
           F == LiveEdges(R, StoredNesting(R))
<1>1. /\ Wired(R) /\ Live(R) = Live(S) \cup N /\ Live(S) \subseteq Rows(S)
      /\ \A u \in Rows(S) : R.task[u] = S.task[u]
      /\ \A x, y : x \in Live(S) => (<<x, y>> \in Waits(R) <=> <<x, y>> \in Waits(S))
  BY ForwardEffect
<1> HIDE DEF N
<1>2. S \in Store /\ R \in Store /\ t \in Live(R) /\ {t} \in SUBSET TaskId
  BY <1>1 DEF Wired, Live
<1>3. ASSUME NEW A, Wired(A)
      PROVE  \A e : e \in LiveEdges(A, StoredNesting(A)) <=>
                      /\ e = <<e[1], e[2]>> /\ e[1] \in Live(A) /\ e[2] \in Live(A)
                      /\ A.task[e[2]].parent = e[1]
  <2>1. \A x \in Live(A) : x # None /\ x \in Rows(A)
    BY RowBounds DEF Live, Rows, TaskId, None
  <2> QED
    BY <2>1 DEF LiveEdges, StoredNesting
<1>4. /\ t \in LiveSubtree(S, t) /\ LiveSubtree(S, t) \subseteq Live(S)
      /\ t \in LiveSubtree(R, t) /\ LiveSubtree(R, t) \subseteq Live(R)
  BY <1>2, SubtreeLive
<1>5. /\ Closed(E, LiveSubtree(S, t)) /\ Closed(F, LiveSubtree(R, t))
      /\ E \in SUBSET (TaskId \X TaskId) /\ F \in SUBSET (TaskId \X TaskId)
  <2>1. E \in SUBSET (TaskId \X TaskId) /\ F \in SUBSET (TaskId \X TaskId)
    BY <1>1, <1>3 DEF Live
  <2> HIDE DEF E, F
  <2> QED
    BY <1>2, <2>1, ReachClosed DEF LiveSubtree, E, F
<1>6. ASSUME NEW e, e[1] \in Live(S)
      PROVE  e \in E <=> e \in F
  <2>1. ASSUME e = <<e[1], e[2]>>, e[2] \in Live(R), R.task[e[2]].parent = e[1]
        PROVE  e[2] \in Live(S)
    <3>1. <<e[1], e[2]>> \in Waits(R)
      BY <1>1, <1>6, <2>1, WaitsEdges
    <3> QED
      BY <1>1, <1>6, <3>1, WaitsEdges
  <2> QED
    BY <1>1, <1>3, <1>6, <2>1
<1> HIDE DEF E, F
<1>7. LiveSubtree(R, t) \subseteq LiveSubtree(S, t)
  <2>1. Closed(F, LiveSubtree(S, t))
    BY <1>4, <1>5, <1>6 DEF Closed
  <2>2. LiveSubtree(S, t) \in SUBSET TaskId /\ {t} \subseteq LiveSubtree(S, t)
    BY <1>4 DEF Live
  <2> QED
    BY <1>2, <2>1, <2>2, ReachLeast DEF LiveSubtree, F
<1>8. LiveSubtree(S, t) \subseteq LiveSubtree(R, t)
  <2>1. Closed(E, LiveSubtree(R, t))
    BY <1>4, <1>5, <1>6, <1>7 DEF Closed
  <2>2. LiveSubtree(R, t) \in SUBSET TaskId /\ {t} \subseteq LiveSubtree(R, t)
    BY <1>4 DEF Live
  <2> QED
    BY <1>2, <2>1, <2>2, ReachLeast DEF LiveSubtree, E
<1> QED
  BY <1>7, <1>8

\* What the first roll-forward of a skip and the trashing of the checklist leave.
GoneRows(h, next, gone) ==
  /\ Wired(next) /\ Wired(gone)
  /\ AllInOrder(db) => AllInOrder(next)
  /\ h \in Live(gone) /\ gone.task[h] = task[h]
  /\ \A u \in Live(gone) : gone.task[u] = next.task[u]
  /\ \A x, y : <<x, y>> \in Waits(gone) => <<x, y>> \in Waits(next)
  /\ \A u \in Live(gone) \ {h} : gone.task[u].parent # h
  /\ Quiet(next, gone, SkipSeeds(db, h) \cup {h})

LEMMA ChecklistGoneRows ==
  ASSUME WiredDb, NEW h \in Live(db), CanSkip(db, h),
         NEW next, next = RollForward(db, {h}), NEW gone, gone = ChecklistGone(db, h)
  PROVE  GoneRows(h, next, gone)
<1> DEFINE C == Checklist(next, h)
           N == Taken(db, Inserting(db, {h}))
           seeds == SkipSeeds(db, h)
<1>1. /\ Wired(db) /\ db.task = task /\ {h} \in SUBSET Live(db) /\ CanRollForward(db, {h})
      /\ h \in TaskId
  BY DbFacts DEF CanSkip, Live
<1>2. /\ Wired(next) /\ Wired(gone)
      /\ AllInOrder(db) => AllInOrder(next)
  BY SkipOccurrencePrepared DEF Prepared, Follows
<1>3. /\ \A u \in Rows(db) : next.task[u] = db.task[u]
      /\ Live(next) = Live(db) \cup N /\ N \cap Rows(db) = {} /\ Live(db) \subseteq Rows(db)
      /\ next.dep \subseteq db.dep \cup (N \X N)
  <2>1. RolledForward(db, Inserting(db, {h}), next)
    BY <1>1, ForwardEffect
  <2>2. next.dep \subseteq db.dep \cup (N \X N)
    BY <2>1 DEF RolledForward
  <2>3. /\ \A u \in Rows(db) : next.task[u] = db.task[u]
        /\ Live(next) = Live(db) \cup N /\ N \cap Rows(db) = {} /\ Live(db) \subseteq Rows(db)
    BY <1>1, ForwardEffect, SMTT(20)
  <2> QED
    BY <2>2, <2>3
<1>4. h \in Live(next) /\ next \in Store /\ db \in Store
  BY <1>1, <1>2, <1>3 DEF Wired
<1>5. LiveSubtree(next, h) = LiveSubtree(db, h) /\ LiveSubtree(db, h) \subseteq Live(db)
  BY <1>1, <1>4, SubtreeStays, SubtreeLive
<1>6. C = Checklist(db, h) /\ C \subseteq Live(db) /\ h \notin C
  BY <1>5 DEF Checklist
<1>7. /\ gone.dep = next.dep
      /\ \A u \in TaskId \ C : gone.task[u] = next.task[u]
      /\ \A u \in TaskId \cap C : gone.task[u].state = "trashed"
  <2>1. gone = Trashing(next, C, h)
    BY DEF ChecklistGone
  <2> HIDE DEF C
  <2>2. /\ Trashing(next, C, h).dep = next.dep
        /\ \A u \in TaskId \ C : Trashing(next, C, h).task[u] = next.task[u]
        /\ \A u \in TaskId \cap C : Trashing(next, C, h).task[u].state = "trashed"
    BY ONLY <1>4, TrashingRows
  <2> QED
    BY ONLY <2>1, <2>2
<1> HIDE DEF C, N
<1>8. Live(gone) = Live(next) \ C
  BY <1>7 DEF Live
<1>9. Neighbours(next, C) \subseteq seeds \cup {h}
  <2>1. \A u \in C : next.task[u] = db.task[u]
    BY <1>3, <1>6
  <2>2. ASSUME NEW u \in C
        PROVE  ListDependents(next, u) \subseteq ListDependents(db, u)
    <3>1. u \notin N
      BY <1>3, <1>6
    <3>2. ASSUME NEW d, <<d, u>> \in next.dep
          PROVE  <<d, u>> \in db.dep
      BY <1>3, <3>1, <3>2
    <3> QED
      BY <3>2 DEF ListDependents
  <2>3. Neighbours(next, C) \subseteq Neighbours(db, C)
    <3>1. {next.task[u].parent : u \in C} = {db.task[u].parent : u \in C}
      BY <2>1
    <3>2. UNION {ListDependents(next, u) : u \in C} \subseteq UNION {ListDependents(db, u) : u \in C}
      BY <2>2
    <3> QED
      BY <3>1, <3>2 DEF Neighbours
  <2> QED
    BY <1>6, <2>3 DEF SkipSeeds
<1> HIDE DEF seeds
<1>10. Quiet(next, gone, seeds \cup {h})
  BY <1>2, <1>7, <1>8, <1>9, QuietGone
<1>11. h \in Live(gone) /\ gone.task[h] = task[h]
  BY <1>1, <1>3, <1>4, <1>6, <1>7, <1>8
<1>12. ASSUME NEW x, NEW y, <<x, y>> \in Waits(gone)
       PROVE  <<x, y>> \in Waits(next)
  <2>1. x \in Live(gone) /\ y \in Live(gone) /\ (gone.task[y].parent = x \/ <<x, y>> \in gone.dep)
    BY <1>2, <1>12, WaitsEdges
  <2>2. y \in TaskId \ C
    BY <1>8, <2>1 DEF Live
  <2> QED
    BY <1>2, <1>7, <1>8, <2>1, <2>2, WaitsEdges
<1>13. ASSUME NEW u \in Live(gone) \ {h}, gone.task[u].parent = h
       PROVE  FALSE
  <2>1. u \in Live(next) /\ u \in TaskId \ C /\ next.task[u].parent = h
    BY <1>7, <1>8, <1>13 DEF Live
  <2>2. <<h, u>> \in LiveEdges(next, StoredNesting(next))
    <3>1. u \in Rows(next) /\ h # None
      BY <1>1, <2>1, RowBounds DEF Live, Rows, TaskId, None
    <3> QED
      BY <1>4, <2>1, <3>1 DEF LiveEdges, StoredNesting
  <2>3. /\ h \in LiveSubtree(next, h)
        /\ Closed(LiveEdges(next, StoredNesting(next)), LiveSubtree(next, h))
    BY <1>1, <1>4, SubtreeLive, NestingType, ReachClosed DEF LiveSubtree
  <2>4. u \in LiveSubtree(next, h)
    <3> DEFINE e == <<h, u>>
    <3>1. e \in LiveEdges(next, StoredNesting(next)) /\ e[1] = h /\ e[2] = u
      BY <2>2
    <3> QED
      BY <2>3, <3>1 DEF Closed
  <2> QED
    BY <1>13, <2>1, <2>4 DEF C, Checklist
<1>14. \A u \in Live(gone) : gone.task[u] = next.task[u]
  BY <1>7, <1>8 DEF Live
<1> QED
  BY <1>2, <1>10, <1>11, <1>12, <1>13, <1>14 DEF seeds, GoneRows

\* The row that a skip puts aside, put back.
UnskippedRow(row) == [row EXCEPT !.state = "live", !.skipped = FALSE]

LEMMA SkippedRowUndone ==
  ASSUME NEW row \in Row, row.state = "live", row.skipped = FALSE
  PROVE  UnskippedRow(SkippedRow(row)) = row
<1> QED
  BY DEF UnskippedRow, SkippedRow, Row

\* The store before the skip of its occurrence is the one the skip starts from.
LEMMA SkipUndone ==
  ASSUME NEW done \in Store, NEW h \in TaskId, done.task[h].state = "live",
         done.task[h].skipped = FALSE
  PROVE  BeforeSkip([done EXCEPT !.task[h] = SkippedRow(@)], h) = done
<1> DEFINE row == done.task[h]
           B == [done EXCEPT !.task[h] = SkippedRow(@)]
<1>1. row \in Row /\ done.task \in [TaskId -> Row]
  BY DEF Store
<1>2. B = [done EXCEPT !.task[h] = SkippedRow(row)]
  BY DEF Store
<1>3. UnskippedRow(SkippedRow(row)) = row
  BY <1>1, SkippedRowUndone
<1>4. BeforeSkip(B, h) = [B EXCEPT !.task[h] = UnskippedRow(@)]
  BY DEF BeforeSkip, UnskippedRow
<1>5. [B EXCEPT !.task[h] = UnskippedRow(@)] = done
  <2> DEFINE s == SkippedRow(row)
             r == UnskippedRow(s)
  <2> HIDE DEF row, s
  <2>1. B = [done EXCEPT !.task[h] = s] /\ r = row /\ row = done.task[h]
    BY <1>2, <1>3 DEF s, row
  <2> HIDE DEF B, r
  <2>2. B.task[h] = s /\ B.task \in [TaskId -> {B.task[u] : u \in TaskId}]
    BY <2>1 DEF Store
  <2>3. UnskippedRow(B.task[h]) = r
    BY <2>2 DEF r
  <2>4. [B EXCEPT !.task[h] = UnskippedRow(@)] = [B EXCEPT !.task[h] = r]
    BY <2>3
  <2>5. [B EXCEPT !.task[h] = r] = done
    BY <2>1 DEF Store
  <2> QED
    BY <2>4, <2>5
<1> QED
  BY <1>4, <1>5

\* Fewer edges, fewer rows waited on.
LEMMA AwaitedFewer ==
  ASSUME NEW A, Wired(A), NEW B, Wired(B), NEW t \in Live(B),
         \A x, y : <<x, y>> \in Waits(B) => <<x, y>> \in Waits(A)
  PROVE  Awaited(B, t) \subseteq Awaited(A, t)
<1>1. /\ Waits(A) \in SUBSET (TaskId \X TaskId) /\ Waits(B) \in SUBSET (TaskId \X TaskId)
      /\ {t} \in SUBSET TaskId
  BY WaitsEdges DEF Live
<1>2. Waits(B) \in SUBSET Waits(A)
  <2> SUFFICES ASSUME NEW e \in Waits(B)
               PROVE  e \in Waits(A)
    OBVIOUS
  <2>1. e = <<e[1], e[2]>>
    BY <1>1
  <2> QED
    BY <2>1
<1> QED
  BY <1>1, <1>2, ReachFewer DEF Awaited

\* What waits on a row that was there before, was there before.
LEMMA CopiesAwaitCopies ==
  ASSUME NEW S, Wired(S), NEW H \in SUBSET Live(S), CanRollForward(S, H),
         NEW R, R = RollForward(S, H), NEW t \in Live(R), NEW x \in Awaited(R, t), x \in Live(S)
  PROVE  t \in Live(S)
<1> DEFINE N == Taken(S, Inserting(S, H))
<1>1. /\ Wired(R) /\ Live(R) = Live(S) \cup N /\ N \cap Rows(S) = {} /\ Live(S) \subseteq Rows(S)
      /\ \A a, b : a \in N /\ <<a, b>> \in Waits(R) => b \in N
  BY ForwardEffect
<1>2. N \in SUBSET TaskId
  BY DEF Taken
<1> HIDE DEF N
<1>3. ASSUME t \in N
      PROVE  x \in N
  <2>1. Closed(Waits(R), N)
    <3> SUFFICES ASSUME NEW e \in Waits(R), e[1] \in N
                 PROVE  e[2] \in N
      BY DEF Closed
    <3>1. e = <<e[1], e[2]>>
      BY <1>1, WaitsEdges
    <3> QED
      BY <1>1, <3>1
  <2> QED
    BY <1>2, <1>3, <2>1, ReachLeast DEF Awaited
<1> QED
  BY <1>1, <1>3

\* The four stores of a skip of h, from db to B, and what each keeps of the last.
Skipping(h, next, gone, done, B) ==
  /\ Wired(next) /\ Wired(gone) /\ Wired(done) /\ Wired(B) /\ AllInOrder(next)
  /\ h \in Live(db) /\ IsSeriesHead(db, h) /\ task'[h].skipped
  /\ CanRollForward(db, {h}) /\ next = RollForward(db, {h})
  /\ CanReconcile(gone, SkipSeeds(db, h)) /\ done = Reconcile(gone, SkipSeeds(db, h))
  /\ h \in Live(gone) /\ h \in Live(done)
  /\ BeforeSkip(B, h) = done
  /\ Live(B) = Live(done) \ {h} /\ B.dep = done.dep
  /\ \A u \in Live(B) : B.task[u] = done.task[u]
  /\ \A x, y : <<x, y>> \in Waits(gone) => <<x, y>> \in Waits(next)
  /\ \A u \in Live(gone) \ {h} : gone.task[u].parent # h
  /\ Quiet(next, gone, SkipSeeds(db, h) \cup {h})

LEMMA SkipStores ==
  ASSUME Orderly, NEW h, SkipOccurrence(h), NEW next, next = RollForward(db, {h}),
         NEW gone, gone = ChecklistGone(db, h),
         NEW done, done = Reconcile(gone, SkipSeeds(db, h))
  PROVE  Skipping(h, next, gone, done, db')
<1> DEFINE heads == DueHeads(gone, SkipSeeds(db, h))
<1>1. /\ WiredDb /\ h \in Live(db) /\ CanSkip(db, h) /\ Write(Skipped(db, h)) /\ Wired(db')
      /\ h \in TaskId /\ AllInOrder(db)
  BY DEF SkipOccurrence, Orderly, Live
<1>2. /\ Wired(next) /\ Wired(gone)
      /\ AllInOrder(db) => AllInOrder(next)
      /\ h \in Live(gone) /\ gone.task[h] = task[h]
      /\ \A x, y : <<x, y>> \in Waits(gone) => <<x, y>> \in Waits(next)
      /\ \A u \in Live(gone) \ {h} : gone.task[u].parent # h
      /\ Quiet(next, gone, SkipSeeds(db, h) \cup {h})
  <2>1. GoneRows(h, next, gone)
    BY <1>1, ChecklistGoneRows
  <2> QED
    BY <2>1 DEF GoneRows
<1>3. /\ IsSeriesHead(db, h) /\ CanRollForward(db, {h})
      /\ CanReconcile(gone, SkipSeeds(db, h))
  BY <1>1 DEF CanSkip
<1>4. /\ heads \in SUBSET Live(gone) /\ CanRollForward(gone, heads)
      /\ done = RollForward(gone, heads)
  BY <1>2, <1>3, HeadsLive DEF Wired, CanReconcile, Reconcile
<1> HIDE DEF heads
<1>5. /\ Wired(done) /\ \A u \in Rows(gone) : done.task[u] = gone.task[u]
      /\ Live(gone) \subseteq Live(done) /\ Live(gone) \subseteq Rows(gone)
  BY <1>2, <1>4, ForwardEffect
<1>6. done \in Store /\ h \in Live(done) /\ done.task[h] = task[h]
  BY <1>2, <1>5 DEF Wired
<1>7. done.task[h].state = "live" /\ done.task[h].skipped = FALSE
  <2>1. task[h].state = "live" /\ task[h] \in Row /\ InOrder(task[h])
    BY <1>1, DbFacts DEF AllInOrder, Live
  <2>2. task[h].skipped \in BOOLEAN /\ ~task[h].skipped
    BY <2>1 DEF InOrder, Unmarked, Row
  <2> QED
    BY <1>6, <2>1, <2>2
<1> DEFINE B == [done EXCEPT !.task[h] = SkippedRow(@)]
<1>8. BeforeSkip(B, h) = done
  BY <1>1, <1>6, <1>7, SkipUndone
<1>9. /\ B \in Store /\ B.dep = done.dep /\ B.task[h] = SkippedRow(done.task[h])
      /\ \A u \in TaskId : u # h => B.task[u] = done.task[u]
  <2>1. done.task[h] \in Row
    BY <1>1, <1>6 DEF Store
  <2>2. SkippedRow(done.task[h]) \in Row
    BY <2>1 DEF SkippedRow, Row, Lifecycle
  <2> DEFINE s == SkippedRow(done.task[h])
  <2>3. B = [done EXCEPT !.task[h] = s]
    BY <1>6 DEF Store
  <2> HIDE DEF s, B
  <2> QED
    BY <1>1, <1>6, <2>2, <2>3 DEF Store, s
<1>10. B = Skipped(db, h)
  BY <1>6 DEF Skipped, SkippedRow
<1> HIDE DEF B
<1>11. db' = B
  BY <1>1, <1>9, <1>10, WrittenStore
<1>12. B.task[h].state = "trashed" /\ B.task[h].skipped
  <2>1. done.task[h] \in Row
    BY <1>1, <1>6 DEF Store
  <2> QED
    BY <1>9, <2>1 DEF SkippedRow, Row
<1>13. Live(B) = Live(done) \ {h}
  BY <1>9, <1>12 DEF Live
<1>14. task'[h].skipped
  <2>1. db'.task = task'
    BY DEF db
  <2> QED
    BY <1>11, <1>12, <2>1
<1>15. \A u \in Live(B) : B.task[u] = done.task[u]
  BY <1>9, <1>13 DEF Live
<1> QED
  BY <1>1, <1>2, <1>3, <1>5, <1>6, <1>8, <1>9, <1>11, <1>13, <1>14, <1>15 DEF Skipping

\* A head that a skip completes waits on the skipped occurrence, or is followed, or
\* held, before that occurrence goes.
LEMMA SkipAnswers ==
  ASSUME WiredDb, NEW h, NEW next, NEW gone, NEW done, NEW B, Skipping(h, next, gone, done, B),
         NEW t, Owed(db, B, t), ~WaitsOnHead(db, t)
  PROVE  Followed(done, t) \/ HeldBelow(B, t)
<1> DEFINE seeds == SkipSeeds(db, h)
           heads == DueHeads(gone, seeds)
<1>1. /\ Wired(db) /\ {h} \in SUBSET Live(db) /\ CanRollForward(db, {h})
      /\ Wired(next) /\ next = RollForward(db, {h})
      /\ Wired(gone) /\ Wired(done) /\ Wired(B) /\ h \in Live(db) /\ h \in Live(gone)
      /\ h \in Live(done)
  BY DbFacts DEF Skipping
<1>2. /\ heads \in SUBSET Live(gone) /\ CanRollForward(gone, heads)
      /\ done = RollForward(gone, heads) /\ CanReconcile(gone, seeds)
      /\ done = Reconcile(gone, seeds)
  BY <1>1, HeadsLive DEF Wired, CanReconcile, Reconcile, Skipping
<1> HIDE DEF heads
<1>3. /\ Live(B) = Live(done) \ {h} /\ B.dep = done.dep
      /\ \A u \in Live(B) : B.task[u] = done.task[u]
  BY DEF Skipping
<1>4. /\ t \in EffectivelyDone(B) /\ IsSeriesHead(B, t) /\ t \notin DoneHeads(db)
      /\ t \notin EffectivelyDone(db) \/ db.task[t].series = None
      /\ B.task[t].series # None /\ t \in Live(B)
  BY DEF Owed, DoneHeads, EffectivelyDone
<1>5. t \in Live(done) /\ t # h /\ IsSeriesHead(done, t) /\ done.task[t].series # None
  BY <1>3, <1>4 DEF IsSeriesHead
<1>6. \A x, y : <<x, y>> \in Waits(B) <=> <<x, y>> \in Waits(done) /\ x # h /\ y # h
  BY <1>1, <1>3, WaitsEdges
<1>7. h \notin Awaited(done, t)
  <2> SUFFICES ASSUME h \in Awaited(done, t)
               PROVE  WaitsOnHead(db, t)
    OBVIOUS
  <2>1. t \in Live(gone)
    BY <1>1, <1>2, <1>5, CopiesAwaitCopies
  <2>2. h \in Awaited(gone, t)
    BY <1>1, <1>2, <2>1, RowsStayAsDone
  <2>3. h \in Awaited(next, t)
    <3>1. \A x, y : <<x, y>> \in Waits(gone) => <<x, y>> \in Waits(next)
      BY DEF Skipping
    <3> QED
      BY <1>1, <2>1, <2>2, <3>1, AwaitedFewer
  <2>4. t \in Live(next)
    <3>1. Waits(gone) \in SUBSET (TaskId \X TaskId) /\ t \in TaskId
      BY <1>1, <2>1, WaitsEdges DEF Live
    <3>2. PICK e \in Waits(gone) : e[1] = t
      <4> SUFFICES ASSUME \A e \in Waits(gone) : e[1] # t
                   PROVE  FALSE
        OBVIOUS
      <4>1. Closed(Waits(gone), {t})
        BY DEF Closed
      <4>2. Awaited(gone, t) \subseteq {t}
        BY <3>1, <4>1, ReachLeast DEF Awaited
      <4> QED
        BY <1>5, <2>2, <4>2
    <3>3. e = <<t, e[2]>>
      BY <3>1, <3>2
    <3>4. <<t, e[2]>> \in Waits(next)
      BY <3>3 DEF Skipping
    <3> QED
      BY <1>1, <3>4, WaitsEdges
  <2>5. t \in Live(db)
    BY <1>1, <2>3, <2>4, CopiesAwaitCopies
  <2>6. h \in Awaited(db, t)
    BY <1>1, <2>3, <2>5, RowsStayAsDone
  <2> QED
    BY <1>5, <2>6 DEF Skipping, WaitsOnHead, Awaited, Waits
<1>8. Awaited(B, t) \subseteq Awaited(done, t)
  BY <1>1, <1>4, <1>6, AwaitedFewer
<1>9. /\ t \in Awaited(done, t) /\ Awaited(done, t) \subseteq Live(done)
      /\ \A x, y : x \in Awaited(done, t) /\ <<x, y>> \in Waits(done) => y \in Awaited(done, t)
  BY <1>1, <1>5, AwaitedLive
<1>10. t \in EffectivelyDone(done)
  <2> SUFFICES ASSUME NEW x \in Awaited(B, t)
               PROVE  Undisturbed(done, B, x)
    BY <1>1, <1>4, NewlyDone
  <2>1. x \in Awaited(done, t) /\ x \in Live(B) /\ B.task[x] = done.task[x]
    BY <1>1, <1>3, <1>4, <1>8, AwaitedLive
  <2>2. \A y : <<x, y>> \in Waits(done) => <<x, y>> \in Waits(B)
    BY <1>6, <1>7, <1>9, <2>1
  <2>3. ListSubtasks(B, x) \subseteq ListSubtasks(done, x)
    BY <1>3 DEF ListSubtasks
  <2> QED
    BY <1>3, <2>1, <2>2, <2>3 DEF Undisturbed, OpenLeaves
<1>11. Owed(next, done, t)
  <2>1. ASSUME t \in EffectivelyDone(next)
        PROVE  t \in Live(db) /\ t \in EffectivelyDone(db) /\ next.task[t] = db.task[t]
    <3>1. t \in Live(db)
      BY <1>1, <2>1, CopiesNotDone
    <3>2. \A u \in Rows(db) : next.task[u] = db.task[u]
      BY <1>1, ForwardEffect
    <3>3. t \in Rows(db)
      BY <3>1 DEF Live, Rows
    <3>4. t \in EffectivelyDone(next) <=> t \in EffectivelyDone(db)
      BY <1>1, <3>1, RowsStayAsDone
    <3> QED
      BY <2>1, <3>1, <3>2, <3>3, <3>4
  <2>2. t \in DoneHeads(done)
    BY <1>5, <1>10 DEF DoneHeads
  <2>3. t \notin DoneHeads(next)
    BY <1>4, <2>1 DEF DoneHeads, IsSeriesHead
  <2>4. t \notin EffectivelyDone(next) \/ next.task[t].series = None
    BY <1>4, <2>1
  <2> QED
    BY <1>5, <2>2, <2>3, <2>4 DEF Owed
<1>12. t \in Live(gone)
  BY <1>1, <1>2, <1>10, CopiesNotDone
<1>13. Awaited(gone, t) = Awaited(done, t)
  BY <1>1, <1>2, <1>12, RowsStayAsDone
<1>14. Answers(next, gone, seeds, t)
  <2>1. Answers(next, gone, seeds \cup {h}, t)
    <3> DEFINE all == seeds \cup {h}
    <3>1. Quiet(next, gone, all) /\ AllInOrder(next)
      BY DEF Skipping
    <3> HIDE DEF all
    <3>2. Answers(next, gone, all, t)
      BY <1>1, <1>12, <3>1, QuietAnswers
    <3> QED
      BY <3>2 DEF all
  <2>2. ASSUME NEW x \in Awaited(gone, t), Awaited(gone, x) \cap (seeds \cup {h}) # {}
        PROVE  Awaited(gone, x) \cap seeds # {}
    <3>1. Awaited(gone, x) \subseteq Awaited(gone, t)
      BY <1>1, <1>12, AwaitedOn
    <3> QED
      BY <1>7, <1>13, <2>2, <3>1
  <2> HIDE DEF seeds
  <2>3. t \in seeds \cup {h} => t \in seeds
    BY <1>5
  <2> QED
    BY <2>1, <2>2, <2>3 DEF Answers
<1>15. Followed(done, t) \/ HeldBelow(done, t)
  BY <1>1, <1>2, <1>11, <1>14, HeadsAnswered
<1>16. ASSUME HeldBelow(done, t)
       PROVE  HeldBelow(B, t)
  <2>1. PICK g \in Awaited(done, t) \ {t} :
             IsSeriesHead(done, g) /\ done.task[g].parent \in Live(done)
    BY <1>16 DEF HeldBelow
  <2>2. Awaited(done, t) \subseteq Awaited(B, t)
    <3>1. t \in Awaited(B, t) /\ Awaited(B, t) \in SUBSET TaskId
      BY <1>1, <1>4, AwaitedLive DEF Live
    <3>2. /\ \A x, y : x \in Awaited(B, t) /\ <<x, y>> \in Waits(B) => y \in Awaited(B, t)
      BY <1>1, <1>4, AwaitedLive
    <3> DEFINE X == Awaited(B, t) \cap Awaited(done, t)
    <3>3. Closed(Waits(done), X)
      <4> SUFFICES ASSUME NEW e \in Waits(done), e[1] \in X
                   PROVE  e[2] \in X
        BY DEF Closed
      <4>1. e = <<e[1], e[2]>>
        BY <1>1, WaitsEdges
      <4>2. e[2] \in Awaited(done, t)
        BY <1>9, <4>1
      <4>3. <<e[1], e[2]>> \in Waits(B)
        BY <1>6, <1>7, <4>1, <4>2
      <4> QED
        BY <3>2, <4>2, <4>3
    <3>4. X \in SUBSET TaskId /\ {t} \subseteq X
      BY <1>9, <3>1
    <3> HIDE DEF X
    <3>5. Awaited(done, t) \subseteq X
      BY <3>3, <3>4, ReachLeast DEF Awaited
    <3> QED
      BY <3>5 DEF X
  <2>3. g \in Live(B) /\ B.task[g] = done.task[g] /\ g \in Live(gone)
    <3>1. g \in Live(done) /\ g # h
      BY <1>7, <1>9, <2>1
    <3>2. g \in Live(gone)
      <4>1. Awaited(gone, t) \subseteq Live(gone)
        BY <1>1, <1>12, AwaitedLive
      <4> QED
        BY <1>13, <2>1, <4>1
    <3> QED
      BY <1>3, <3>1, <3>2
  <2>4. B.task[g].parent # h
    <3>1. \A u \in Rows(gone) : done.task[u] = gone.task[u]
      <4>1. /\ Wired(gone) /\ heads \in SUBSET Live(gone) /\ CanRollForward(gone, heads)
            /\ done = RollForward(gone, heads)
        BY <1>1, <1>2
      <4> QED
        BY ONLY <4>1, ForwardEffect
    <3>2. g \in Rows(gone) /\ g # h
      BY <1>7, <2>1, <2>3 DEF Live, Rows
    <3>3. gone.task[g].parent # h
      BY <2>3, <3>2 DEF Skipping
    <3> QED
      BY <2>3, <3>1, <3>2, <3>3
  <2>5. B.task[g].parent \in Live(B)
    BY <1>3, <2>1, <2>3, <2>4
  <2> QED
    BY <2>1, <2>2, <2>3, <2>5 DEF HeldBelow, IsSeriesHead
<1> QED
  BY <1>15, <1>16

LEMMA SkipOccurrenceGoesOn ==
  ASSUME Orderly, NEW h, SkipOccurrence(h)
  PROVE  HeadsGoOn
<1>1. PICK next, gone, done :
           /\ next = RollForward(db, {h}) /\ gone = ChecklistGone(db, h)
           /\ done = Reconcile(gone, SkipSeeds(db, h))
  OBVIOUS
<1>2. Skipping(h, next, gone, done, db')
  BY <1>1, SkipStores
<1>3. ASSUME NEW t, Owed(db, db', t), ~WaitsOnHead(db, t)
      PROVE  WaitsOnHead(db', t) \/ GoesOn(t)
  <2>1. Followed(done, t) \/ HeldBelow(db', t)
    <3> DEFINE B == db'
    <3>1. Skipping(h, next, gone, done, B) /\ Owed(db, B, t)
      BY <1>2, <1>3
    <3> HIDE DEF B
    <3>2. Followed(done, t) \/ HeldBelow(B, t)
      BY <1>3, <3>1, SkipAnswers DEF Orderly
    <3> QED
      BY <3>2 DEF B
  <2>2. h \in Live(db) /\ task'[h].skipped /\ BeforeSkip(db', h) = done
    BY <1>2 DEF Skipping
  <2> QED
    BY <2>1, <2>2, HeldWaits DEF GoesOn
<1> QED
  BY <1>3, HeadsOwed

-----------------------------------------------------------------------------
(* The step, once more                                                      *)

LEMMA NextGoesOn ==
  ASSUME Orderly, Next
  PROVE  HeadsGoOn
<1>1. ASSUME NEW id \in 1..MaxPosted, NEW n \in NewTasks, CreateTask(id, n)
      PROVE  HeadsGoOn
  BY <1>1, CreateTaskGoesOn
<1>2. ASSUME NEW t \in TaskId, NEW f \in Patches, UpdateTask(t, f)
      PROVE  HeadsGoOn
  BY <1>2, UpdateTaskGoesOn
<1>3. ASSUME NEW t \in TaskId, MarkDone(t)
      PROVE  HeadsGoOn
  BY <1>3, MarkDoneGoesOn
<1>4. ASSUME NEW t \in TaskId, ReopenTask(t)
      PROVE  HeadsGoOn
  BY <1>4, ReopenTaskGoesOn
<1>5. ASSUME NEW t \in TaskId, SoftDeleteTask(t)
      PROVE  HeadsGoOn
  BY <1>5, SoftDeleteTaskGoesOn
<1>6. ASSUME NEW t \in TaskId, SkipOccurrence(t)
      PROVE  HeadsGoOn
  BY <1>6, SkipOccurrenceGoesOn
<1>7. ASSUME NEW t \in TaskId, StopRecurrence(t)
      PROVE  HeadsGoOn
  BY <1>7, StopRecurrenceGoesOn
<1>8. ASSUME NEW t \in 1..MaxPosted, NEW b \in 1..MaxPosted, AddDependency(t, b)
      PROVE  HeadsGoOn
  BY <1>8, AddDependencyGoesOn
<1>9. ASSUME NEW e \in TaskId \X TaskId, RemoveDependency(e)
      PROVE  HeadsGoOn
  BY <1>9, RemoveDependencyGoesOn
<1>10. ASSUME NEW t \in TaskId, RestoreTask(t)
       PROVE  HeadsGoOn
  BY <1>10, RestoreTaskGoesOn
<1>11. ASSUME NEW t \in TaskId, RestoreTaskSubtree(t)
       PROVE  HeadsGoOn
  BY <1>11, RestoreTaskSubtreeGoesOn
<1>12. ASSUME NEW t \in TaskId, PurgeTask(t)
       PROVE  HeadsGoOn
  BY <1>12, PurgeTaskGoesOn
<1>13. ASSUME NEW p \in ProjectId, CreateProject(p)
       PROVE  HeadsGoOn
  BY <1>13, CreateProjectGoesOn
<1>14. ASSUME NEW p \in ProjectId, SoftDeleteProject(p)
       PROVE  HeadsGoOn
  BY <1>14, SoftDeleteProjectGoesOn
<1>15. ASSUME NEW p \in ProjectId, RestoreProjectWithTasks(p)
       PROVE  HeadsGoOn
  BY <1>15, RestoreProjectWithTasksGoesOn
<1>16. ASSUME NEW p \in ProjectId, RestoreProjectAlone(p)
       PROVE  HeadsGoOn
  BY <1>16, RestoreProjectAloneGoesOn
<1>17. ASSUME NEW p \in ProjectId, PurgeProject(p)
       PROVE  HeadsGoOn
  BY <1>17, PurgeProjectGoesOn
<1> QED
  BY <1>1, <1>2, <1>3, <1>4, <1>5, <1>6, <1>7, <1>8, <1>9, <1>10, <1>11, <1>12, <1>13,
     <1>14, <1>15, <1>16, <1>17 DEF Next

LEMMA StepOrderly ==
  ASSUME StoreWired, AllInOrder(db), Next
  PROVE  Orderly
<1>1. WiredDb /\ Wired(db')
  BY WiredStore, NextStepped DEF Stepped
<1>2. ASSUME NEW t \in Live(db'), db'.task[t].repeat # 0
      PROVE  db'.task[t].series # None
  <2>1. StoreSound'
    BY StepKept DEF StoreWired
  <2>2. /\ RowSound(task'[t], Present(task'), project') /\ db'.task = task'
        /\ task'[t].state = "live"
    BY <2>1 DEF StoreSound, Sound, Live, db
  <2> QED
    BY <1>2, <2>2 DEF RowSound
<1> QED
  BY <1>1, <1>2 DEF Orderly

\* No request ends a series unnoticed: each head that a step completes has a live
\* successor in the same commit, unless a head that reconcile does not climb from
\* holds it up.
THEOREM CompletedSeriesAreFollowed == Spec => CompletedSeriesGoOn
<1>1. StoreWired /\ AllInOrder(db) /\ [Next]_vars
        => [\A t \in DoneHeads(db') \ DoneHeads(db) :
              t \notin EffectivelyDone(db) \/ task[t].series = None
                => WaitsOnHead(db, t) \/ WaitsOnHead(db', t) \/ GoesOn(t)]_vars
  <2> SUFFICES ASSUME StoreWired, AllInOrder(db), Next
               PROVE  HeadsGoOn
    BY DEF HeadsGoOn
  <2> QED
    BY StepOrderly, NextGoesOn
<1> QED
  BY <1>1, StoreStaysWired, RowsStayInOrder, PTL DEF Spec, CompletedSeriesGoOn
=============================================================================
