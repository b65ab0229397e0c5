------------------------------ MODULE TaskReads ------------------------------
(***************************************************************************)
(* What the clients are shown of the tasks: the roll-ups of services/tasks.py *)
(* as each reader loads them, the blocker lists and counts of                *)
(* services/task_dependencies.py, the read models of api/task_reads.py and   *)
(* api/dependency_reads.py, the lists, the overview of services/dashboard.py *)
(* and the blocked rows of services/focus.py.  Nothing here writes: these    *)
(* are the derivations that must agree, each from its own queries.           *)
(*                                                                          *)
(* Paging, lane counts, estimates, titles and dates are left out.            *)
(***************************************************************************)
EXTENDS TaskStore

\* _load_status_graph, mutant: the blockers are not followed.
LoadedDown(S, roots) == Reach(LiveEdges(S, StoredNesting(S)), roots)

\* _load_status_graph: the roots and all they wait on, live rows only.
Loaded(S, roots) == Reach(LiveEdges(S, StoredWaits(S)), roots)

Only(S, nodes) ==
  [S EXCEPT !.task = [t \in TaskId |-> IF t \in nodes THEN S.task[t] ELSE NoRow]]

\* compute_rollups, of the roots and all that was walked: what is not loaded is not
\* there, and cycles are those of what is.
ComputeRollups(S, roots) ==
  CHOOSE roll \in {Rollups(part) : part \in {Only(S, Loaded(S, roots))}} : TRUE

\* Mutant of Unfinished: by the stored column, without roll-up or cap.
StoredUnfinished(S, ids) == {t \in ids \cap Live(S) : S.task[t].status # "done"}

\* effective_statuses, as its readers use it: a row that is gone is not unfinished.
Unfinished(S, ids) ==
  UNION {{t \in ids \cap Live(S) : roll[t].status # "done"} :
           roll \in {ComputeRollups(S, ids \cap Live(S))}}

-----------------------------------------------------------------------------
(* Blockers *)

Blockers(S, A) == {e[2] : e \in {d \in S.dep : d[1] \in A}}

\* _unfinished_dependencies_for: what the blocked rows of the day plan name.
UnfinishedDependencies(S, A) ==
  UNION {{e \in S.dep : e[1] \in A /\ e[2] \in unfinished} :
           unfinished \in {Unfinished(S, Blockers(S, A))}}

BlockedTaskIds(S, A) == {e[1] : e \in UnfinishedDependencies(S, A)}

\* dependency_read: a row that is gone leaves nothing to wait for.
DependsOnDone(S, b) == b \notin Unfinished(S, {b})

\* What each of A holds up: through the edges whose ends are both unfinished, if it
\* is not held up itself.
Downstream(S, A, unfinished) ==
  LET holds == {<<e[2], e[1]>> : e \in {d \in S.dep : {d[1], d[2]} \subseteq unfinished}}
      top   == {t \in A \ {e[2] : e \in holds} : \E e \in holds : e[1] = t}
  IN  [t \in top |-> Reach(holds, {t}) \ {t}]

\* The walk down to the dependents goes through the trash.
TopLevelBlockers(S, A) ==
  LET walked == Reach({<<e[2], e[1]>> : e \in S.dep}, A)
  IN  Downstream(S, A, Unfinished(S, walked \cup Blockers(S, A)))

-----------------------------------------------------------------------------
(* Lists *)

\* A live child of a row in the trash, or purged, is shown at the top.
EffectiveTopLevel(S, A) == {t \in A : S.task[t].parent \notin Live(S)}

Any == "any"

\* list_tasks_page: a status filter is on the effective status and beats exclude_done.
ListTasks(S, f) ==
  LET rows == {t \in (IF f.top THEN EffectiveTopLevel(S, Live(S)) ELSE Live(S)) :
                 f.project \in {None, S.task[t].project}}
      roll == ComputeRollups(S, rows)
  IN  IF f.status # Any THEN {t \in rows : roll[t].status = f.status}
      ELSE IF f.excludeDone THEN {t \in rows : roll[t].status # "done"}
      ELSE rows

\* _split_by_effective_status: over the whole live set, read once.
OpenTasks(S) == {t \in Live(S) : Rollups(S)[t].status # "done"}

\* reads_with_blocked.
TaskReads(S, A) ==
  CHOOSE reads \in
    {[t \in A |->
        [status     |-> roll[t].status,
         blocked    |-> roll[t].blocked,
         subtasks   |-> roll[t].subtasks,
         top        |-> t \in EffectiveTopLevel(S, A),
         downstream |-> IF t \in DOMAIN counts THEN Cardinality(counts[t]) ELSE 0]] :
       roll \in {ComputeRollups(S, A)}, counts \in {TopLevelBlockers(S, A)}} : TRUE

-----------------------------------------------------------------------------
(* Properties *)

ReadAlike(alone) ==
  /\ \A A \in SUBSET Live(db) : TaskReads(db, A) = [t \in A |-> alone[t]]
  /\ \A roll \in {Rollups(db)}, t \in Live(db) : alone[t].status = roll[t].status

BlockersNamed(alone) ==
  LET waits == {e \in dep : e[1] \in Live(db) /\ ~DependsOnDone(db, e[2])}
  IN  \A A \in SUBSET Live(db) :
        /\ UnfinishedDependencies(db, A) = {e \in waits : e[1] \in A}
        /\ BlockedTaskIds(db, A) = {t \in A : alone[t].blocked}

ListsCounted ==
  \A top \in BOOLEAN :
    ListTasks(db, [top |-> top, project |-> None, status |-> Any, excludeDone |-> TRUE])
      = OpenTasks(db) \cap (IF top THEN EffectiveTopLevel(db, Live(db)) ELSE Live(db))

OnOneBoardRow ==
  LET board == EffectiveTopLevel(db, Live(db))
  IN  \A t \in Live(db) : \E r \in board : {a \in board : t \in LiveSubtree(db, a)} = {r}

\* A task reads the same alone, in any list and on the dashboard; it reads as
\* blocked just when a blocker is named for it; the open list is the one the
\* overview counts; and each live task is under exactly one row of a board.  The
\* readers load different graphs, and the guards of the writes a third.
ReadsAgree ==
  /\ \A alone \in {[t \in Live(db) |-> TaskReads(db, {t})[t]]} :
       ReadAlike(alone) /\ BlockersNamed(alone)
  /\ ListsCounted /\ OnOneBoardRow

\* Whatever holds work up can be found: each unfinished task that is blocked is
\* counted downstream of a task shown as a blocker, through any chain of waits,
\* however rows were completed, trashed and restored along it.
BlockersSurface ==
  \A counts \in {TopLevelBlockers(db, Live(db))}, roll \in {Rollups(db)}, t \in Live(db) :
    roll[t].blocked /\ roll[t].status # "done" => \E b \in DOMAIN counts : t \in counts[b]
=============================================================================
