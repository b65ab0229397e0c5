------------------------------ MODULE TrashBulk ------------------------------
(***************************************************************************)
(* services/trash.py and jobs/trash_retention.py: purging a selection of the *)
(* trash, emptying it, and the scheduled pass that destroys what has outlived *)
(* the retention window.  Each is one transaction that holds the write lock   *)
(* from its first statement.                                                 *)
(*                                                                          *)
(* No clock: which rows and projects are older than the cutoff is a set the   *)
(* environment picks, in any order the trash can have been filled.            *)
(***************************************************************************)
EXTENDS ProjectService

Purgeable(S) == {p \in ProjectId \ {General} : S.project[p] = "trashed"}

\* purge_task for each of the tasks A in turn, skipping those a purge before it took.
PurgedInTurn(S, A) ==
  LET after[n \in 0..MaxTasks] ==
        IF n = 0 THEN S
        ELSE LET T == after[n - 1]
             IN  IF n \in A \cap Trashed(T) THEN Purged(T, PurgeSet(T, n)) ELSE T
  IN  after[MaxTasks]

\* purge_project for each of the projects P, whose rows go task by task as well.
ProjectsPurgedInTurn(S, P) ==
  LET T == PurgedInTurn(S, {t \in Trashed(S) : S.task[t].project \in P})
  IN  [T EXCEPT
         !.project = [p \in ProjectId |-> IF p \in P THEN "none" ELSE T.project[p]],
         !.task    = [t \in TaskId |-> IF T.task[t].dwp \in P
                                       THEN [T.task[t] EXCEPT !.dwp = None] ELSE T.task[t]]]

PurgedSelection(S, A, P) ==
  ProjectsPurgedInTurn(PurgedInTurn(S, A \cap Trashed(S)), P \cap Purgeable(S))

\* Mutant of RemovedTaskIds: counts the rows selected, not the rows that go.
RemovedSelection(S, A, P) == A \cup {t \in Trashed(S) : S.task[t].project \in P}

\* _removed_task_ids, read before the purge: what the answer counts.
RemovedTaskIds(S, A, P) ==
  UNION {PurgeSet(S, t) : t \in A \cup {u \in Trashed(S) : S.task[u].project \in P}}

PurgeSelected(A, P) == Write(PurgedSelection(db, A, P))

EmptyTrash ==
  /\ Trashed(db) # {} \/ Purgeable(db) # {}
  /\ Write(PurgedSelection(db, Trashed(db), Purgeable(db)))

-----------------------------------------------------------------------------
(* What the trash says before anything is destroyed *)

\* list_deleted_tasks: what a project took comes back with it, and a superseded row
\* not at all.
StandaloneTrash(S) == {t \in Trashed(S) : S.task[t].dwp = None /\ ~S.task[t].superseded}

\* count_trash.
TrashCounts(S) ==
  [projects |-> Cardinality({p \in ProjectId : S.project[p] = "trashed"}),
   tasks    |-> Cardinality(StandaloneTrash(S)),
   purge    |-> Cardinality(Trashed(S)) + Cardinality(Purgeable(S))]

TasksDeletedWithProject(S, p) == Cardinality(ProjectCascade(S, p))

TasksPurgedWithProject(S, p) == Cardinality({t \in Trashed(S) : S.task[t].project = p})

-----------------------------------------------------------------------------
(* Retention *)

\* Mutant of ExpiredTaskRoots: a row's own age decides, whatever took it.
ExpiredByOwnAge(S, old) == {t \in old : S.task[t].dwp = None}

\* _expired_task_roots: a row that a cascade took waits for the cascade's root.
ExpiredTaskRoots(S, old) ==
  {t \in old : /\ S.task[t].dwp = None
               /\ S.task[t].dwt \notin Trashed(S) \ {u \in old : S.task[u].dwp = None}}

\* One pass: oldTasks and oldProjects were trashed before the cutoff.
PurgeExpired(oldTasks, oldProjects) ==
  Write(PurgedSelection(db, ExpiredTaskRoots(db, oldTasks), oldProjects))
=============================================================================
