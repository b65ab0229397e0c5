--------------------------- MODULE ProjectService ---------------------------
(***************************************************************************)
(* services/projects.py: creating a project, trashing it with its tasks,    *)
(* restoring it with or without them, and purging it.  The Undo of a project *)
(* restore is in TaskUndo; names, ordering and closing are left out.         *)
(***************************************************************************)
EXTENDS TaskTrash

\* projects.id is a plain rowid as well.
NextProjectId(S, p) ==
  /\ p > General /\ S.project[p - 1] # "none"
  /\ \A q \in p..MaxProjects : S.project[q] = "none"

CreateProject(p) ==
  /\ NextProjectId(db, p)
  /\ Write([db EXCEPT !.project[p] = "live"])

\* Membership, not hierarchy: a child filed elsewhere stays.  Series are judged
\* from outside the batch, and before the project's own row is trashed.
ProjectTasks(S, p) == {t \in Live(S) : S.task[t].project = p}

TrashedWithProject(S, p) ==
  [S EXCEPT !.task = [t \in TaskId |-> IF t \in ProjectTasks(S, p)
                                       THEN [S.task[t] EXCEPT !.state = "trashed", !.dwp = p]
                                       ELSE S.task[t]]]

ProjectNeighbours(S, p) ==
  LET A == ProjectTasks(S, p)
  IN  ({S.task[t].parent : t \in A} \cup UNION {ListDependents(S, t) : t \in A}) \ A

SoftDeleteProject(p) ==
  LET S == TrashedWithProject(db, p)
  IN  /\ p # General
      /\ p \in LiveProjects(db)
      /\ CanReconcile(S, ProjectNeighbours(db, p))
      /\ Write([Reconcile(S, ProjectNeighbours(db, p)) EXCEPT !.project[p] = "trashed"])

ProjectCascade(S, p) == {t \in Trashed(S) : S.task[t].dwp = p}

\* With its tasks: the batch is checked before a row is written.  Only the
\* project's own marker is cleared.
RestoreProjectWithTasks(p) ==
  LET A == ProjectCascade(db, p)
      S == [db EXCEPT
              !.project[p] = "live",
              !.task = [t \in TaskId |-> IF t \in A
                                         THEN [task[t] EXCEPT !.state = "live", !.dwp = None]
                                         ELSE task[t]]]
  IN  /\ project[p] = "trashed"
      /\ OneLivePerSlot(S)
      /\ Commit(S, A)

\* Without: the rows move to the standalone trash.
RestoreProjectAlone(p) ==
  /\ project[p] = "trashed"
  /\ Write([db EXCEPT
              !.project[p] = "live",
              !.task = [t \in TaskId |-> IF task[t].dwp = p
                                         THEN [task[t] EXCEPT !.dwp = None] ELSE task[t]]])

\* Every trashed task still filed here is destroyed, each with its subtree inside
\* the project, so the set is the project's own rows.
PurgeProject(p) ==
  LET A == {t \in Trashed(db) : task[t].project = p}
      S == Purged(db, A)
  IN  /\ p # General
      /\ project[p] = "trashed"
      /\ Write([S EXCEPT
                  !.project[p] = "none",
                  !.task = [t \in TaskId |-> IF S.task[t].dwp = p
                                             THEN [S.task[t] EXCEPT !.dwp = None]
                                             ELSE S.task[t]]])
=============================================================================
