------------------------------- MODULE TaskDb -------------------------------
(***************************************************************************)
(* The database the services share, and what a write transaction does to    *)
(* it.  Each action of the service modules is one request: it runs under    *)
(* the write lock (BEGIN IMMEDIATE), and a refusal anywhere in it rolls     *)
(* everything back, so a refused request is a step that is not taken.       *)
(***************************************************************************)
EXTENDS TaskRecurrence

VARIABLES
  task,     \* row id -> row
  dep,      \* active dependency edges <<dependent, blocker>>
  project   \* project id -> lifecycle

vars == <<task, dep, project>>

db == [task |-> task, dep |-> dep, project |-> project]

DbInit ==
  /\ task = EmptyStore.task
  /\ dep = EmptyStore.dep
  /\ project = EmptyStore.project

\* uq_tasks_active_occurrence: one live occurrence per series and date.  It is a
\* backstop: the guards of the requests keep it, as an invariant, and only the
\* rewind of TaskTrash needs it to refuse a write.
OneLivePerSlot(S) ==
  \A t, u \in Live(S) :
    /\ S.task[t].series # None /\ S.task[t].due # None
    /\ S.task[t].series = S.task[u].series /\ S.task[t].due = S.task[u].due
    => t = u

Write(S) ==
  /\ task' = S.task
  /\ dep' = S.dep
  /\ project' = S.project

\* The transaction's last word: roll the series forward, then commit.
Commit(S, seeds) ==
  /\ CanReconcile(S, seeds)
  /\ Write(Reconcile(S, seeds))
=============================================================================
