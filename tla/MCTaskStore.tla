---------------------------- MODULE MCTaskStore ----------------------------
(* Small instances of TaskStore: the requests each run sends.               *)
EXTENDS TaskReads

Bodies(parents, projects, dues) ==
  [project : projects, parent : parents, due : dues, status : {"open"}]

OpenBodies == Bodies({None}, {None, 2}, {None})
DatedTasks == Bodies({None}, {None}, {1})

Moves == {[parent |-> p] : p \in TaskId \cup {None}}
Repeating == {[repeat |-> 1]}

\* Trees and links that are moved, trashed, restored and purged.
TreePatches == Moves \cup {[status |-> s] : s \in {"open", "done"}}
TreeCalls == {"create", "update", "done", "reopen", "delete", "link", "unlink",
              "restore", "undelete", "purge",
              "newProject", "delProject", "resProject", "resAlone", "purProject"}

\* A project comes and goes only around a single task: how it meets a tree is the
\* question of run projects.
ProjectOfOne == project[2] = "none" \/ Cardinality(Rows(db)) <= 1

\* Series of single tasks.
SeriesPatches == {[repeat |-> 1], [repeat |-> 0], [due |-> None], [due |-> 1], [due |-> 2],
                  [repeat |-> 1, future |-> TRUE]}
SeriesCalls == {"create", "update", "done", "reopen", "delete", "skip", "stop",
                "restore", "purge"}

\* A checklist is created below the first task.
ChecklistTasks == Bodies({None, 1}, {None}, {1})

\* Repeating tasks that wait on one another.
ChainCalls == {"create", "update", "done", "delete", "skip", "link", "unlink"}

\* A project that comes and goes around a small tree, a series in it.
ProjectBodies == Bodies({None, 1}, {None, 2}, {1})
ProjectPatches == {[repeat |-> 1], [project |-> None]}
ProjectCalls == {"create", "update", "done", "delete", "skip", "restore", "undelete", "purge",
                 "newProject", "delProject", "resProject", "resAlone", "purProject"}
=============================================================================
