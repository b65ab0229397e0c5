----------------------------- MODULE MCTaskUndo -----------------------------
(* Small instances of TaskUndo.                                              *)
EXTENDS MCTaskStore, TaskUndoLate

\* A routine that is skipped, un-skipped and put back; one receipt is followed.
RoutinePatches == {[repeat |-> 1], [due |-> 2]}
RoutineTasks == Bodies({None, 1}, {None}, {1})
RoutineCalls == {"create", "update", "done", "delete", "skip", "restore", "purge", "receipt"}

\* A project that comes and goes, its restores undone, its trash purged in bulk.
ArchiveCalls ==
  (ProjectCalls \ {"purge"}) \cup {"receiptWith", "purgeSome", "empty", "expire"}

\* One routine without a checklist, whose dates are edited back and forth.
RetiredPatches == {[repeat |-> 1], [due |-> 1], [due |-> 2], [due |-> 3]}
RetiredCalls == {"create", "update", "done", "reopen", "skip", "restore", "purge", "receipt"}

\* The few requests the refuted claim takes.
LateUndoCalls ==
  {"create", "delete", "restore", "newProject", "delProject", "resProject"}
=============================================================================
