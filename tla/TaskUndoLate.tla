---------------------------- MODULE TaskUndoLate ----------------------------
(***************************************************************************)
(* TaskUndo with the one receipt it does not follow: a project restored       *)
(* without its tasks, whose rows go to the standalone trash.                  *)
(***************************************************************************)
EXTENDS TaskUndo

RestoreProjectAloneWithUndo(p) ==
  /\ RestoreProjectAlone(p)
  /\ receipt' = ProjectReceipt(p, {}, {t \in TaskId : task[t].dwp = p})

LateUndoSpec ==
  UInit /\ [][UNext \/ \E p \in ProjectId : RestoreProjectAloneWithUndo(p)]_uvars

\* "tasks the user trashed independently keep their null marker and stay in the
\* trash": a row that a task's own cascade or a skip took is archived with no
\* project.
TrashedForOneReason ==
  \A t \in TaskId : task[t].dwt # None \/ task[t].skipped => task[t].dwp = None
=============================================================================
