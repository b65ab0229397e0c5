------------------------------ MODULE TaskUndo ------------------------------
(***************************************************************************)
(* The Undo of a restore: undo_task_restore and _undo_unskip of               *)
(* services/task_trash.py, undo_project_restore of services/projects.py, over *)
(* the whole of TaskStore, with the bulk purges of TrashBulk.                *)
(*                                                                          *)
(* A restore answers with a receipt that the client may post back at any      *)
(* later time.  The receipt is bound to its restore through the activity log: *)
(* a later event on a row it names overtakes it.  A run follows one receipt,  *)
(* any one; the log is kept as whether that receipt is still good.            *)
(***************************************************************************)
EXTENDS TaskStore, TrashBulk

VARIABLE receipt

uvars == <<task, dep, project, receipt>>

NoReceipt == [kind |-> "none"]

-----------------------------------------------------------------------------
(* Receipts *)

\* The rows a rewind moves, with the dates they leave.
PreviousDues(S, t) ==
  [u \in {v \in LiveSubtree(S, NextLive(S, t)) : S.task[v].due # S.task[t].due} |->
     S.task[u].due]

RestoreReceipt(S, t) ==
  IF Rewinds(S, t)
  THEN [kind |-> "unskip", root |-> NextLive(S, t), original |-> t,
        due |-> S.task[t].due, previous |-> PreviousDues(S, t), same |-> TRUE]
  ELSE [kind |-> "task", root |-> t, ids |-> PlainRestoreSet(S, t),
        skipped |-> S.task[t].skipped, prior |-> S.task[t].dwt]

\* The tasks a project restore brought back or left in the trash are read from
\* the log when the receipt is used; nothing logged later is among them.
ProjectReceipt(p, restored, left) ==
  [kind |-> "project", project |-> p, restored |-> restored, left |-> left]

\* This step logs an event on t: it writes the row, or a link it waits on.
Touched(t) ==
  \/ task'[t] # task[t]
  \/ {e \in dep' : e[1] = t} # {e \in dep : e[1] = t}

\* This step logs "restored" on t: in place, or as the row an un-skip rewinds.
RestoredEvent(t) ==
  \/ task[t].state = "trashed" /\ task'[t].state = "live"
  \/ \E u \in Trashed(db) : /\ Rewinds(db, u) /\ t = NextLive(db, u)
                            /\ task'[u].superseded /\ ~task[u].superseded

\* What the guards on the log refuse from this step on.
Overtaken(r) ==
  \/ r.kind = "task" /\ \E t \in r.ids : Touched(t) \/ RestoredEvent(t)
  \/ r.kind = "unskip" /\ RestoredEvent(r.root)
  \/ r.kind = "project" /\ project[r.project] = "trashed" /\ project'[r.project] = "live"

\* The row an un-skip retired is purged; its id may be given to another row.
Reusable(r) == r.kind = "unskip" /\ task'[r.original].state = "none"

\* A purged project's task events lose the project: nothing is found under it.
\* History: same, whether the retired row is still the one that was retired.
Aged(r) ==
  IF Overtaken(r) THEN NoReceipt
  ELSE IF r.kind = "project" /\ project'[r.project] = "none"
       THEN ProjectReceipt(r.project, {}, {})
       ELSE IF Reusable(r) THEN [r EXCEPT !.same = FALSE]
       ELSE r

-----------------------------------------------------------------------------
(* Restores whose receipt is followed *)

RestoreWithUndo(t) ==
  /\ RestoreTask(t)
  /\ receipt' = RestoreReceipt(db, t)

RestoreProjectWithUndo(p) ==
  /\ RestoreProjectWithTasks(p)
  /\ receipt' = ProjectReceipt(p, ProjectCascade(db, p), {})

-----------------------------------------------------------------------------
(* Undo *)

\* Mutant of Retrashed: the rows go back on their own terms, outside any cascade.
RetrashedUnmarked(S, r) ==
  [S EXCEPT !.task = [t \in TaskId |->
     IF t \notin r.ids THEN S.task[t]
     ELSE [S.task[t] EXCEPT
             !.state = "trashed", !.skipped = (t = r.root /\ r.skipped)]]]

\* _retrash_restored: the root gets its marker back if that row is still in the
\* trash; what came back with the root goes back as its cascade.
Retrashed(S, r) ==
  [S EXCEPT !.task = [t \in TaskId |->
     IF t \notin r.ids THEN S.task[t]
     ELSE [S.task[t] EXCEPT
             !.state   = "trashed",
             !.dwt     = IF t # r.root THEN r.root
                         ELSE IF r.prior \in Trashed(S) THEN r.prior ELSE None,
             !.skipped = (t = r.root /\ r.skipped)]]]

UndoTaskRestore ==
  /\ receipt.kind = "task"
  /\ Commit(Retrashed(db, receipt), Neighbours(db, receipt.ids))

\* The occurrence and its checklist are where the un-skip put them, and the dates
\* it would vacate and fill are free.
SeriesStandsStill(S, r) ==
  LET head == S.task[r.root]
      old  == S.task[r.original]
  IN  /\ r.root \in Live(S) /\ head.series # None /\ head.due = r.due
      /\ r.original \in Trashed(S)
      /\ old.superseded /\ old.series = head.series /\ old.due = r.due
      /\ r.root \in DOMAIN r.previous
      /\ \A t \in DOMAIN r.previous : t \in LiveSubtree(S, r.root) /\ S.task[t].due = r.due
      /\ ~LiveOccurrenceOn(S, head.series, r.previous[r.root], r.root)
      /\ ~SkippedOccurrenceOn(S, head.series, r.due)

\* Mutant of BackToSkipped: only the occurrence leaves the superseded state.
BackToSkippedAlone(S, r) ==
  [S EXCEPT !.task = [t \in TaskId |->
     IF t \in DOMAIN r.previous THEN [S.task[t] EXCEPT !.due = r.previous[t]]
     ELSE IF t = r.original THEN [S.task[t] EXCEPT !.superseded = FALSE, !.skipped = TRUE]
     ELSE S.task[t]]]

\* The rewound rows go back to their dates, the original is the skipped one again.
BackToSkipped(S, r) ==
  [S EXCEPT !.task = [t \in TaskId |->
     IF t \in DOMAIN r.previous THEN [S.task[t] EXCEPT !.due = r.previous[t]]
     ELSE IF t = r.original THEN [S.task[t] EXCEPT !.superseded = FALSE, !.skipped = TRUE]
     ELSE IF t \in Stamped(S, r.original) THEN [S.task[t] EXCEPT !.superseded = FALSE]
     ELSE S.task[t]]]

\* A checklist row of a series of its own has only the unique index to stop it.
UndoUnskip ==
  /\ receipt.kind = "unskip"
  /\ SeriesStandsStill(db, receipt)
  /\ OneLivePerSlot(BackToSkipped(db, receipt))
  /\ Write(BackToSkipped(db, receipt))

\* The rows left in the standalone trash, if they are there still and still filed
\* in the project, are archived with it again.
Rearchived(S, r) ==
  [S EXCEPT !.task = [t \in TaskId |->
     IF t \in r.left \cap Trashed(S) /\ S.task[t].project = r.project /\ S.task[t].dwp = None
     THEN [S.task[t] EXCEPT !.dwp = r.project] ELSE S.task[t]]]

\* Mutant of SameWork: what the project holds by now is not looked at.
AnyWork(S, r) == TRUE

\* Its live tasks are exactly the ones that restore brought back.
SameWork(S, r) == ProjectTasks(S, r.project) = r.restored

UndoProjectRestore ==
  /\ receipt.kind = "project"
  /\ LET p == receipt.project
         S == Rearchived(db, receipt)
         T == TrashedWithProject(S, p)
     IN  /\ p \in LiveProjects(db)
         /\ SameWork(db, receipt)
         /\ CanReconcile(T, ProjectNeighbours(S, p))
         /\ Write([Reconcile(T, ProjectNeighbours(S, p)) EXCEPT !.project[p] = "trashed"])

-----------------------------------------------------------------------------

UInit == Init /\ receipt = NoReceipt

\* Bound: of the tasks in the trash all are past the cutoff, or all but one.
Expired == {Trashed(db)} \cup {Trashed(db) \ {t} : t \in Trashed(db)}

Ages == receipt' = Aged(receipt)

UNext ==
  \/ Next /\ Ages
  \/ "receipt"     \in Calls /\ \E t \in TaskId : RestoreWithUndo(t)
  \/ "receiptWith" \in Calls /\ \E p \in ProjectId : RestoreProjectWithUndo(p)
  \/ UndoTaskRestore /\ Ages
  \/ UndoUnskip /\ Ages
  \/ UndoProjectRestore /\ Ages
  \/ "purgeSome" \in Calls /\ \E A \in SUBSET Trashed(db), P \in SUBSET Purgeable(db) :
       A \cup P # {} /\ PurgeSelected(A, P) /\ Ages
  \/ "empty"  \in Calls /\ EmptyTrash /\ Ages
  \/ "expire" \in Calls /\ \E old \in Expired, P \in {{}, Purgeable(db)} :
       old \cup P # {} /\ PurgeExpired(old, P) /\ Ages

UndoSpec == UInit /\ [][UNext]_uvars

-----------------------------------------------------------------------------
(* Properties *)

\* Undoing a restore is its inverse: nothing but the rows it brought back changes
\* (a child restored on its own stays), and restoring the row once more would
\* bring back those rows, exactly as they were a moment ago.
UndoneRestoreRedoes ==
  [][UndoTaskRestore =>
       LET r == receipt
       IN  /\ \A t \in Rows(db) \ r.ids : task'[t] = task[t]
           /\ PlainRestoreSet(db', r.root) = r.ids
           /\ \A t \in r.ids : RestoredRow(db', t) = task[t]]_uvars

\* Undoing an un-skip likewise, while the row it retired has not been purged: only
\* the rows it moved or retired change, the occurrence is skipped again with its
\* whole checklist, and rewinding the same series once more would bring back
\* exactly what was there.
UndoneUnskipRedoes ==
  [][UndoUnskip /\ receipt.same =>
       LET r    == receipt
           mine == DOMAIN r.previous \cup {r.original} \cup Stamped(db, r.original)
           redo == Supersede(Rescheduled(db', r.root, r.due), r.original)
       IN  /\ \A t \in TaskId \ mine : task'[t] = task[t]
           /\ PlainRestoreSet(db', r.original) = {r.original} \cup Stamped(db, r.original)
           /\ \A t \in mine : redo.task[t] = task[t]]_uvars

\* The docstring of _undo_unskip: it "turns the very row the user restored back
\* into the skipped occurrence".
ReceiptNamesItsRow == [][UndoUnskip => receipt.same]_uvars

\* Undoing a project restore takes no work into the trash that the restore did
\* not bring out of it, and a restore with tasks brings it all back as it is.
UndoneProjectRedoes ==
  [][UndoProjectRestore =>
       LET p == receipt.project
       IN  /\ Trashed(db)' \ Trashed(db) = receipt.restored
           /\ receipt.restored \subseteq ProjectCascade(db', p)
           /\ \A t \in Rows(db) \ (receipt.restored \cup receipt.left) : task'[t] = task[t]]_uvars

\* The counts a user confirms are what happens: whatever is selected, the answer of a
\* bulk purge counts the rows that go; emptying the trash destroys the figure named
\* for it, and purging a project the tasks named for it, no more and no fewer; and
\* every row in the trash is on the list, under a project on it, or superseded.
PurgeCountsExact ==
  LET gone(A, P) == Rows(db) \ Rows(PurgedSelection(db, A, P))
      counts     == TrashCounts(db)
  IN  /\ \A A \in SUBSET Trashed(db), P \in SUBSET Purgeable(db) :
           RemovedTaskIds(db, A, P) = gone(A, P)
      /\ counts.purge =
           Cardinality(gone(Trashed(db), Purgeable(db))) + Cardinality(Purgeable(db))
      /\ \A p \in Purgeable(db) :
           /\ Cardinality(gone({}, {p})) = TasksPurgedWithProject(db, p)
           /\ TasksDeletedWithProject(db, p) <= TasksPurgedWithProject(db, p)
      /\ \A t \in Trashed(db) \ StandaloneTrash(db) :
           task[t].superseded \/ \E p \in Purgeable(db) : t \in ProjectCascade(db, p)

\* Retention takes a row that a cascade took only with the cascade's root or with
\* some ancestor or project that expired: never on its own age while the root it
\* would come back with is younger and still in the trash.
CascadeWaitsForItsRoot ==
  \A t \in {u \in Trashed(db) : task[u].dwt \in Trashed(db)} :
    \A old \in SUBSET (Trashed(db) \ {task[t].dwt}) :
      t \in old /\ t \notin Rows(PurgedSelection(db, ExpiredTaskRoots(db, old), {}))
        => \E u \in old \ {t} : t \in PurgeSet(db, u)
=============================================================================
