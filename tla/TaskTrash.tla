----------------------------- MODULE TaskTrash -----------------------------
(***************************************************************************)
(* services/task_trash.py: restoring a row, un-skipping an occurrence,       *)
(* reversing a cascade delete and purging.  The Undo of a restore is in       *)
(* TaskUndo, the bulk purges and the counts of the trash in TrashBulk.       *)
(*                                                                          *)
(* detach_if_parent_cycle is left out: it acts on a stored parent cycle,     *)
(* which only a database written before the cycle guard can hold.            *)
(***************************************************************************)
EXTENDS TaskDb

\* The trashed rows one cascade delete of root stamped.
Stamped(S, root) == {t \in Trashed(S) : S.task[t].dwt = root}

MarkedDescendants(S, root) == {t \in Stamped(S, root) : ~S.task[t].superseded}

-----------------------------------------------------------------------------
(* Plain restore *)

\* Mutants of RestoredRow: the row stays in a trashed project, or loses its
\* project.
RestoredInPlace(S, t) ==
  [S.task[t] EXCEPT !.state = "live", !.dwt = None, !.dwp = None, !.skipped = FALSE]

\* A restored row drops its markers and moves to General if its project is gone.
RestoredRow(S, t) ==
  LET row == S.task[t]
  IN  [row EXCEPT
         !.state   = "live",
         !.project = IF @ \in LiveProjects(S) THEN @ ELSE General,
         !.dwt = None, !.dwp = None, !.skipped = FALSE]

Restored(S, A) ==
  [S EXCEPT !.task = [t \in TaskId |-> IF t \in A THEN RestoredRow(S, t) ELSE S.task[t]]]

\* No row of A comes back onto a date a live occurrence, or another row of A,
\* holds: the rows are restored one by one, each behind the same check.
SlotsFree(S, A) == OneLivePerSlot(Restored(S, A))

\* A skipped occurrence brings its checklist back; any other row comes alone.
PlainRestoreSet(S, t) ==
  {t} \cup (IF S.task[t].skipped THEN MarkedDescendants(S, t) ELSE {})

-----------------------------------------------------------------------------
(* Un-skip with a live successor: rewind it instead *)

Successors(S, t) ==
  {u \in Live(S) : /\ S.task[u].series = S.task[t].series
                   /\ S.task[u].due # None /\ S.task[u].due >= S.task[t].due}

Rewinds(S, t) ==
  /\ S.task[t].skipped /\ S.task[t].series # None /\ S.task[t].due # None
  /\ Successors(S, t) # {}

\* The earliest; one live occurrence per date, so there is no tie.
NextLive(S, t) ==
  CHOOSE u \in Successors(S, t) : \A v \in Successors(S, t) : S.task[u].due <= S.task[v].due

\* Mutant of Rescheduled: moves the checklist and not the occurrence.
RescheduledChecklist(S, t, due) ==
  [S EXCEPT !.task = [u \in TaskId |-> IF u \in LiveSubtree(S, t) \ {t}
                                       THEN [S.task[u] EXCEPT !.due = due] ELSE S.task[u]]]

\* reschedule_occurrence: the whole live subtree moves to the date.
Rescheduled(S, t, due) ==
  [S EXCEPT !.task = [u \in TaskId |-> IF u \in LiveSubtree(S, t)
                                       THEN [S.task[u] EXCEPT !.due = due] ELSE S.task[u]]]

\* Mutant of Supersede: the retired date still counts as skipped.
SupersedeStillSkipped(S, t) ==
  [S EXCEPT !.task = [u \in TaskId |->
     IF u \in {t} \cup Stamped(S, t) THEN [S.task[u] EXCEPT !.superseded = TRUE]
     ELSE S.task[u]]]

\* The original and everything its cascade stamped are retired: still trashed,
\* refused by every later restore.  The date is not skipped any more.
Supersede(S, t) ==
  LET A == {t} \cup Stamped(S, t)
  IN  [S EXCEPT !.task = [u \in TaskId |->
         IF u \in A THEN [S.task[u] EXCEPT !.superseded = TRUE,
                                           !.skipped = IF u = t THEN FALSE ELSE @]
         ELSE S.task[u]]]

Rewound(S, t) == Supersede(Rescheduled(S, NextLive(S, t), S.task[t].due), t)

\* Nothing checks the slots the rewound subtree moves to (a subtask of it may
\* belong to a series of its own): here the unique index itself has the last word.
CommitRewind(t) ==
  /\ OneLivePerSlot(Rewound(db, t))
  /\ Commit(Rewound(db, t), {NextLive(db, t)})

-----------------------------------------------------------------------------

\* A superseded row never comes back (SupersededTaskError).
RestoreTask(t) ==
  /\ t \in Trashed(db)
  /\ ~task[t].superseded
  /\ IF Rewinds(db, t)
     THEN CommitRewind(t)
     ELSE /\ SlotsFree(db, PlainRestoreSet(db, t))
          /\ Commit(Restored(db, PlainRestoreSet(db, t)), PlainRestoreSet(db, t))

\* restore_subtasks=true: the inverse of the delete that stamped the rows.  The
\* stamped set is read again after the root is back, and the series are judged
\* once, over the whole of it.  The rewind has reconciled on its own by then, and
\* its second pass starts from the same row.
RestoreTaskSubtree(t) ==
  LET A == {t} \cup MarkedDescendants(db, t)
  IN  /\ t \in Trashed(db)
      /\ ~task[t].superseded
      /\ IF Rewinds(db, t)
         THEN CommitRewind(t)
         ELSE SlotsFree(db, A) /\ Commit(Restored(db, A), A)

-----------------------------------------------------------------------------
(* Purge *)

\* The trashed subtree below t, inside t's project.
PurgeSet(S, t) ==
  LET mine == {u \in Trashed(S) : S.task[u].project = S.task[t].project}
  IN  Reach({e \in StoredNesting(S) : e[1] \in mine /\ e[2] \in mine}, {t})

\* Mutant of Purged: a survivor's cascade marker outlives the row it names.
PurgedKeepingMarkers(S, A) ==
  [S EXCEPT
     !.task = [t \in TaskId |->
                 IF t \in A THEN NoRow
                 ELSE [S.task[t] EXCEPT !.parent = IF @ \in A THEN None ELSE @]],
     !.dep  = {e \in S.dep : e[1] \notin A /\ e[2] \notin A}]

\* The rows go, with every edge at either end; a survivor's pointer to one of
\* them is cleared, since the freed id is handed to the next insert.
Purged(S, A) ==
  LET cleared(ref) == IF ref \in A THEN None ELSE ref
  IN  [S EXCEPT
         !.task = [t \in TaskId |->
                     IF t \in A THEN NoRow
                     ELSE [S.task[t] EXCEPT !.parent = cleared(@), !.dwt = cleared(@)]],
         !.dep  = {e \in S.dep : e[1] \notin A /\ e[2] \notin A}]

PurgeTask(t) ==
  /\ t \in Trashed(db)
  /\ Write(Purged(db, PurgeSet(db, t)))
=============================================================================
