----------------------------- MODULE TaskStore -----------------------------
(***************************************************************************)
(* The task database under every request that writes it: the composition of  *)
(* TaskService, TaskTrash and ProjectService over the one store of TaskDb.   *)
(* Writers are serialised by the write lock, so a behaviour is a sequence of *)
(* whole requests; what is hard is the sequences nobody wrote a test for.    *)
(***************************************************************************)
EXTENDS TaskService, ProjectService

CONSTANTS
  Calls,      \* bound: the requests a run sends, by name
  MaxPosted   \* bound: the largest id a run posts or links; later ids are clones

Init == DbInit

Next ==
  \/ "create"     \in Calls /\ \E id \in 1..MaxPosted, n \in NewTasks : CreateTask(id, n)
  \/ "update"     \in Calls /\ \E t \in TaskId, f \in Patches : UpdateTask(t, f)
  \/ "done"       \in Calls /\ \E t \in TaskId : MarkDone(t)
  \/ "reopen"     \in Calls /\ \E t \in TaskId : ReopenTask(t)
  \/ "delete"     \in Calls /\ \E t \in TaskId : SoftDeleteTask(t)
  \/ "skip"       \in Calls /\ \E t \in TaskId : SkipOccurrence(t)
  \/ "stop"       \in Calls /\ \E t \in TaskId : StopRecurrence(t)
  \/ "link"       \in Calls /\ \E t, b \in 1..MaxPosted : AddDependency(t, b)
  \/ "unlink"     \in Calls /\ \E e \in TaskId \X TaskId : RemoveDependency(e)
  \/ "restore"    \in Calls /\ \E t \in TaskId : RestoreTask(t)
  \/ "undelete"   \in Calls /\ \E t \in TaskId : RestoreTaskSubtree(t)
  \/ "purge"      \in Calls /\ \E t \in TaskId : PurgeTask(t)
  \/ "newProject" \in Calls /\ \E p \in ProjectId : CreateProject(p)
  \/ "delProject" \in Calls /\ \E p \in ProjectId : SoftDeleteProject(p)
  \/ "resProject" \in Calls /\ \E p \in ProjectId : RestoreProjectWithTasks(p)
  \/ "resAlone"   \in Calls /\ \E p \in ProjectId : RestoreProjectAlone(p)
  \/ "purProject" \in Calls /\ \E p \in ProjectId : PurgeProject(p)

Spec == Init /\ [][Next]_vars

-----------------------------------------------------------------------------
(* Invariants *)

\* Every column holds a value of its type.
TypeOK == db \in Store

\* No reference outlives the row it names: parents, cascade markers, dependency
\* ends, projects.  Ids are rowids and a purged id is handed out again, so a
\* reference that survived a purge would name some later, unrelated row.
NoDanglingReference ==
  /\ \A t \in Rows(db) :
       /\ task[t].parent \in Rows(db) \cup {None}
       /\ task[t].dwt \in Rows(db) \cup {None}
       /\ project[task[t].project] # "none"
  /\ \A e \in dep : {e[1], e[2]} \subseteq Rows(db)

\* The trash bookkeeping tells the truth: a live row carries no marker (it would
\* be swept along by someone else's restore); a trashed row was taken by at most
\* one of a cascade, a project and a skip; and a row taken by a project is filed
\* in it and the project is still in the trash (any other would be on no trash
\* list at all).
TrashMarkersTruthful ==
  \A t \in TaskId :
    LET row == task[t]
    IN  /\ row.state # "trashed" =>
             row.dwt = None /\ row.dwp = None /\ ~row.skipped /\ ~row.superseded
        /\ row.dwt # None => row.dwp = None /\ ~row.skipped
        /\ row.dwp # None => /\ ~row.skipped /\ ~row.superseded
                             /\ row.dwp = row.project
                             /\ project[row.project] = "trashed"
        /\ row.skipped => ~row.superseded /\ row.series # None /\ row.due # None

\* A live task is filed in a live project, whatever was trashed, restored or
\* purged around it.
LiveTaskInLiveProject ==
  \A t \in Live(db) : task[t].project \in LiveProjects(db)

\* The guards of every request keep two live occurrences of a series off one
\* date, so that uq_tasks_active_occurrence never has to refuse a write (but for
\* the rewind of an un-skip, which has no such guard).
OneOccurrencePerDate == OneLivePerSlot(db)

\* No sequence of moves, links, restores and clones closes a loop in the stored
\* wait graph, the trash included: everything on it would wait for itself for good.
WaitsAcyclic == Acyclic(StoredWaits(db))

\* A repeating row, in the trash too, has the due date and the series that
\* rolling it forward reads.
RepeatHasSeriesAndDate ==
  \A t \in Rows(db) : task[t].repeat # 0 => task[t].series # None /\ task[t].due # None

\* Nothing reads as done over unfinished work: what a done task waits on, through
\* any mix of subtasks and blockers, is done.
DoneMeansAllDone ==
  LET done == EffectivelyDone(db)
  IN  Reach(LiveEdges(db, StoredWaits(db)), done) = done

-----------------------------------------------------------------------------
(* Steps *)

\* A live row is destroyed by no request: it has to pass through the trash.
LiveNeverDestroyed == [][\A t \in Live(db) : t \in Rows(db)']_vars

\* A roll-forward never revives a date the user skipped.
SkippedDateNotRevived ==
  [][\A t \in Rows(db)' \ Rows(db) :
       task'[t].series # None
         => ~SkippedOccurrenceOn(db, task'[t].series, task'[t].due)]_vars

\* Restoring a skipped occurrence, in place or by rewinding its successor, puts
\* live work on the date that stops being skipped.
UnskippedDateIsLive ==
  [][\A t \in Rows(db) \cap Rows(db)' :
       task[t].skipped /\ ~task'[t].skipped
         => Occurrences(db', task[t].series, task[t].due) # {}]_vars

\* A clone is wired to other clones of its own occurrence only: no step that
\* inserts rows links one of them to a row that was there before.
ClonesKeepToThemselves ==
  [][\A e \in dep' \ dep : e[1] \in Rows(db) <=> e[2] \in Rows(db)]_vars

\* Series heads that read as done.
DoneHeads(S) == {t \in EffectivelyDone(S) : IsSeriesHead(S, t)}

Followed(S, t) ==
  \E d \in Date : Lands(S, t, d) /\ Occurrences(S, S.task[t].series, d) # {}

\* t waits on a series head that reconcile does not climb from: a recurring
\* subtask, or an occurrence that this step skips.
WaitsOnHead(S, t) ==
  \E h \in Reach(LiveEdges(S, StoredWaits(S)), {t}) \ {t} :
    /\ IsSeriesHead(S, h)
    /\ S.task[h].parent \in Live(S) \/ task'[h].skipped

\* S with the skip of its occurrence h still to come.
BeforeSkip(S, h) ==
  [S EXCEPT !.task[h] = [@ EXCEPT !.state = "live", !.skipped = FALSE]]

\* The series of t has a live occurrence on its next date, or had it until this
\* very step, the skip that put that occurrence aside.
GoesOn(t) ==
  \/ Followed(db', t)
  \/ \E h \in Live(db) : task'[h].skipped /\ Followed(BeforeSkip(db', h), t)

\* What holds of reconcile's promise to "spawn the successors of every series that
\* is now effectively complete": every head that a step completes, directly or
\* through any subtasks and blockers, or makes the first of a series, is followed
\* by a live occurrence, unless it waits on such a head.
CompletedSeriesGoOn ==
  [][\A t \in DoneHeads(db') \ DoneHeads(db) :
       t \notin EffectivelyDone(db) \/ task[t].series = None
         => WaitsOnHead(db, t) \/ WaitsOnHead(db', t) \/ GoesOn(t)]_vars
=============================================================================
