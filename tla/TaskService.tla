---------------------------- MODULE TaskService ----------------------------
(***************************************************************************)
(* services/tasks.py, services/task_dependencies.py and the write verbs of   *)
(* services/task_recurrence.py: the requests that create, edit, complete,    *)
(* trash and skip tasks and that link them.                                  *)
(***************************************************************************)
EXTENDS TaskDb

CONSTANTS
  Patches,   \* the PATCH bodies a run sends; the keys of a record are its fields
  NewTasks   \* the POST bodies a run sends

ASSUME RequestShapes ==
  /\ \A f \in Patches :
       /\ "status" \in DOMAIN f => f.status \in WorkflowStatus
       /\ "parent" \in DOMAIN f => f.parent \in TaskId \cup {None}
       /\ "project" \in DOMAIN f => f.project \in ProjectId \cup {None}
       /\ "due" \in DOMAIN f => f.due \in Date \cup {None}
       /\ "repeat" \in DOMAIN f => f.repeat \in 0..MaxEvery
       /\ "future" \in DOMAIN f => f.future \in BOOLEAN
  /\ NewTasks \subseteq [project : ProjectId \cup {None}, parent : TaskId \cup {None},
                         due : Date \cup {None}, status : WorkflowStatus]

-----------------------------------------------------------------------------
(* Creating a task *)

\* Project and due date default to the live parent's, then to General and none.
NewRow(S, n) ==
  LET has == n.parent \in Live(S)
  IN  [NoRow EXCEPT
         !.state   = "live",
         !.status  = n.status,
         !.parent  = n.parent,
         !.project = IF n.project # None THEN n.project
                     ELSE IF has THEN S.task[n.parent].project ELSE General,
         !.due     = IF n.due = None /\ has THEN S.task[n.parent].due ELSE n.due]

CreateTask(id, n) ==
  /\ NextId(db, id)
  /\ n.project # None => n.project \in LiveProjects(db)
  /\ n.parent # None => /\ n.parent \in Live(db)
                        /\ NestingLevel(db, n.parent) + 1 <= MaxDepth
  /\ Commit([db EXCEPT !.task[id] = NewRow(db, n)], {id})

-----------------------------------------------------------------------------
(* Status writes *)

Blocked(S, t) == Rollups(S)[t].blocked

\* _parent_status_write_takes_effect, for a task with live subtasks: the write
\* lands, says what the subtasks already say, or is refused.
StatusGate(S, t, target) ==
  LET roll == Rollups(S)[t]
  IN  IF target = "done"
      THEN IF roll.status = "done" THEN "drop" ELSE "refuse"
      ELSE IF roll.subtasks \in {"leaf", "open"} THEN "land"
      ELSE IF roll.subtasks = target THEN "drop" ELSE "refuse"

\* Completing a parent its subtasks have completed already writes nothing at all.
\* A repeated completion of a leaf still reconciles, to repair a stalled series.
MarkDone(t) ==
  /\ t \in Live(db)
  /\ ListSubtasks(db, t) = {}
  /\ task[t].status # "done" => ~Blocked(db, t)
  /\ Commit([db EXCEPT !.task[t].status = "done"], {t})

\* Reopening rolls nothing forward and leaves a successor that exists alone.
ReopenTask(t) ==
  /\ t \in Live(db)
  /\ ListSubtasks(db, t) # {} => StatusGate(db, t, "open") = "land"
  /\ Write([db EXCEPT !.task[t].status = "open"])

-----------------------------------------------------------------------------
(* Editing a task: the PATCH handler *)

Given(f, key) == key \in DOMAIN f

Patched(f, key, old) == IF Given(f, key) THEN f[key] ELSE old

\* A status the subtasks already express is dropped from the patch.
LandingStatus(S, t, f) ==
  IF ListSubtasks(S, t) # {} /\ Given(f, "status") /\ StatusGate(S, t, f.status) = "drop"
  THEN S.task[t].status
  ELSE Patched(f, "status", S.task[t].status)

EditedRow(S, t, f) ==
  LET row == S.task[t]
  IN  [row EXCEPT
         !.status  = LandingStatus(S, t, f),
         !.parent  = Patched(f, "parent", row.parent),
         !.project = IF Given(f, "project") /\ f.project = None THEN General
                     ELSE Patched(f, "project", row.project),
         !.due     = Patched(f, "due", row.due),
         !.repeat  = Patched(f, "repeat", row.repeat)]

EditsFuture(f) == Given(f, "future") /\ f.future

MoveAllowed(S, t, parent) ==
  /\ parent \in Live(S)
  /\ parent \notin Reach(StoredNesting(S), {t})
  /\ parent # S.task[t].parent =>
       /\ NestingLevel(S, parent) + 1 + SubtreeHeight(S, t) <= MaxDepth
       /\ ~WaitsOn(S, t, parent)

\* Live occurrences of t's series due on or after a date, t excluded.
LaterOccurrences(S, t, due) ==
  {u \in Live(S) \ {t} : /\ S.task[t].series # None
                         /\ S.task[u].series = S.task[t].series
                         /\ S.task[u].due # None /\ S.task[u].due >= due}

RepeatAllowed(S, t, f) ==
  LET new == EditedRow(S, t, f)
  IN  new.repeat # 0 =>
        /\ new.due # None
        /\ HasNextDue(new.due, new.repeat)
        /\ EditsFuture(f) /\ Given(f, "repeat") =>
             \A u \in LaterOccurrences(S, t, new.due) : HasNextDue(S.task[u].due, new.repeat)

DueAllowed(S, t, f) ==
  LET new == EditedRow(S, t, f)
  IN  new.due # None /\ new.due # S.task[t].due
        => ~LiveOccurrenceOn(S, new.series, new.due, t)

StatusAllowed(S, t, f) ==
  Given(f, "status") =>
    /\ ListSubtasks(S, t) # {} => StatusGate(S, t, f.status) # "refuse"
    /\ LandingStatus(S, t, f) = "done" /\ S.task[t].status # "done" => ~Blocked(S, t)

\* A series id is a fresh UUID.
FreshSeries(S) == {s \in Series : \A t \in Rows(S) : S.task[t].series # s}

\* The first repeat mints the series; clearing it keeps the id.
WithSeries(S, row) ==
  [row EXCEPT !.series = IF row.repeat # 0 /\ @ = None
                         THEN CHOOSE s \in FreshSeries(S) : TRUE ELSE @]

\* "This and all future occurrences": of the fields that travel, the interval is
\* the one kept here.  The bulk UPDATE reaches the later rows and nothing else.
Edited(S, t, f) ==
  LET new == WithSeries(S, EditedRow(S, t, f))
      S1  == [S EXCEPT !.task[t] = new]
      fwd == IF EditsFuture(f) /\ Given(f, "repeat") /\ new.due # None
             THEN LaterOccurrences(S1, t, new.due) ELSE {}
  IN  [S1 EXCEPT !.task = [u \in TaskId |-> IF u \in fwd
                                            THEN [S1.task[u] EXCEPT !.repeat = f.repeat]
                                            ELSE S1.task[u]]]

EditSeeds(S, t, f) ==
  {t} \cup (IF Given(f, "parent") /\ f.parent # S.task[t].parent
            THEN {S.task[t].parent, f.parent} ELSE {})

\* A patch that moves no row is answered without a write and without reconciling.
UpdateTask(t, f) ==
  /\ t \in Live(db)
  /\ Given(f, "project") /\ f.project # None => f.project \in LiveProjects(db)
  /\ Given(f, "parent") /\ f.parent # None => MoveAllowed(db, t, f.parent)
  /\ StatusAllowed(db, t, f)
  /\ RepeatAllowed(db, t, f)
  /\ Given(f, "due") => DueAllowed(db, t, f)
  /\ EditedRow(db, t, f).repeat # 0 /\ task[t].series = None => FreshSeries(db) # {}
  /\ \/ EditedRow(db, t, f) # task[t]
     \/ EditsFuture(f) /\ Given(f, "repeat") /\ task[t].series # None /\ task[t].due # None
  /\ Commit(Edited(db, t, f), EditSeeds(db, t, f))

-----------------------------------------------------------------------------
(* Trashing and skipping *)

\* The rows of A go to the trash; all but root are stamped with root's id.
Trashing(S, A, root) ==
  [S EXCEPT !.task = [t \in TaskId |->
     IF t \notin A THEN S.task[t]
     ELSE [S.task[t] EXCEPT !.state = "trashed", !.dwt = IF t = root THEN @ ELSE root]]]

\* Parents and dependents of the rows of A, outside A.
Neighbours(S, A) ==
  ({S.task[t].parent : t \in A} \cup UNION {ListDependents(S, t) : t \in A}) \ A

SoftDeleteTask(t) ==
  /\ t \in Live(db)
  /\ LET A == LiveSubtree(db, t)
     IN  Commit(Trashing(db, A, t), Neighbours(db, A))

\* skip_occurrence: the successor first, then the checklist, then the occurrence
\* itself, marked as skipped.  Only the checklist's neighbours are reconciled: the
\* occurrence's own parent and dependents are not.
Checklist(S, t) == LiveSubtree(S, t) \ {t}

ChecklistGone(S, t) ==
  LET next == RollForward(S, {t}) IN Trashing(next, Checklist(next, t), t)

SkipSeeds(S, t) == Neighbours(S, Checklist(S, t)) \ {t}

CanSkip(S, t) ==
  /\ IsSeriesHead(S, t)
  /\ CanRollForward(S, {t})
  /\ CanReconcile(ChecklistGone(S, t), SkipSeeds(S, t))

Skipped(S, t) ==
  LET done == Reconcile(ChecklistGone(S, t), SkipSeeds(S, t))
  IN  [done EXCEPT !.task[t] = [@ EXCEPT !.state = "trashed", !.skipped = TRUE]]

SkipOccurrence(t) ==
  /\ t \in Live(db)
  /\ CanSkip(db, t)
  /\ Write(Skipped(db, t))

\* Trashed occurrences are stopped too: restoring one must not resume the series.
StopRecurrence(t) ==
  LET series == {u \in Rows(db) : task[u].series = task[t].series}
      rows   == IF task[t].series = None THEN {t} ELSE series
  IN  /\ t \in Live(db)
      /\ \E u \in rows : task[u].repeat # 0
      /\ Write([db EXCEPT !.task = [u \in TaskId |->
                  IF u \in rows THEN [task[u] EXCEPT !.repeat = 0] ELSE task[u]]])

-----------------------------------------------------------------------------
(* Dependencies *)

AddDependency(t, b) ==
  /\ {t, b} \subseteq Live(db)
  /\ t # b
  /\ t \notin EffectivelyDone(db)
  /\ <<t, b>> \notin dep
  /\ ~WaitsOn(db, b, t)
  /\ Write([db EXCEPT !.dep = @ \cup {<<t, b>>}])

RemoveDependency(e) ==
  /\ e \in dep
  /\ Commit([db EXCEPT !.dep = @ \ {e}], {e[1]})
=============================================================================
