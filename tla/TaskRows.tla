------------------------------ MODULE TaskRows ------------------------------
(***************************************************************************)
(* The rows every task service reads and writes: backend/app/db/models.py   *)
(* (Task, TaskDependency, Project), the live/trashed filters of             *)
(* services/common.py, and the read-side of services/tasks.py: the stored   *)
(* and the live "waits on" graphs and the effective status derived from     *)
(* them.                                                                    *)
(*                                                                          *)
(* A store is one value, so that a service function is an operator from     *)
(* the store it reads to the store its transaction commits.  Every write    *)
(* transaction starts with BEGIN IMMEDIATE and either commits as a whole or *)
(* rolls back, so nothing ever sees the store between two of its writes.    *)
(*                                                                          *)
(* Titles, priorities, estimates and timestamps are left out: a deleted_at, *)
(* skipped_at or superseded_at is the fact that it is set.  Dates are the   *)
(* numbers 1..MaxDate with MaxDate in the role of date.max, 0 is "none".    *)
(***************************************************************************)
EXTENDS Integers, FiniteSets

CONSTANTS
  MaxTasks,     \* bound: the largest row id a run may allocate
  MaxProjects,  \* bound: the largest project id a run may allocate
  MaxSeries,    \* bound: how many recurrence ids a run may mint
  MaxDate,      \* date.max; small, so that series run off the calendar
  MaxEvery,     \* bound: the longest repeat interval, in dates
  MaxDepth      \* MAX_SUBTASK_DEPTH

ASSUME RowBounds ==
  /\ MaxTasks \in Nat \ {0} /\ MaxProjects \in Nat \ {0}
  /\ MaxSeries \in Nat /\ MaxDate \in Nat /\ MaxEvery \in Nat
  /\ MaxDepth \in Nat \ {0}

TaskId == 1..MaxTasks
ProjectId == 1..MaxProjects
Series == 1..MaxSeries
Date == 1..MaxDate
None == 0
General == 1

WorkflowStatus == {"open", "in_progress", "done"}

\* state folds two columns: there is no such row, or deleted_at is unset or set.
Lifecycle == {"none", "live", "trashed"}

Row ==
  [state      : Lifecycle,
   status     : WorkflowStatus,
   project    : ProjectId,
   parent     : TaskId \cup {None},
   due        : Date \cup {None},
   repeat     : 0..MaxEvery,
   series     : Series \cup {None},
   dwt        : TaskId \cup {None},     \* deleted_with_task_id
   dwp        : ProjectId \cup {None},  \* deleted_with_project_id
   skipped    : BOOLEAN,
   superseded : BOOLEAN]

NoRow ==
  [state |-> "none", status |-> "open", project |-> General, parent |-> None,
   due |-> None, repeat |-> 0, series |-> None, dwt |-> None, dwp |-> None,
   skipped |-> FALSE, superseded |-> FALSE]

\* dep holds the active dependency edges <<dependent, blocker>>; a removed edge
\* is a tombstone nothing reads again.
Store ==
  [task    : [TaskId -> Row],
   dep     : SUBSET (TaskId \X TaskId),
   project : [ProjectId -> Lifecycle]]

EmptyStore ==
  [task    |-> [t \in TaskId |-> NoRow],
   dep     |-> {},
   project |-> [p \in ProjectId |-> IF p = General THEN "live" ELSE "none"]]

-----------------------------------------------------------------------------
(* Row filters *)

Rows(S)    == {t \in TaskId : S.task[t].state # "none"}
Live(S)    == {t \in TaskId : S.task[t].state = "live"}
Trashed(S) == {t \in TaskId : S.task[t].state = "trashed"}

LiveProjects(S) == {p \in ProjectId : S.project[p] = "live"}

ListSubtasks(S, t) == {c \in Live(S) : S.task[c].parent = t}

ListDependents(S, t) == {d \in TaskId : <<d, t>> \in S.dep}

\* tasks.id is a plain rowid: the next row gets the largest id in the table plus
\* one, so purging the newest row hands its id to the next one inserted.
FreeIds(S) == {n \in TaskId : \A t \in Rows(S) : t < n}
NextId(S, n) == n \in FreeIds(S) /\ \A m \in FreeIds(S) : n <= m

-----------------------------------------------------------------------------
(* The wait graphs: a parent waits on each subtask, a dependent on its       *)
(* blocker.  Reach(E, A) is A and all that E leads to from it: the least set *)
(* that holds A and is closed under E.                                       *)

Closed(E, A) == \A e \in E : e[1] \in A => e[2] \in A

Reach(E, A) ==
  LET supersets == {B \in SUBSET TaskId : A \subseteq B /\ Closed(E, B)}
  IN  {t \in TaskId : \A B \in supersets : t \in B}

Acyclic(E) == \A e \in E : e[1] \notin Reach(E, {e[2]})

\* Stored edges run through the trash: a restore brings them back as they are.
StoredNesting(S) ==
  {<<S.task[c].parent, c>> : c \in {r \in Rows(S) : S.task[r].parent # None}}

StoredWaits(S) == StoredNesting(S) \cup S.dep

LiveEdges(S, E) == {e \in E : e[1] \in Live(S) /\ e[2] \in Live(S)}

\* Mutant of WaitsOn: forgets the edges that run through the trash.
WaitsOnLive(S, t, other) == other \in Reach(LiveEdges(S, StoredWaits(S)), {t})

WaitsOn(S, t, other) == other \in Reach(StoredWaits(S), {t})

LiveSubtree(S, t) == Reach(LiveEdges(S, StoredNesting(S)), {t})

\* 1 for an effective top-level task.
NestingLevel(S, t) == Cardinality({a \in Live(S) : t \in LiveSubtree(S, a)})

SubtreeHeight(S, t) ==
  LET below(d) == Cardinality({a \in LiveSubtree(S, t) \ {t} : d \in LiveSubtree(S, a)})
  IN  CHOOSE h \in 0..MaxTasks :
        /\ \E d \in LiveSubtree(S, t) : below(d) = h
        /\ \A d \in LiveSubtree(S, t) : below(d) <= h

-----------------------------------------------------------------------------
(* Effective status *)

RollupStatus(kids) ==
  IF kids \subseteq {"done"} THEN "done"
  ELSE IF kids \subseteq {"open"} THEN "open"
  ELSE "in_progress"

\* The subtasks decide; the parent's own status is only a floor while they are
\* all open.
EffectiveParentStatus(subtasks, own) ==
  IF subtasks # "open" THEN subtasks
  ELSE IF own = "open" THEN "open"
  ELSE "in_progress"

\* Mutant of CappedStatus: a done row stays done over an unfinished blocker.
UncappedStatus(status, blocked) == status

CappedStatus(status, blocked) ==
  IF blocked /\ status = "done" THEN "in_progress" ELSE status

\* The roll-up of every live task.  A dependency edge on a wait cycle always
\* blocks and a child link on a pure nesting cycle is skipped, so the recursion
\* is over an acyclic graph whatever the rows hold.
Rollups(S) ==
  LET nesting == LiveEdges(S, StoredNesting(S))
      waits   == LiveEdges(S, StoredWaits(S))
      nests   == [t \in TaskId |-> Reach(nesting, {t})]
      reaches == [t \in TaskId |-> Reach(waits, {t})]
      kids(t) == {c \in ListSubtasks(S, t) : t \notin nests[c]}
      roll[t \in TaskId] ==
        LET subtasks == RollupStatus({roll[c].status : c \in kids(t)})
            own      == IF kids(t) = {} THEN S.task[t].status
                        ELSE EffectiveParentStatus(subtasks, S.task[t].status)
            blocked  == \E b \in Live(S) :
                          /\ <<t, b>> \in S.dep
                          /\ t \in reaches[b] \/ roll[b].status # "done"
        IN  [status   |-> CappedStatus(own, blocked),
             subtasks |-> IF kids(t) = {} THEN "leaf" ELSE subtasks,
             blocked  |-> blocked]
  IN  [t \in Live(S) |-> roll[t]]

EffectivelyDone(S) == LET roll == Rollups(S)
                      IN  {t \in Live(S) : roll[t].status = "done"}
=============================================================================
