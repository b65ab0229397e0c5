# Verification of Project Command Center

Project Command Center is a single-user planner: a FastAPI backend over one SQLite
database, a React frontend, and an agent that edits the plan through the same
services a person does. This directory holds TLA+ models of its backend and of the
phone that writes to it, the TLC configurations that check them on small instances, and theorems that the TLAPS
prover checks for every value of the constants.

* [1 The system](#1-the-system) — its parts, their state, what is hard in each
* [2 The modules](#2-the-modules) — which module models which part, and how
* [3 The runs](#3-the-runs) — what TLC checks, the bounds, the findings
* [4 The proofs](#4-the-proofs) — what is proved, from what, and how
* [5 Limits](#5-limits) — what is only model-checked or not modelled, and why
* [6 The plan](#6-the-plan) — what comes next, in order

## 1 The system

All paths are under `src/backend/app` unless they start with `src/`.

### 1.1 Components

**Tasks** (`services/tasks.py`, `services/common.py`, `api/routes_tasks.py`). Rows of
table `tasks`: status, parent, project, due date, repeat interval, series, and the
trash columns. Operations: create, update (with the scopes *this* and *this and all
future*), mark done, reopen, soft-delete with its cascade. A task's *effective*
status is derived: a task with live subtasks is done when they are, and nothing is
done while a blocker is not, recursively through both relations. Hard: the derived
status crosses two graphs that requests move independently; the guards against
cycles and depth look at live rows while restores bring others back.
Correct when: no reference dangles, no wait cycle is stored, nothing reads done over
unfinished work.

**Recurrence** (`services/task_recurrence.py`). A series is the set of rows with one
`recurrence_series_id`. Completing an occurrence — directly, or because the last
thing it waited on completed — rolls it forward: a clone of the row, its checklist
and the links inside it, on the next date that is neither skipped nor occupied.
`reconcile` is called by every write that can complete something. Skip trashes an
occurrence with a marker that keeps its date from being used again; stop takes the
series apart. Hard: completions cascade through parents and dependents to other
series; the calendar ends; skipped dates and live occurrences interleave.
Correct when: one live occurrence per date, skipped dates stay skipped, a completed
series goes on.

**Dependencies** (`services/task_dependencies.py`). Edges *task waits on blocker*,
unique, acyclic together with the parent tree. Operations: add, remove.

**Task trash** (`services/task_trash.py`). Soft-deleted rows and four markers:
`deleted_with_task_id`, `deleted_with_project_id`, `skipped_at`, `superseded_at`.
Operations: restore alone, restore with the cascade (undelete), un-skip — which
rewinds the successor to the skipped date and supersedes the skipped rows —, purge,
Undo of a restore. Hard: a marker is written by one request and interpreted by
another, much later; every door out of the trash has to clear the right ones.

**Projects** (`services/projects.py`, `api/routes_projects.py`). Rows with name,
position, state. Operations: create, rename, reorder, close, soft-delete with its
tasks, restore with or without them, purge. Hard: trees, links and series cross
projects.

**Schema and sessions** (`db/models.py`, `db/session.py`, `services/integrity.py`).
Partial unique index `uq_tasks_active_occurrence`, self-referencing foreign keys with
`SET NULL`/cascade; readers on deferred snapshots, writers on `BEGIN IMMEDIATE`.
Hard: check-then-act guards are sound only because a write transaction holds the
lock before it reads.

**Bulk trash and retention** (`services/trash.py`, `api/routes_trash.py`,
`jobs/trash_retention.py`). Lists, counts, empties and expires the trash; each in one
write transaction. Hard: a selection's parts lie inside one another and reach rows
nobody selected; rows of one cascade were trashed at different times.
Correct when: what was counted is what goes, and nothing expires before the row it
would come back with.

**Undo of a restore** (`undo_task_restore` and `_undo_unskip` in `services/task_trash.py`,
`undo_project_restore` in `services/projects.py`). A restore answers with a receipt
that may be posted back at any later time; the activity log says whether it is still
good. Hard: what became of the rows in between. Correct when: undoing a restore
leaves a trash from which the same restore is possible.

**Focus session** (`services/focus_sessions.py`, `api/routes_focus.py`). One table
of the live clock and the finished blocks, of all days; start, pause, clear, finish,
remove. Hard: two devices write it, late and twice. Correct when: it is one clock and
at most one booking per block, whoever wrote them.

**Mobile focus outbox** (`src/frontend/src/features/focus/mobile/sessionSync.ts` and the
hooks around it). The phone changes its screen at once, queues the write, sends one
request at a time, retries what is not answered, and reads the server only behind an
empty outbox. The outbox is in memory: a reload forgets it. Hard: lost requests, lost
answers, reads that a local change has overtaken, a completion that may be undone.
Correct when: an idle screen shows what is served, and the two come together.

**Focus day plan** (`services/focus_plan.py`, `services/focus.py`). A table of pins,
commitments, their series and the skips and edits of single days; and, worked out on
every read, the packing of a day. Hard: entries are removed and come back after their
place was taken; blocks overlap, nest and leave the window.
Correct when: no accepted write breaks an index or reaches a day it does not name, and
the day loses no task and gives no time out twice.

**Conversations and agent** (`services/conversations.py`, `api/routes_agent.py`,
`api/conversation_locks.py`, `api/run_cancel.py`, `ai/loop.py`, `ai/confirmation.py`,
`ai/gather.py`). A thread of messages; one run at a time per thread; tool calls open
write sessions of their own; dangerous ones stop at a confirmation token. Hard: run
lock and database lock in one handler; delete, cancel and retry against a run that
is under way; crash between the user's message and the answer; single use of tokens.

**Gather and its vector cache** (`ai/gather.py`, `ai/embeddings.py`). Before a run, the
tasks its words are about are searched by meaning, in a cache of vectors that threads
fill in the background. Hard: the embeddings service comes, goes and changes its model
between a cache's filling, a snapshot of it and the query.
Correct when: vectors of two models are never compared, and the cache catches up.

**Readers** (`compute_rollups` and the lists of `services/tasks.py`,
`services/task_dependencies.py`, `services/dashboard.py`, `api/task_reads.py`). Each loads
its own part of the graph and derives from it. Hard: they must agree.

**Agent context and tracing**, **model and speech clients**, **tool registry and MCP
server**, **request guards** (rate limiter), **activity log**, **search**,
**backups** (`src/scripts`), **frontend hooks and pages**,
**schemas, configuration, migrations**: listed in PROJECT.json with their status.

### 1.2 How they interact

Every request that changes the plan is one SQLite transaction that begins with the
write lock and calls services directly: `tasks` calls `task_recurrence` (reconcile,
roll-forward, clone), `task_dependencies` (edges of clones) and `task_trash`;
`projects` calls `task_trash` for the tasks it takes along; `trash` calls the purge
of each. There are no callbacks and no messages between services: they share the rows.
The agent calls the same services through `tools/`, one session per tool call. The
frontend polls.

So the behaviour that matters most is in *long sequences of atomic requests* over
rows that remember earlier requests (markers, series, links). The core models below are
about those. The concurrency is confined to sessions, conversation runs, the gather's
threads and the phone. Conversations (2.5 to 2.8), the focus session (2.11) and the gather
(2.9) have modules of their own; SQLite's sessions are planned (section 6).

## 2 The modules

    TaskRows            rows, graphs, derived status (pure)
      TaskDb            the stored variables
      TaskRecurrence    clone, roll-forward, reconcile (pure)
        TaskService     requests on tasks, links and series
        TaskTrash       restore, undelete, un-skip, purge
        ProjectService  requests on projects
          TrashBulk     selections, emptying, expiry, counts
          TaskStore     the composition and its properties
            TaskReads   what the readers derive
              MCTaskStore  the instances TLC runs
            TaskUndo    TaskStore with TrashBulk and the Undo of restores
              TaskUndoLate   ... of a project restored alone
                MCTaskUndo   the instances TLC runs
    TaskStore_proofs, TaskSteps_proofs, TaskReads_proofs, TaskUndo_proofs    theorems

    ThreadLog           what a conversation promises (abstract)
    AgentState          the state requests share; one request's program counter
      AgentConfirmation tokens: arm, take off the thread, redeem, allow
        AgentLoop       one run of the planner, as far as locks and tokens see it
          AgentThread   the routes, other writers, crashes, and the properties
            MCAgentThread  the posts TLC sends
    AgentThread_proofs  theorems
    AgentRun            the planner's loop and the confirmed calls, run after run
    AgentGather         the gather, its cache and the threads that fill it
      MCAgentRun        an instance of both
    AgentRun_proofs     theorems about both

    FocusDay            what a focus session promises (abstract)
    FocusSessions       the table and its routes
      FocusPhone        a phone, its outbox and the network; other devices
        FocusLate       ... a network that delivers what was given up on
        MCFocusPhone    the instance TLC runs
    FocusSessions_proofs   theorems

    FocusEntries        the stored day plan and its routes
      FocusPacker       the packed day (pure)
        MCFocusPlan     the instance TLC runs
    FocusPlan_proofs       theorems about both

The pure modules take the store as an argument, a record `[task, dep, project]`;
request modules are actions `db' = F(db)` over the three variables `task`, `dep`,
`project`. That split lets one request make several calls in the order the code makes
them (trash, then reconcile with the state the trash left), and lets the proofs treat
each call as a function of the store.

### 2.1 TaskRows

`TaskId == 1..MaxTasks` are rowids, handed out as SQLite does: one more than the
largest present, so a purge of the last row gives its id to the next. A row has
`state` (`none`, `live`, `trashed`), `project`, `parent`, `status`, `due` (a date `1..MaxDate` or `None`),
`repeat` (days, 0 for no repeat), `series`, and the four trash markers `dwt`, `dwp`,
`skipped`, `superseded`. Dates stay small because only their order, equality and the
end of the calendar matter; `MaxDate` is the code's `date.max`, so rolling past it is
the code's `OverflowError` path.

`Rollups(S)` is the roll-up of every live task as `_RollupIndex` derives it: subtasks
decide, blockers cap, an edge on a wait cycle always blocks and a child link on a
nesting cycle is skipped. `EffectivelyDone(S)` is the set that reads as done. The two
graphs are sets of pairs; `Reach(E, A)` is the least set that holds `A` and is closed
under `E`, defined as the intersection of all such sets: no RECURSIVE operator, so it
can be proved about.

### 2.2 TaskRecurrence

`RollForward(S, H)` is `create_next_occurrence` for the heads `H`: each lands on its next
date that is occupied already (nothing is inserted) or held by no skip, and the head,
its live checklist and the links inside the checklist are copied (`CopyRow`,
`CopiedEdges`) under the next rowids in the order of insertion (`TakesId`).
`Reconcile(S, seeds)` is `reconcile`: climb from the seeds to parents — stopping at a
series head, as the code does — and from done rows to what waits on them, and roll
forward the done heads it meets. The code inserts while it walks. A successor is open
and top-level and nothing waits on it, so inserting one changes no other row's effective
status and no other head's date, and the outcome is that of the set of heads judged on
the store the walk starts from; that is how the model states it.

### 2.3 TaskService, TaskTrash, ProjectService

One action per request, each with the whole handler: validation, guards in the order
of the code's early returns, the write, the trailing reconcile. `UpdateTask` takes a
patch — a function from the edited fields to values — as the PATCH body is a set of
given fields; `future` is the scope parameter. Requests the code refuses with an
error leave the store unchanged and are simply disabled.

### 2.4 TaskStore

`Next` is the disjunction of the seventeen requests; `Calls` picks the ones a
run sends and `MaxPosted` bounds the ids that requests (rather than clones) create. Each
property a run checks, here and in the other modules, has a mutant: a plausible bug in a
mapped definition under which TLC refutes it.

### 2.5 AgentState, AgentConfirmation, AgentLoop, AgentThread

One conversation under the agent API. A request is a server thread; `pc[r]` names what
it does next, and the step between two values of `pc` is the code between two points
where it can wait, be interrupted or be seen: the acquire of the run lock, the first
statement of a write session, each commit, each provider call, each tool call.

| `pc` | the request |
|---|---|
| `queued` | past the reader's 404 check, waits in `conversation_run_lock` (or gives up: 409) |
| `entering` | holds the run lock, waits for SQLite's write lock with its first statement |
| `redeeming`, `checking`, `confirming`, `confirmed` | the `Confirm-Token` path: `redeem`, its fingerprint check, `_run_confirmed` |
| `asked` | the user turn is committed |
| `turn`, `calling`, `proposed`, `dispatching`, `stopping` | inside `AgentLoop._run`, with the run registered for Stop |
| `answering`, `reading` | stores the assistant turn; reads the expired rows back for the response |
| `deleting` | `delete_conversation`, inside `conversation_idle_lock` |
| `closing` | out of the run lock, with a session still open until the request is torn down |

State: the stored thread (`live`, `turns`), the process-local tables (`runLock`, `active`
and `stopped`, `byToken` and `byThread` with the `pending` objects they lead to), SQLite's
`writeLock`, and the target rows of gated calls. `BEGIN IMMEDIATE` is the guard `CanWrite`
of the step that makes the first statement; a transaction that begins and commits with
nothing to wait for in between is one step, and one that is left open, as by a refusal
that returns from inside the session, keeps `writeLock` until `Close`. Everybody else —
the web UI, the MCP process, other conversations — is the writer `Other`. `ran` is a
history variable that counts how often a token let a call through.

Faults are actions: `BusyTimeout` (SQLite refuses a transaction after its busy timeout),
`CallCrashes` and `CallConfirmedCrashes` (an unexpected exception in a tool), `Crash`
(restart: threads, locks, registry and tokens gone, committed turns not), `Expire`. What
the model provider returns is arbitrary, so corrections and the stall rule appear here
only as runs that may end after any provider call; 2.7 has them.

### 2.6 ThreadLog

What a conversation promises, without locks, requests or tokens: a sequence of
exchanges, opened by a user turn with a new key in a live thread, closed by its answer
or abandoned, one at a time; the thread is trashed only between them. `AgentThread`
maps `open` to *some request has stored its user turn and neither its answer nor its
failure*, and `ThreadKeepsItsLog` says that the protocol implements it.

### 2.7 AgentRun

The loop of `ai/loop.py`, every way out of it included, for one run after another on a conversation that is alone
on it: what `AgentThread` abstracts to *a run may end here*. `run.pc` goes `turn` (may the provider be
asked?), `calling`, `batch` (the calls of a turn, in order), `running` (one call), `narrating`,
`ended`. The guards before each turn and each call are the code's, in its order: budget, Stop,
deadline, cap, gate. A call is a tool and the row it is about; `Effects` is what the service
layer may make of it (an edit may have nothing to change, and is answered all the same), and
`Record` what the run keeps. `CallCrashes` leaves open whether the call was carried out before it raised.

The gate holds back a delegate's `trash` calls: `ConfirmFirst` arms a confirmation, kept in `pending`, `StartCall`
lets the identical call of a yes through (`Confirmed`) or one about a row that is not there, and
`GateCrashes` is the gate itself raising, which it may, since it runs outside the guard around a tool
call, on arguments that nobody has validated, and reads the rows. The run's backstop then ends it with an
empty transcript and no records. `Redeem`, `ConfirmedReturns` and `ConfirmedCrashes` are the confirmed call
of the token path (`dispatch_confirmed`), and `Lapse` the end of a confirmation that expires or is spent on a changed row.
`landed` and `untold` are history variables: the calls that were carried out and answered, and what the
records cannot tell of, a crashed call or the whole run.

`Corrected` is the correction budget,
`seen` and `progressed` the stall rule, `SkipRemaining` the answers a cut-short turn still owes,
`Narration` the fallbacks of a reply. A run opens with the question the stored history
leaves open (`FromHistory`, `StillOpen`) and ends in `Store`. One ask row stands for its list of
candidates.

### 2.8 How the two agent models fit

`AgentThread` has several requests and one abstract run; `AgentRun` one concrete run and no
requests. Every step of `AgentRun` between `Start` and `Store` is one the abstract run has:
it calls the provider, calls a tool, or ends, for a reason `AgentThread` does not tell apart; `GateCrashes`
is one of those ends, and the confirmed calls are steps of both. What `AgentRun` has of the tokens is
one `pending` confirmation, since it is between runs that `AgentThread` lets them race.

### 2.9 AgentGather

Runs that gather at one time, the thread that holds the warming lock and those that wait
for it, the embeddings service, and other writers of the tasks. A vector is the *make* of
the service that made it, a name and a length, because name and length are all the code can
compare. `GatherSnapshots` takes the name and the vectors of one moment; the steps after
it work on that snapshot while warms replace the cache. `Warmed` is what a warm leaves.
`Restart` reads the saved file back.

### 2.10 TaskReads, TrashBulk, TaskUndo

`TaskReads` translates the readers' own queries: `Loaded` is what `_load_status_graph` walks
from the rows asked for, `ComputeRollups` rolls up that part and nothing else, and the lists,
blocker lists, downstream counts and the overview each start from their own rows. The
properties say that all of them agree on every row of every reachable store.

`TrashBulk` purges in the code's order — task by task, then project by project — each purge
seeing what the one before left. There is no clock: which rows are past the cutoff is a
set the environment picks.

`TaskUndo` adds one receipt to the store. A run follows one receipt, any one, of any restore;
of the activity log the code consults it keeps whether that receipt is still good: `Overtaken`
says which later steps the code refuses it after, `Aged` what a purge does to it. A history field, `same`, says
whether the row an un-skip retired is still the one its receipt names: a purge gives its id free
(`Reusable`), and the code does not look. The Undo's own guards on the rows are the guards of the actions.

### 2.11 FocusDay, FocusSessions, FocusPhone, FocusLate

`FocusSessions` is the table (`rows`) with the routes as actions, beside the life of the tasks
it names and the server's time. `FocusDay` is the same without a table: a clock or none, and
a booking or none for each block; `KeepsTheDay` says that the table implements it, so no write
ever touches a clock or booking it does not name, but that setting a clock ends another.

`FocusPhone` is the page: what it shows (`day`, `clock`, `log`, `undo`), the tap whose task route has not
answered yet (`doing`), the outbox, the one request on the `wire`, the reads queued behind the outbox (`loads`). The steps of a write are
`SendHead`, `ServeWrite`, `WriteAnswered`, of a read `SendRead`, `ReadAnswered`; `NoAnswer` loses
the request or its answer, which the phone cannot tell apart. `fresh` on a request is the version
number that a local change bumps. `Elsewhere` is any other device, and the task routes.
`synced` is a history variable: which of the two states the phone has read with nobody else
writing since; `ScreenIsServed` speaks of those. `acts` bounds what people do.

Completing, deferring and reopening a block, and the undo of the first two, are two steps each, as the handlers
of `MobileFocus.tsx` await the task's own route: the tap (`MarkDone`, `Defer`, `Reopen`, `Undo`) keeps the
day, the minutes and the clock of the moment, one tap at a time, and the answer (`DoneTaken`,
`DeferTaken`, `ReopenTaken`, `UndoneTaken`, `UndeferredTaken`, or `TaskRefuses`) changes the screen and
queues the writes. In between the page may turn, a read may paint, a clock may be started, the page may be reloaded;
the answer then writes for the tap's day and over the clock that is there. What an answer costs the page until
its next read is in `synced` too (`HeldFor`) and in 3.2.
`FocusLate` adds a network that delivers a request after the phone has given up on it.

### 2.12 FocusEntries, FocusPacker

`FocusEntries` is one table with five kinds of row, told apart by the columns that are set, as
in the code: pins, one-off commitments, series, skips and one-day edits. `OccursOn` is the
cadence arithmetic over an abstract calendar given by constants. `FocusPacker` computes a
day from that state: `Commitments` and timed pins are fixed, `FreeGaps` are the stretches between them,
floating pins (`Float`) come first, then ranked tasks (`Rank`), each into the first gap that is
long enough, with subtasks standing in for a parent that overflows. Time is in slots. The code
sweeps the busy stretches once and merges them as it goes; `Resumes` says instead where a free
stretch can begin. The loops of `_pack` are one recursive function, `InTurn`.

## 3 The runs

| run | checks | instance | states |
|---|---|---|---|
| tree | `NoDanglingReference`, `WaitsAcyclic`, `DoneMeansAllDone`, `ReadsAgree`, `BlockersSurface` | 3 tasks, 1 project beside the inbox, no dates | 30,303 |
| series | `OneOccurrencePerDate`, `TrashMarkersTruthful`, `SkippedDateNotRevived`, `UnskippedDateIsLive` | 3 tasks, all posted, 3 dates | 107,156 |
| chain | `CompletedSeriesGoOn`, `ClonesKeepToThemselves` | 4 tasks, 3 posted, 2 series, 2 dates | 94,577 |
| projects | `LiveTaskInLiveProject`, `PurgeCountsExact`, `CascadeWaitsForItsRoot`, `UndoneProjectRedoes` | 3 tasks, 2 posted, 2 projects, 2 dates, one receipt followed | 79,480 |
| undo | `UndoneRestoreRedoes`, `UndoneUnskipRedoes` | 4 tasks, 2 posted, 2 dates, one receipt followed | 120,002 |
| agent | `AgentTypeOK`, `WriterNeverWaits`, `StopHitsRunInFlight`, `TokenSpentOnce`, `ThreadKeepsItsLog`, `RunLockLetGo` | 3 requests, 1 key, 1 token, 1 row, 2 calls a run, 1 turn, 1 edit | 716,756 |
| focus | `OneRowPerClaim`, `ScreenIsServed`, `KeepsTheDay`, `PhoneConverges` | 1 task, 2 days, 3 acts, times 0..1 | 784,148 |
| focus_plan | `TableAccepts`, `ReorderTradesSlots`, `MonthlyNeverDrifts`, `NothingLost`, `NoDoubleBooking`, `RankIsHonoured`, `WritesReachTheirDay` | 5 tasks, 8 days, 3 rows, 2 later writes, 3 plans | 48,476 |
| agent_run | `EveryCallAnsweredOnce`, `RecordIsTrue`, `OneModelCompared`, `QuestionIsOpen`, `RunEnds`, `CacheCatchesUp` | 3 runs of 2 turns and 2 calls, 2 rows; beside it 2 gatherers, 2 keys, 3 makes, 2 events | 983,672 |
| focus_late | **refuted** `ScreenIsServed` | 1 day, 2 acts | — |
| late_undo | **refuted** `TrashedForOneReason` | 3 tasks, 2 projects | — |
| undo_reuse | **refuted** `ReceiptNamesItsRow` | 3 tasks, 1 posted, 3 dates, one receipt followed | — |

`CHECK_DEADLOCK FALSE` is set because a run legitimately comes to a state in which no
request is enabled: ids, acts, writes and events are bounded, and a store whose ids are used
up by live rows may refuse everything that remains in `Calls`; a conversation whose requests
have all been answered, or a phone whose user is done, is at rest.

Why the bounds are enough to be interesting:

* *tree*: three rows and all shapes of tree and links over them, with reuse of purged
  ids; a wait cycle through a parent edge and a link needs two rows, one hidden in
  the trash needs three. Only here does a constraint cut the exploration: a second
  project comes and goes around a single row at most (`ProjectOfOne`).
* *series*: three rows and three dates put an occurrence, its successor and a
  skipped one side by side, with the end of the calendar in reach of all.
* *chain*: two series, with a subtask or a link between them, and room for both
  clones. A checklist with a link inside it and its copy need six rows, so
  `ClonesKeepToThemselves` is exercised on the links a clone must *not* take over; the shape
  of those it does take over is proved (`CopiedEdgesType` in TaskStore_proofs).
* *projects*: one project that comes and goes besides the inbox, which always is there,
  with a parent and its child in different projects; the receipt of a restore with
  tasks is followed through purges of selections, emptying and expiry. `Expired` makes
  all of the trash old or all but one row, which is where a cascade is split.
* *undo_reuse*: three rows and three dates are enough for a retired row to be purged and its id to come back.
* *undo*: a head with a checklist item, which is skipped, un-skipped, completed, trashed and
  restored on two dates, and room for the successor of both; the receipt of any task restore
  or un-skip is followed.
* *agent*: three requests are the least in which one holds the conversation, one is queued
  behind it and a third deletes, retries or redeems; each sends a delegate's message
  with a key, one without, one with a token, or one of the app's own chat. One token, one row and
  two calls a run let a batch go on after a call, a token be armed, raced for by
  redeeming it and by re-issuing its call, expire, and be stale after the one edit.
* *focus*: one task on two days gives two blocks that take the clock from one another; three
  acts are a start, a completion and its undo, or one of them with another device, a turn of the page or a reload
  in between, each with its task route late or refusing and its write lost, answered or not, any number of times. With
  one task the block that is tapped is the current one; the theorems have any number. The longest clock
  is the longest time that passes, so nothing is refused for length alone (but see 3.2).
* *focus_plan*: five tasks, three of them a checklist's, of which one is done and two can stand in
  for it; one task is free, or blocked and put off till day 4. Three entries are a series, its exception
  and a pin, or three blocks that overlap; two later writes remove and bring back, or edit
  and stop. Eight days make months of three, two and three days and weeks of two, so that
  a day of the month a month does not have, and a fortnightly series, both occur. Pins, skips
  and edits are of the day on which all the commitments meet. It is planned in a window that
  opens with the earliest of them and in one that opens in the middle; a third plan is of a day
  before the 4th, on which the task that is blocked on day 5 is put off.
* *agent_run*: three messages let a question be asked, survive or be closed by a run, and be taken up
  by a third, or a call be held back, confirmed by its token or by the identical call, and be answered for;
  two turns of two calls reach every budget. Beside it two runs gather over two
  texts; the three makes differ in name or in length from one another, so that both tests
  of staleness matter; two events are a change of the model and one of the texts, or a change
  and a restart. `SideBySide` explores each of the two while the other is where it starts.

**Fairness.** *agent* assumes `FairSpec`: weak fairness of every request's own steps (the
server's threads are scheduled, a provider call returns or times out, as the client's
timeout makes it) and of `OtherCommits` (other writers finish their transactions).
Nothing is assumed of arrivals, Stops, expiry or restarts. Weak fairness is not enough for a
request to *obtain* the write lock against an endless row of other writers, and is not
needed for that: SQLite's busy timeout, in this run one of a waiting request's own steps,
fails the request, which lets go of the conversation.

*agent_run* assumes weak fairness of the loop's own steps, for the same reason, and of the
gather's and the warm's steps and of the end of the pause after a failed warm. `CacheCatchesUp`
is conditional: it speaks of executions in which every gatherer keeps gathering, because
nothing else ever starts a warm.

*focus* assumes weak fairness of the phone's timers (`SendHead`, `SendRead`: the retry timer and
the browser's `online` event) and of `Visible` (the user comes back to the tab), and strong
fairness of a write being served, of a write being answered and of a read of each kind being
answered: `NoAnswer` may lose any of them any number of times, but not for ever. That is the
assumption that the network works again one day.

### 3.1 What the runs found

Three violations, each with its own run and listed under `findings`:

* `focus_late`: the phone's start times out and is sent again and served; the first copy,
  which the timeout did not recall, is served later and starts the clock from zero. The header
  of `src/frontend/src/api/focusSessions.ts` (line 11) says that writes landing out of order
  settle on the same state. `FocusPhone`, in which a request given up on is never served later,
  keeps `ScreenIsServed`.
* `late_undo`: undoing a project's restore archives, with the project, a row that the user
  has restored and trashed again on its own since, which `projects.py:383` rules out.
* `undo_reuse`: the Undo of an un-skip finds the row to skip again by its id, and checks that a superseded row of
  the series stands there with the date (`task_trash.py:473`). The retired row is purged, the
  next occurrence gets its id, is moved to the same date, skipped and un-skipped, and so retired in its turn;
  the old receipt is accepted and skips that row, where the docstring (line 479) speaks of the very row the user
  restored. `UndoneUnskipRedoes` says what the Undo does while the retired row has not been purged.

`CompletedSeriesGoOn`, in run *chain*, exempts a head that waits on one that reconcile does
not climb from, a recurring subtask or the occurrence being skipped, and says nothing of an
occurrence that was done before a bulk edit made it repeat; all three are in the list below. A skip
may also put aside the very occurrence that carries a completed series on. What is true then is
that the series had it when reconcile looked (`BeforeSkip`).

### 3.2 Seen while modelling, without a run

In the tasks:

* Un-skipping retires a checklist item that was already in the trash before the skip, though
  nothing replaced it (`task_trash.py:311`).
* Restoring a subtask under a parent that has since moved deeper exceeds
  `MAX_SUBTASK_DEPTH`, which the comment calls the deepest the API can commit (`tasks.py:297`).
* Skipping a recurring subtask completes its recurring parent, and nobody rolls the
  parent forward (`task_recurrence.py:460`).
* An edit of *this and all future* can attach a repeat to a later occurrence that is
  already done; the reconcile is seeded with the edited row only, and nobody rolls
  the later one forward (`tasks.py:1498`).
* A skip that reuses an occurrence nested under the skipped one trashes that occurrence with the
  checklist, though the comment says that a skip always hands back a live one
  (`task_recurrence.py:442`).
* A done task reopened after its successor exists, then skipped, does not clone
  (an occurrence is there); its un-skip rewinds that successor and supersedes the
  skipped rows, though they were never cloned.
* The rewind of an un-skip moves a whole subtree to the skipped date without asking
  whether a nested series has a live occurrence there; only the unique index stops
  it. The model keeps the index as a guard of that action and of its Undo, and of no other.
* Undelete is no exact inverse of delete once an earlier plain restore left
  markers behind: it brings back the rows of both deletes.

In the Undo of restores:

* It never moves a row the restore rehomed back to its old project, though it is described
  as reversing exactly what one restore changed.
* `prior` in a receipt may name an id that has been purged and handed out again.
* A project's receipt stays valid for a new project that got the purged one's id. It can
  then only archive that project, if it is empty.
* An un-skip whose successor already is on the skipped date moves no row, and answers with a
  receipt that can never be used.
* Where the id that `undo_reuse` is about went to a row that another un-skip retired as part of a
  checklist, the row the old receipt skips stays marked as taken by its cascade, so
  `TrashMarkersTruthful`, a property of TaskStore, is not one of TaskUndo. It takes some nineteen requests.
* The rewind of an un-skip dates a checklist row that had no due date. If the user then gives that row
  a repeat, the Undo takes its date away again, and leaves a repeating row without one, which
  the PATCH handler refuses (`tasks.py:124`). It takes eight requests. This is why
  `RepeatHasSeriesAndDate` is a theorem of TaskStore and not of TaskUndo.

In the focus session:

* A completion, a reopening or an undo whose task route answers after the page has turned to another day leaves
  that page with an empty log until its next read: the handler's `log` is still the old day's
  (`useFocusSessionLog.ts:75`).
* A completion or a deferral of the current block that is answered after a clock was started, for this block again or for the
  next one, takes that clock off the screen, and clears on the server the tapped block's only
  (`MobileFocus.tsx:226`).
* Finishing a block that is timed but not the current one ends its clock on the server only;
  the screen keeps it until the next read.
* The undo of a completion clears or restores the clock of the block that was current,
  whatever has been started since.
* A clock of more than seven days is refused (`_MAX_CLOCK_MS`), and the screen then re-reads
  an older one.

In the conversations:

* A delegate's confirmation survives a later message of the in-app chat on the same thread,
  which `ai/confirmation.py` says voids it (`routes_agent.py:393`).
* The confirmation gate runs outside the guard around a tool call (`loop.py:990`) and takes `int()` of an id nobody has
  validated (`confirmation.py:234`, `257`). When it raises, the backstop (`loop.py:669`) stores a turn without
  records or transcript, whatever the run has written, so a question that write closed is open again
  for the next run, which `clarification.py:23` rules out. `RecordIsTrue` and `QuestionIsOpen` say what is left:
  such a record is empty, and a question is judged by what is on record.
* A tool call that raises may have been carried out, since a result is shaped after its session has
  committed; the record has it as crashed, and it closes no question.
* A tool that raises in a confirmed call leaves the user turn without an answer, which
  the route's docstring rules out (`routes_agent.py:461`).
* An open question is closed by a candidate's `updated_at`. Completing a candidate through its
  subtasks does not touch that, and a run whose process died wrote without leaving a turn
  that would close it, unless it wrote a candidate.
* A gather on an old snapshot can empty a cache that a warm has just refilled, which costs
  one more warm. Below `MIN_VECTOR_CORPUS` the cache of an old model is never dropped (nor
  used).

## 4 The proofs

| theorem | property | says |
|---|---|---|
| `StoreStaysSound` (TaskStore_proofs) | — | The inductive invariant: every request, in every order and for every size of the store, leaves rows, edges and projects that satisfy Sound. The other theorems follow from it. |
| `TypeCorrect` (TaskStore_proofs) | — | Type correctness of the three tables. |
| `ReferencesResolve` (TaskStore_proofs) | `NoDanglingReference` | No purge leaves a parent, marker, edge or project reference to a row that is gone. |
| `LiveTasksStayFiled` (TaskStore_proofs) | `LiveTaskInLiveProject` | No live task, clones and restored rows included, is filed in a trashed or purged project. |
| `OneOccurrence` (TaskStore_proofs) | `OneOccurrencePerDate` | A series never has two live occurrences on one date, through every roll-forward, edit, skip, un-skip and restore. |
| `NothingLiveIsDestroyed` (TaskStore_proofs) | — | No step removes a live row. |
| `Invariant` (AgentThread_proofs) | — | The inductive invariant of a conversation under the agent API, for any number of requests, keys, tokens and rows; the agent theorems follow from it. |
| `TypesKept` (AgentThread_proofs) | `AgentTypeOK` | Type correctness of the conversation, its locks, runs and confirmations. |
| `LockOrder` (AgentThread_proofs) | `WriterNeverWaits` | Whoever holds SQLite's write lock waits for nothing, so run lock and write lock are never waited for in a circle. |
| `StopIsForThisRun` (AgentThread_proofs) | `StopHitsRunInFlight` | The registered run is the one that holds the run lock, and no run starts with its event set. |
| `AcceptedOnce` (AgentThread_proofs) | `TokenSpentOnce` | A confirmation lets one call through, across races of its token with the identical call, failures, retries, expiry and restarts. |
| `KeepsItsLog` (AgentThread_proofs) | `ThreadKeepsItsLog` | The detailed protocol implements ThreadLog: initial states map to initial states, every step to a step of the log or a stutter. |
| `TableSafe` (FocusSessions_proofs) | — | The focus session table is well typed, holds one row per claim and no row of a purged task, whatever requests come, for any days, tasks and limits. |
| `TableKeepsTheDay` (FocusSessions_proofs) | `KeepsTheDay` | The table implements the abstract day, a set of finished blocks and at most one clock: initial states map to initial states, every request to one step of the day or a stutter. |
| `PhoneRunsTheTable` (FocusSessions_proofs) | — | Whatever the phone's queue does, with reloads, lost requests and lost answers, and whatever a second device does, the server's table takes only steps of its own specification. |
| `PhoneSafe` (FocusSessions_proofs) | `OneRowPerClaim` | The composition of phone and server keeps its types, one row per claim, and the day. |
| `ScreenAgrees` (FocusSessions_proofs) | `ScreenIsServed` | What the page shows, finished blocks and clock, is what the table will hold once the outbox is through, for any number of writes, retries and losses, task routes that answer late or refuse, turns of the page, reloads and other devices, on any days. |
| `StoreStaysWired` (TaskSteps_proofs) | — | The inductive invariant under the dependency and skip theorems: the rows are sound and the stored wait graph has no loop, for any number of rows, projects, series and dates. |
| `NothingWaitsForItself` (TaskSteps_proofs) | `WaitsAcyclic` | No task waits for itself through subtasks and dependencies, the trash included, whatever is created, moved, linked, cloned, trashed or restored. |
| `RowsStayInOrder` (TaskSteps_proofs) | — | What the requests keep and an Undo need not: a row a cascade took is no skipped occurrence, a skipped one is not retired, and a row that repeats has a date. |
| `MarkersStayTruthful` (TaskSteps_proofs) | `TrashMarkersTruthful` | Every door into and out of the trash keeps the cascade, project, skip and supersede markers consistent with one another and with the project's own state. |
| `RepeatsRollForward` (TaskSteps_proofs) | — | A row that repeats always has the series and the date rolling it forward reads. |
| `SkipsAreHonoured` (TaskSteps_proofs) | `SkippedDateNotRevived` | No row a request inserts is an occurrence on a date of its series that the user skipped. |
| `UnskipBringsWork` (TaskSteps_proofs) | `UnskippedDateIsLive` | A date that stops being skipped has live work of the series on it in the same step. |
| `ClonesStayApart` (TaskSteps_proofs) | `ClonesKeepToThemselves` | A link that a request adds joins two rows that were there or two that were not: no clone waits on, or blocks, a row of an earlier occurrence. |
| `DoneIsAllDone` (TaskSteps_proofs) | `DoneMeansAllDone` | A task that reads as done has everything done under it and before it: every live subtask, down to the leaves, and every live blocker, through both relations and across projects. |
| `ReadersAgree` (TaskReads_proofs) | `ReadsAgree` | Every reader, from the part of the table it loads, derives for each task it lists the status that the whole table gives. |
| `BlockedWorkSurfaces` (TaskReads_proofs) | `BlockersSurface` | Every open task that is blocked stands behind a blocker that the dashboard names: the walk to the top of a chain of waits leaves none out. |
| `CompletedSeriesAreFollowed` (TaskReads_proofs) | `CompletedSeriesGoOn` | Every series head that a request completes, directly or through any depth of subtasks and blockers, has a live successor in the same commit, unless it waits on a recurring subtask or on the occurrence being skipped: each request tells reconcile enough. |
| `UndoStaysReady` (TaskUndo_proofs) | — | The inductive invariant with a receipt in hand: Undo and bulk purges keep the rows sound and the wait graph without loops, and a receipt the log still accepts is true to the rows it names. |
| `UndoKeepsTheStore` (TaskUndo_proofs) | `LiveTaskInLiveProject` | With the Undo of a restore and the bulk purges among the requests, references, filing, series dates, the wait graph and effective status stay as they have to be; one theorem for six invariants of the store. |
| `TrashCountsTrue` (TaskUndo_proofs) | `PurgeCountsExact` | The figures the trash page names, and the answer of a bulk purge, are what is destroyed, for every selection of tasks and projects, nested and overlapping ones included. |
| `RetentionSparesCascades` (TaskUndo_proofs) | `CascadeWaitsForItsRoot` | Retention destroys a row that a cascade took only with the cascade's root or something it is nested under, never on its own age alone. |
| `BulkPurgesSpareTheLive` (TaskUndo_proofs) | — | No selection, emptying, expiry or Undo destroys a live row. |
| `UndoneRestoresRedo` (TaskUndo_proofs) | `UndoneRestoreRedoes` | Undoing a task restore takes back exactly the rows it brought, and restoring once more would bring them back exactly as they were, whatever was requested in between. |
| `UndoneProjectsRedo` (TaskUndo_proofs) | `UndoneProjectRedoes` | Undoing a project restore takes into the trash exactly the tasks the restore brought out, with the project, and changes no other row. |
| `Invariant` (AgentRun_proofs) | — | The inductive invariant of the runs of a conversation: where a run stands fixes what its unfinished turn and the stored history may hold, for any batches, rows, budgets and window. |
| `AnsweredOnce` (AgentRun_proofs) | `EveryCallAnsweredOnce` | The history answers every call of the model once, after it and before the next turn, across Stops, deadlines, the cap, the gate and crashes. |
| `RecordTrue` (AgentRun_proofs) | `RecordIsTrue` | The calls a run's record counts as done are, one for one and in order, those the service layer carried out and answered; a call that may have landed without an answer is on it as crashed, and only a run whose gate raised has no record. |
| `OpensWhatIsOpen` (AgentRun_proofs) | `QuestionIsOpen` | A run opens with a question only while it is open as far as the stored turns can tell: it was put to the user, no stored record has a write since, and every candidate is as it was offered. |
| `WithinOneModel` (AgentRun_proofs) | `OneModelCompared` | Gathering compares no query vector with a row's vector of another embeddings model, whatever the cache, the warming threads and the service's model do meanwhile. |
| `Invariant` (FocusPlan_proofs) | — | The inductive invariant of the stored plan: its types, and that no row stands in it that the constraints of the table refuse, for any days, tasks, bodies and number of rows. |
| `TypesHold` (FocusPlan_proofs) | — | Type correctness of the stored plan. |
| `RowsAccepted` (FocusPlan_proofs) | `TableAccepts` | No sequence of pins, skips, edits, removals and restores asks the table for a row that its indexes and checks refuse. |
| `SlotsAreTraded` (FocusPlan_proofs) | `ReorderTradesSlots` | A reorder of a day's pins hands the slots of the named pins round among them and leaves every other pin where it was. |
| `MonthsAreKept` (FocusPlan_proofs) | `MonthlyNeverDrifts` | A monthly series falls on the day of the month it was given, in every month that has it and on the last day of one that does not. |
| `WritesKeepToTheirDays` (FocusPlan_proofs) | `WritesReachTheirDay` | A write changes what is shown of the days it is about and of no other: one day for an exception, none before an end, none that was edited or skipped by hand for an edit of a series. |
| `PlanLosesNothing` (FocusPlan_proofs) | `NothingLost` | Every open top-level task not put off past the day is scheduled, over or blocked, in one of these only, and every commitment that falls on the day is shown, for any tasks, pins, skips and window. |
| `PlanBooksOnce` (FocusPlan_proofs) | `NoDoubleBooking` | Two blocks of a day's plan overlap only where the user fixed both, and what the packer places lies in the window, save a floating pin that fits nowhere, for any pins, tasks and window. |
| `PlanHonoursRank` (FocusPlan_proofs) | `RankIsHonoured` | A task that the plan leaves out would have fitted into no time left free, and no lower-ranked task at least as long was put in before it, for any ranking and window. |

### 4.1 The task store

For every number of rows, projects, series and dates, every depth cap, every set of
request bodies and every mix of requests, from two assumptions:

* `RowBounds` (TaskRows): the bounds are natural numbers, and there is at least one id.
* `RequestShapes` (TaskService): request bodies have fields of the types the schemas
  allow.

**The inductive invariant.** None of the invariants is inductive alone. A live row
carries no marker only because every door out of the trash clears what the door in set,
and a row taken by a project can be let go only because that project is still in the
trash (`TrashMarkersTruthful`); a clone is filed in a live project because what it copies
was (`LiveTaskInLiveProject`); a purged project leaves no reference because its tasks
were all in the trash (`NoDanglingReference`); a copy is put into a slot of its series
because a repeating row, in the trash too, has a series. `Sound(T, D, Q)` is the conjunction
of what these need and *every* action keeps, Undo included, with the types and one live row
per slot. What requests keep and Undo does not (a skipped row is neither superseded nor held
by a task, a repeating row has a date) is `InOrder`, in `TaskSteps_proofs`; with `Sound` it
gives `TrashMarkersTruthful` and `RepeatHasSeriesAndDate`. `Sound` speaks of the three
columns rather than of a state so that it can be asserted of the stores *between* two calls
of one request — trashed, not yet reconciled — which are no state of the program.

**The argument.** `TaskStore_proofs` first establishes what requests rely on in the
pure operators: `Reach` contains its start, is closed and least; heads and their
checklists are live; a copy's id is free, its row fresh, its edges between copies; and what
`RollForward` and `Reconcile` do to each column. Then it shows
that a roll-forward keeps a store sound (`RolledForwardSound`, `ReconcileSound`), the
hard part being slots: two heads that land on one vacant slot insert once. Last, one
lemma per request (`CreateTaskKept`, ..., `PurgeProjectKept`), over lemmas for the
row rewrites they share (`StatusWriteSound`, `TrashingSound`, `RevivedSound`,
`PurgedSound`, ...). `Kept` says of a step that the store it commits is sound and that no
live row has left the table, so the same lemmas give the action property. `NextKept` and
`StepKept` collect them, `StoreStaysSound` adds the temporal step, and each
property that needs no more is read off `Sound`. The rewind of an un-skip picks the least date of a set, for which
`LeastNatural` uses the well-foundedness of the naturals.

**What a request does to the store it finds.** `TaskSteps_proofs` adds `WaitsAcyclic`,
the rows' order (`RowsStayInOrder`, and from it `TrashMarkersTruthful` and
`RepeatHasSeriesAndDate`) and three action properties, from the same assumptions. One
relation carries them all: `Follows(A, S)` says that `S`, a store some calls after `A`, has no new live row on a date that `A` skips,
remembers each skip of `A` or has work on its date, has no new edge between an old row and
a new one, and has every row in order if `A` had. `Prepared` joins it to `Wired`, references that resolve and a wait graph without
loops, and speaks again of stores between two calls of one request.

* A *rewrite* of rows and columns is `Prepared` when it moves nothing and drops edges at most
  (`RewritesPrepared`); a *roll-forward* carries `Prepared` on, whatever came before it
  (`RollForwardPrepared`). Most requests are one after the other.
* Only `CreateTask`, `UpdateTask` and `AddDependency` add an edge to the wait graph. Each
  asks `Reach` first, and `AddedEdgeAcyclic` says that this is the right question. `Reach`
  over every stored row is needed, since an edge of a trashed row comes back with a restore.
* A clone's edges are its original's: `Original` maps every row, and every copy to what it copies, into
  the old wait graph edge by edge, and a graph mapped into one without loops has none
  (`ImageAcyclic`). No induction along paths is needed, because `Reach` is defined as the least
  closed set, not by recursion.
* `NextStepped` has one lemma per request under it. The rewind of an un-skip
  (`CommitRewindStepped`) is the longest: the successor takes the freed date, and the rows
  retired with it are remembered.

**Effective status.** The roll-up is a recursive function of the wait graph, and induction over data
is out of the prover's reach; `DoneMeansAllDone` is proved without it. `RollOf` is the equation
of one row, which looks at the rows it waits on (`RollOfLocal`). A set of rows closed under
waiting that has a solution of the equation can be enlarged by the next row in line, one that
waits for no row outside the set (`LastInLine`, by counting what is reached from it;
`RollsFurther`); so the largest such set is everything (`AllRollUp`), and the function that
`Rollups` chooses solves the equation (`RollupsRoll`). This is where `WaitsAcyclic` is needed.

**The readers.** `TaskReads_proofs` compares readers of different loads. What a reader loads is closed
under the live waits and loses none of the edges inside, so the two solutions cannot
first differ anywhere: of the rows on which they do, the last in line would wait only on rows on
which they agree (`RollupsAlike`, `ComputedAsWhole`). Every clause of `ReadsAgree` is read off
that, and `BlockersSurface` needs once more a first row of a set: of the unfinished rows
that lead to a blocked one, the first is blocked by none (`FirstInLine`).

**Reconcile.** `CompletedSeriesGoOn` is about two states of a status that is defined by recursion, and about a
walk, `DueHeads`, that a request starts from a few rows only. `TaskReads_proofs` takes it apart.

* *What is done.* A row is done just when no open leaf is among the rows it waits on (`DoneRows`, again
  by the last in line). So a step completes a row only where it disturbs one that the row waits on: trashes
  or finishes it, or takes away an edge (`NewlyDone`).
* *What is told.* `Quiet(A, S, seeds)` says that outside the seeds of its reconcile a request disturbs nothing. Each
  request has one lemma for it (`StatusQuiet`, `QuietGone`, `QuietBack`, `EditedRows`, ...), which is where a
  forgotten neighbour of a trashed row would show.
* *Where the walk gets to.* From a seed the walk climbs to every done row that waits on it, unless a series
  head in between is a subtask (`ReconcileClimbs`). A head it reaches is followed after the
  roll-forward (`HeadFollowed`), also when several heads land on one date and one copy serves them all.
  No copy is done, and no old row waits on one (`CopiesNotDone`, `RowsStayAsDone`), so the roll-forward completes
  nothing further.
* *A skip* runs two roll-forwards with a trashing between them and puts the occurrence aside last.
  `Skipping` names the four stores it goes through; a completed head that waits on the skipped
  occurrence did so before the request, and any other is answered in the third store (`SkipAnswers`).

`NextGoesOn` collects the requests. The statement this started from was true of the run and false of a deeper
store; the case of `BeforeSkip` comes from the attempt to prove it.

**Undo and bulk purges.** `TaskUndo_proofs` proves the same of `UndoSpec`, where a receipt is in hand
and the trash is purged in bulk.

* *A closed form for the bulk purges.* A selection is purged row by row, each row with its trashed
  subtree as it stands by then. `InTurnPurged` shows that this is one purge of the rows `Swept`, the
  subtrees of the selected rows read beforehand: `PurgeSetAfter` says that what an earlier purge took
  splits no later subtree, and `PurgedOneMore` adds one row. The recursion is unfolded by showing that
  the closed form solves its equation. `SelectionPurged` does the same with the
  projects. `PurgeCountsExact` and `CascadeWaitsForItsRoot` are read off the closed form
  (`CountsAreExact`, `CascadeWaits`) for every store that is sound, and `SelectionKept` says that what is
  left is sound.
* *The receipt.* `ReceiptSound` joins the inductive invariant, `UndoReady`: a receipt that the log
  still accepts names rows that are live, and if it is of a skipped occurrence, no other row is marked as taken
  by its root (`TaskReceipt`). The log overtakes a receipt when one of its rows is
  written. So what could falsify it is a request that marks a row as taken by a row it
  leaves alone: `NextJoins` shows, with one `...Joins` lemma per request, that none does. `TaskReceiptSound`
  says that a restore's receipt is true to begin with, and `UndoOvertakes` that it is good once.
* *Undo.* One lemma for each says that it leaves a sound store without loops
  (`UndoTaskRestoreKept`, `UndoUnskipKept`, `UndoProjectRestoreKept`), whichever row the id
  in the receipt of an un-skip names by then, and `UndoRestoreInverts` and
  `UndoProjectInverts` that it is the inverse of its restore. The Undo of a
  project restore with tasks is a delete of the project that first looks at what it takes
  (`UndoProjectIsDelete`).
* *What is not a theorem.* `Sound` leaves out what the Undo of an un-skip does not keep: `InOrder`
  has the rest, and the requests of TaskStore keep it (`RowsStayInOrder`). Section 3.2 has the two ways it is broken.

### 4.2 The conversation

For every number of requests, keys, tokens and rows, every set of posts and every fault,
from one assumption, `AgentBounds` (AgentState): the bounds are natural numbers, posts
carry keys and tokens or `None`, and `None` and `Other` are nobody's names.

**The inductive invariant.** `IInv` has one part for each reason the properties hold:
`OneAtATime` (a request past the run lock holds it) carries the rest. From it, whoever
appends a turn is alone (`OpenExchange`: the open exchange's user turn is the last turn;
`Entered`: the thread that was found live and without the key is so still when the
confirmed turn is stored), the registered run is in the loop (`StopsOwnRun`), and only one
request can have a token in hand. `TokenLedger` says that a token not marked used has let
nothing through; `CheckedUnaccepted` and `GateUnspent` say so of the two ways a
request can hold one, redeemed or taken off the thread, which is why the two cannot both
succeed. `WriterNeverWaits` is inductive by itself: no step takes the write lock and
stays at a place where it waits.

**The argument.** One lemma per part (`OneAtATimeKept`, ..., `GateUnspentKept`) shows it
kept by each of the thirty-nine actions from the parts it leans on; lemmas about the
records (`RunFields`, `PendingFields`, ...) keep the updates opaque in them. `Invariant`
collects the parts. `NextLogs` shows each action to be a step of `ThreadLog` or a stutter,
over `ThreadAsked` (a user turn stored by the holder opens an exchange) and
`ThreadUntouched` (a step that leaves the thread alone abandons it or does nothing), and
`KeepsItsLog` adds the temporal step.

### 4.3 The focus session

For every set of days and tasks, every bound and every behaviour of the network, from
`SessionsAssumption` (FocusSessions: `None` is neither a number, a row nor a clock; the
limits are numbers) and `PhoneAssumption` (FocusPhone: its bounds are numbers).

**The table.** `TableInv` is the types, `OneRowPerClaim` and `RowsNameTasks`. It is inductive as
it stands, and it is what makes `GetClock` and `LiveBlock` functions of the table: with two
clocks the abstract clock would be any of them. `TableKeepsTheDay` then maps each route to a
step of `FocusDay` or a stutter, through `ClockOf` and `BookedOf`: lemmas say what each of the
four writes does to these two.

**The phone.** `PhoneStepsTheTable`: every step of the phone, the network and the other devices
is a step of the table or leaves it alone, so the phone inherits all of the table's properties,
`KeepsTheDay` included, as `PhoneRunsTheTable`. For that a request on the wire must be within what
the routes accept, which needs types of everything the request was sampled from: `PhoneOK`
(the screen, the outbox, the wire, the reads, and that a write on the wire is the head
of a non-empty outbox). `PhoneSafe` collects it.

**What the page shows.** `ScreenIsServed` speaks of what the table *will* hold, a recursive function over the
outbox, and is not inductive. `ScreenInv` says the same without it: of each block the last write that waits
about it says what the page shows, or the table does where none waits (`LogShown`); the last write of the
clock that waits carries the very record on screen, or the row agrees with it, and no booking that waits
ends it (`ClockShown`). The rest says why these survive a step. `WireTells`: a request on the wire is the
head of the outbox as it is now; no write waits of a kind that a fresh read is on its way for; and what
was accepted is in the table, until the answer takes it out of the outbox. The last holds only as
long as nobody else wrote, which is what `synced` records, with the two answers of a task route after which the
page shows less than the server holds. `RowsPast` and `ScreenPast`: no clock was
started in the future, so that two clocks that agree go on agreeing. One lemma for each group of steps
(`UserShows`, `ServeShows`, `AnswerShows`, `ReadShows`, `WorldShows`, `QuietShows`); a write that is sent again
is served a second time in front of the writes behind it, and is harmless because none of these parts asks
whether the head was served before. At the end `ThroughSays` counts through the outbox:
once the last write about a block is through, the table says of it what that write does. The proof uses
nowhere that the waiting writes will be accepted; `ScreenIsServed` asks it because the table comes to hold
`Through` only then.

### 4.4 One run of the agent

For every set of batches and rows, every budget, window and number of runs, from `RunBounds`
(AgentRun: batches are non-empty, budgets are numbers, and `None` is neither a row nor a reply).

**The inductive invariant.** `IInv` is about where a run stands. `Counted` says that calls made are
calls answered plus calls left, and that the record so far is true; `GoodRun` has the three kinds of run:
in the loop (`InLoop`: which places have calls left, that a run with a landed question is past its calls, that
an idle run is empty), ended with something its record cannot tell (`Untold`), and a confirmed call (`Confirming`). `OpenIsTold` ties the stored history to what really became of the
newest question in it; that is what makes a run that reads only the window of the history
that fits reopen the right one (`FitHistoryKeepsNewest`, `NewestAsk`, `LastPosition`). The record is true when there
is an order-preserving matching of the calls that landed with the records classified as done
(`Matches`); `NothingDoneAdded` and `DoneAdded` extend it, and `EffectTold` and `LandedTold` tie a call's
record to what came of it. What was *written* is not what the record counts: an edit with nothing to
change is done, and a crashed call may have written.

**The argument.** One lemma per step of the loop (`StartGood`, ..., `CallReturnsGood`,
`StoreKept`); `SkipRemainingSettles` covers the five ways a turn is cut short.
`AnsweredOnce` and `RecordTrue` are read off `IInv`, `OpensWhatIsOpen` off `IInv` and
the one step that opens a question.

### 4.5 The gather

`GInv` (the second half of AgentRun_proofs) types the state and says that every cache, file and snapshot in
anyone's hands is `Held`: its vectors were made under the name it carries. Name and
length, which the code compares, then fix the make, as `GatherBounds` makes a `Make` exactly those two.
`WarmedHeld` is the step that matters: what a warm leaves keeps old vectors only under their name.
The invariant says nothing of which snapshot is newest, and so holds with any number of
gathers and warms passing each other.

### 4.6 The day plan

For every set of days, tasks and bodies, every calendar and number of rows, from `EntriesAssumption`
(bodies have the schema's types, checklists nest once) and `CalendarAssumption` (days are
ordered by month and day of the month, and a month that has a day in `Days` has all its days: what
`MonthlyNeverDrifts` quantifies over would otherwise not exist).

**The table.** `EInv`, the types and `TableAccepts`, is inductive as it stands: each handler checks,
before it writes, what the index would refuse, and reads nothing stale in between. One
`...Keeps` lemma per route.

**The writes.** `RowWritten` and `ShownKept` say what one changed row can change of a day, and
`TouchedReaches` where it can; each route is an insert or a rewrite that `Touches` one row, except
the reorder, which shows the same on every day, and the purge of a task.

**The reorder.** A sorted sequence of a finite set is unique and has all of it (`InOrder`,
`SequenceOfAll`); `SlotsTraded` counts: the slots of the named pins, in order, and the named pins are as many.

**The calendar.** `DueDay` finds the day a month's occurrence falls on, the last one of a month
too short, from the calendar's assumption and the least element of a set of days.

**The packed day.** `EInv` also carries the three properties of the plan worked out from the table, which
are about one state. Each is proved from what is true after every placement.

* *Gaps.* `FreeGaps` is given by a formula, not by the sweep; `FreeTime` shows it right: the gaps are disjoint,
  inside the window, and hold exactly the time that nothing busy has. `GapTaken` says what is left when a block is
  put at the start of a gap: the same with that block among the busy.
* *What every placement keeps.* `Held` is the invariant of the packing: the gaps are free time (`GivenOnce`), every task is in one place
  (`EachOnce`), and no task that was put in had a higher-ranked task of at most its length passed over, nor is a gap left that such
  a task would fit (`Passed`). A gap that is left lies within one that was there when the task was tried, and so it need not be tried again.
  `PinnedTo` walks the floating pins, `RankedTo` the ranked tasks and, inside, the
  subtasks that stand in.
* *The walks.* `InTurn` picks a recursive function. `StepsTaken` shows that there is one, `CountUp` that
  what holds at first and is kept by each step holds at the end; both come from the least element of a set of numbers, since
  the library's induction rules are out of the prover's reach. Sums of minutes are had in the same way (`SumDefined`).

## 5 Limits

**Only model-checked**, with the reason:

* *Liveness*: `RunLockLetGo`, `PhoneConverges`, `RunEnds`, `CacheCatchesUp`. The prover has no
  rules for fairness and ENABLED.
* *Not proved*: `UndoneUnskipRedoes`. It speaks of a receipt whose retired row has not been purged;
  that nothing else gets at a retired row is checked in run *undo*, not proved for every store.

**Only proved.** `TypeOK`, `RepeatHasSeriesAndDate` and `LiveNeverDestroyed` of TaskStore,
`RowsNameTasks` and `PhoneTypeOK`: once proved they need no run.

**No fairness, no liveness in the task store.** Requests are made by people; the store
promises only safety.

**Abstractions of the conversation.** One conversation, one process (the deployment runs
one worker, as the locks' own comments require). A tool call trashes one target row or
edits one; the services behind it are the task store's and are not composed with it.
The fingerprint of a gated call is the row's version. The queue's wait may time out whenever
the lock is held. Retention purging an expired thread, titles and listing are left out.
`AgentRun` and `AgentThread` are not composed: 2.8 is an argument, not a theorem.

**Abstractions of the focus session.** One phone; others are `Elsewhere`, which is enough since
phones meet in the table only. Time passes between requests. Titles, the legacy local
storage and rendering are left out.

**Abstractions of the day plan.** The task service is a row that changes arbitrarily within
what `Lives` allows, two levels deep. Reasons, titles and capacity figures are left out.

**Abstractions of the Undo.** One receipt at a time; the log is what it refuses. Estimates
and project names, which the code also compares, do not exist in the model.

**Not modelled.** Estimates, priorities, deferral, actual minutes, titles and
notes of the task store's rows: no guard on rows reads them. Month arithmetic of repeats: an
interval is a number of dates. The repair of parent cycles that only a database from before
the guards can hold. Paging, lanes, dates and estimates in the readers. Prompts, wording,
traces, keyword scores and rank fusion. The components with status `not_modelled` in
PROJECT.json, with the reason there.

## 6 The plan

Written: the task store with its readers, bulk trash and Undo; the conversations, the
agent's loop and its gather; the focus session with the phone; the day plan. Next, in order
of what matters most to a user's data:

1. **WriteLock**: sessions with `BEGIN` and `BEGIN IMMEDIATE`, snapshots and
   `SQLITE_BUSY_SNAPSHOT`, shown to implement an abstract store of atomic
   requests. This discharges the one assumption the task store makes about its
   environment: that a request is one step.
2. Proofs: that `CompletedSeriesGoOn` holds of TaskUndo's requests too; and, of TaskUndo, what
   the Undo of an un-skip keeps once a receipt is bound to more than a row id.
3. **AgentRun within AgentThread**: the refinement that 2.8 argues for.
4. A version on the phone's writes, as a variant in which `FocusLate` keeps `ScreenIsServed`.
5. Retention of conversations: an expired thread purged under a run.
6. **Rate limiter**, **backups** (staging, rename, retention under crash), and the frontend hooks
   that race a poll with a write.
