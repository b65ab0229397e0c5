----------------------------- MODULE AgentState -----------------------------
(***************************************************************************)
(* One conversation under the agent API, and all that its requests share:    *)
(* the stored thread, the process-local run lock (api/conversation_locks.py),*)
(* run registry (api/run_cancel.py) and confirmations (ai/confirmation.py),  *)
(* SQLite's one write lock (db/session.py), and the rows the agent's tools   *)
(* and everybody else write.  Other conversations, the web UI and the MCP    *)
(* process are the one writer Other.                                         *)
(*                                                                          *)
(* A request is one thread of the server; its program counter names what it  *)
(* does next.  A database transaction is one step when nothing in it waits;  *)
(* a route's session that is left open keeps the write lock as its holder.   *)
(***************************************************************************)
EXTENDS Naturals, Sequences

CONSTANTS
  MaxRequests, \* bound: how many requests are sent
  Posts,       \* what a post may carry: [key, delegate, token]
  Key,         \* idempotency keys
  Token,       \* confirmation tokens
  Target,      \* the rows a gated call may trash
  Faults,      \* what may go wrong: "busy", "crash", "toolCrash"
  MaxCalls,    \* max_tool_calls
  MaxTurns,    \* max_iterations
  MaxEdits,    \* bound: how often the rows are edited from outside
  None, Other

\* Requests are numbered as they arrive.
Request == 1..MaxRequests

ASSUME AgentBounds ==
  /\ MaxRequests \in Nat /\ MaxCalls \in Nat /\ MaxTurns \in Nat /\ MaxEdits \in Nat
  /\ Posts \subseteq [key : Key \cup {None}, delegate : BOOLEAN, token : Token \cup {None}]
  /\ None \notin Request \cup Key \cup Token \cup Target
  /\ Other \notin Request \cup {None}

VARIABLES
  live,       \* the conversation is not in the trash
  turns,      \* its stored turns
  runLock,    \* the request that holds the conversation's lock
  writeLock,  \* the session that holds SQLite's write lock: a request's own, or Other
  active,     \* the run registered for Stop
  stopped,    \* the runs whose cancel event is set
  pc,         \* what each request does next
  post,       \* what each request carries
  run,        \* each run's own variables
  pending,    \* the Pending object of each token
  byToken,    \* the tokens the process knows
  byThread,   \* the token the thread waits on
  row,        \* the target rows: live, and their updated_at
  ran         \* history: how many calls each token was accepted for

threadVars == <<live, turns>>
lockVars == <<runLock, writeLock>>
stopVars == <<active, stopped>>
confirmVars == <<pending, byToken, byThread>>
worldVars == <<row, ran>>
vars == <<threadVars, lockVars, stopVars, pc, post, run, confirmVars, worldVars>>

\* Waiting for the run lock; for SQLite's; for neither.
AwaitsWriteLock ==
  {"entering", "deleting", "confirming", "confirmed", "dispatching", "answering", "reading"}

InLoop == {"turn", "calling", "proposed", "dispatching", "stopping"}

\* From a stored user turn to its answer.
Unanswered == {"asked", "confirmed", "answering"} \cup InLoop

HoldsRunLock ==
  {"entering", "deleting", "redeeming", "checking", "confirming", "reading"} \cup Unanswered

Step == {"idle", "queued", "closing", "done"} \cup HoldsRunLock

\* A call of the planner: a gated one names the row it would trash.
Call == Target \cup {None}

Run ==
  [turn   : Nat,                   \* provider calls made
   calls  : Nat,                   \* calls dispatched
   call   : Call,                  \* the call proposed
   gate   : Token \cup {None},     \* the confirmation this message may answer
   armed  : Token \cup {None}]     \* the confirmation this run asked for

NoRun == [turn |-> 0, calls |-> 0, call |-> None, gate |-> None, armed |-> None]

\* asked is the place in the thread of the assistant turn that asked, 0 for none.
Pending ==
  [issued : BOOLEAN, call : Call, seen : Nat, used : BOOLEAN, expired : BOOLEAN, asked : Nat]

NoPending ==
  [issued |-> FALSE, call |-> None, seen |-> 0, used |-> FALSE, expired |-> FALSE, asked |-> 0]

NoPost == [key |-> None, delegate |-> FALSE, token |-> None]

TurnRecord ==
  [role : {"user", "assistant"}, by : Request, key : Key \cup {None}]

AgentInit ==
  /\ live = TRUE /\ turns = <<>>
  /\ runLock = None /\ writeLock = None
  /\ active = None /\ stopped = {}
  /\ pc = [r \in Request |-> "idle"]
  /\ post = [r \in Request |-> NoPost]
  /\ run = [r \in Request |-> NoRun]
  /\ pending = [t \in Token |-> NoPending] /\ byToken = {} /\ byThread = None
  /\ row = [x \in Target |-> [live |-> TRUE, at |-> 0]]
  /\ ran = [t \in Token |-> 0]

\* The next request to arrive.
Arrives(r) == pc[r] = "idle" /\ \A q \in Request : q < r => pc[q] # "idle"

Goto(r, step) == pc' = [pc EXCEPT ![r] = step]
Set(r, next) == run' = [run EXCEPT ![r] = next]

\* What a run's variables become.
Answering(r, t) == [run[r] EXCEPT !.gate = t]
Calling(r, call) == [run[r] EXCEPT !.call = call]
OneMoreTurn(r) == [run[r] EXCEPT !.turn = @ + 1]
OneMoreCall(r, t) == [run[r] EXCEPT !.calls = @ + 1, !.gate = t]

\* BEGIN IMMEDIATE; a transaction that commits in the same step leaves the lock free.
CanWrite == writeLock = None

\* _question's fingerprint of a gated call; a row that is not there has none.
Fingerprint(x) == IF row[x].live THEN {row[x].at} ELSE {}

\* The body of a tool call that writes: trash_task on a row, which a missing row
\* refuses, or any other, which may edit a row.
Edited(x) == [live |-> TRUE, at |-> row[x].at + 1]
Trashed(x) == [row[x] EXCEPT !.live = FALSE]

Edits(x) == row[x].at < MaxEdits /\ row' = [row EXCEPT ![x] = Edited(x)]
Trashes(x) == row' = [row EXCEPT ![x] = Trashed(x)]

CallBody(call) ==
  IF call \in Target
  THEN Trashes(call)
  ELSE \E x \in Target : row[x].live /\ Edits(x)

\* A token is good: the call it names goes ahead, whatever becomes of it.
Accepted(t) == ran' = [ran EXCEPT ![t] = @ + 1]
=============================================================================
