----------------------------- MODULE AgentThread -----------------------------
(***************************************************************************)
(* api/routes_agent.py: one conversation's posts, retries, answers by token, *)
(* deletes, restores and Stops, over the run lock, SQLite's write lock and   *)
(* the loop, with crashes and refused transactions wherever they may strike. *)
(***************************************************************************)
EXTENDS AgentLoop

UserTurnOf(r) == [role |-> "user", by |-> r, key |-> post[r].key]
AssistantTurnOf(r) == [role |-> "assistant", by |-> r, key |-> None]

\* find_exchange: the thread has a user turn with this key.
Seen(key) == key # None /\ \E i \in DOMAIN turns : turns[i].key = key

\* A request's own variables go with it.
Ends(r) ==
  /\ Goto(r, "done")
  /\ post' = [post EXCEPT ![r] = NoPost]
  /\ Set(r, NoRun)

-----------------------------------------------------------------------------
(* post_message *)

\* Mutant of Post: the existence check is made on the write session.
PostHoldingWriteLock(r, p) ==
  /\ Arrives(r) /\ live /\ CanWrite
  /\ writeLock' = r
  /\ post' = [post EXCEPT ![r] = p]
  /\ Goto(r, "queued")
  /\ UNCHANGED <<threadVars, runLock, stopVars, run, confirmVars, worldVars>>

\* The reader's 404 check, then the wait for the conversation's lock.
Post(r, p) ==
  /\ Arrives(r) /\ live
  /\ post' = [post EXCEPT ![r] = p]
  /\ Goto(r, "queued")
  /\ UNCHANGED <<threadVars, lockVars, stopVars, run, confirmVars, worldVars>>

\* The budget ran out in the queue: 409.
GiveUp(r) ==
  /\ pc[r] = "queued" /\ runLock # None
  /\ Ends(r)
  /\ UNCHANGED <<threadVars, lockVars, stopVars, confirmVars, worldVars>>

TakeRunLock(r) ==
  /\ pc[r] = "queued" /\ runLock = None
  /\ runLock' = r
  /\ Goto(r, "entering")
  /\ UNCHANGED <<threadVars, writeLock, stopVars, post, run, confirmVars, worldVars>>

\* Mutant of LeaveOpen: the refusal returns past the release.
LeaveOpenLocked(r) ==
  /\ writeLock' = r
  /\ Goto(r, "closing")
  /\ UNCHANGED <<threadVars, runLock, stopVars, post, run, confirmVars, worldVars>>

\* The session's first statement took the write lock; a refusal or a replay leaves
\* it open, after the run lock, until the request is torn down.
LeaveOpen(r) ==
  /\ runLock' = None /\ writeLock' = r
  /\ Goto(r, "closing")
  /\ UNCHANGED <<threadVars, stopVars, post, run, confirmVars, worldVars>>

\* Deleted while it waited (404), or the key's exchange is there already: its
\* answer, a 409 if it has none, a 422 if it was asked in other words.
EnterRefused(r) ==
  /\ pc[r] = "entering" /\ CanWrite
  /\ ~live \/ Seen(post[r].key)
  /\ LeaveOpen(r)

\* A message with a token: commit, and let go of the write lock.
EnterConfirm(r) ==
  /\ pc[r] = "entering" /\ CanWrite
  /\ live /\ ~Seen(post[r].key) /\ post[r].token # None
  /\ Goto(r, "redeeming")
  /\ UNCHANGED <<threadVars, lockVars, stopVars, post, run, confirmVars, worldVars>>

\* A message: a delegate's settles the thread's question, the user turn is stored.
EnterRun(r) ==
  /\ pc[r] = "entering" /\ CanWrite
  /\ live /\ ~Seen(post[r].key) /\ post[r].token = None
  /\ IF post[r].delegate
     THEN TakeForThread /\ Set(r, Answering(r, Taken))
     ELSE UNCHANGED <<confirmVars, run>>
  /\ turns' = Append(turns, UserTurnOf(r))
  /\ Goto(r, "asked")
  /\ UNCHANGED <<live, lockVars, stopVars, post, worldVars>>

\* The request is over, with no transaction open.
Leave(r) ==
  /\ runLock' = None
  /\ Ends(r)
  /\ UNCHANGED <<threadVars, writeLock, stopVars, confirmVars, worldVars>>

RedeemRefused(r) == pc[r] = "redeeming" /\ ~Redeemable(post[r].token) /\ Leave(r)

RedeemToken(r) ==
  /\ pc[r] = "redeeming"
  /\ Redeem(post[r].token)
  /\ Goto(r, "checking")
  /\ UNCHANGED <<threadVars, lockVars, stopVars, post, run, worldVars>>

\* The token is spent by now, stale or not.
FindStale(r) == pc[r] = "checking" /\ ~Unchanged(post[r].token) /\ Leave(r)

FindUnchanged(r) ==
  /\ pc[r] = "checking" /\ Unchanged(post[r].token)
  /\ Accepted(post[r].token)
  /\ Set(r, Calling(r, pending[post[r].token].call))
  /\ Goto(r, "confirming")
  /\ UNCHANGED <<threadVars, lockVars, stopVars, post, confirmVars, row>>

\* _run_confirmed: store the user turn, make the call, store its record.
StoreConfirmed(r) ==
  /\ pc[r] = "confirming" /\ CanWrite
  /\ turns' = Append(turns, UserTurnOf(r))
  /\ Goto(r, "confirmed")
  /\ UNCHANGED <<live, lockVars, stopVars, post, run, confirmVars, worldVars>>

CallConfirmed(r) ==
  /\ pc[r] = "confirmed" /\ CanWrite
  /\ CallBody(run[r].call)
  /\ Goto(r, "answering")
  /\ Set(r, Outcome(r))
  /\ UNCHANGED <<threadVars, lockVars, stopVars, post, confirmVars, ran>>

\* Nothing catches what the call raises.
CallConfirmedCrashes(r) ==
  /\ pc[r] = "confirmed"
  /\ "toolCrash" \in Faults
  /\ Leave(r)

StoreAnswer(r) ==
  /\ pc[r] = "answering" /\ CanWrite
  /\ turns' = Append(turns, AssistantTurnOf(r))
  /\ Asked(run[r].armed, Len(turns) + 1)
  /\ Goto(r, "reading")
  /\ UNCHANGED <<live, lockVars, stopVars, post, run, worldVars>>

\* The rows expired with the commit; reading them for the response begins another
\* write transaction, which stays open until the request is torn down.
ReadBack(r) == pc[r] = "reading" /\ CanWrite /\ LeaveOpen(r)

Close(r) ==
  /\ pc[r] = "closing"
  /\ writeLock' = None
  /\ Ends(r)
  /\ UNCHANGED <<threadVars, runLock, stopVars, confirmVars, worldVars>>

\* busy_timeout: the transaction never began, and the request fails where it stands.
BusyTimeout(r) ==
  /\ "busy" \in Faults
  /\ pc[r] \in AwaitsWriteLock \ {"dispatching"} /\ ~CanWrite
  /\ Leave(r)

-----------------------------------------------------------------------------
(* The other routes *)

\* Mutant of Delete: the run lock is not asked for.
DeleteUnlocked(r) ==
  /\ Arrives(r)
  /\ Goto(r, "deleting")
  /\ UNCHANGED <<threadVars, lockVars, stopVars, post, run, confirmVars, worldVars>>

\* delete_conversation: the lock now or never, then the write session.
Delete(r) ==
  /\ Arrives(r) /\ runLock = None
  /\ runLock' = r
  /\ Goto(r, "deleting")
  /\ UNCHANGED <<threadVars, writeLock, stopVars, post, run, confirmVars, worldVars>>

SoftDelete(r) ==
  /\ pc[r] = "deleting" /\ CanWrite /\ live
  /\ live' = FALSE
  /\ runLock' = None
  /\ Goto(r, "done")
  /\ UNCHANGED <<turns, writeLock, stopVars, post, run, confirmVars, worldVars>>

DeleteMissing(r) == pc[r] = "deleting" /\ CanWrite /\ ~live /\ LeaveOpen(r)

\* What it reads back for its response is a writer like any other (OtherBegins).
RestoreConversation ==
  /\ ~live /\ CanWrite
  /\ live' = TRUE
  /\ UNCHANGED <<turns, lockVars, stopVars, pc, post, run, confirmVars, worldVars>>

\* cancel_run: the event of the run that is registered, if one is.
CancelRun ==
  /\ live /\ active # None
  /\ stopped' = stopped \cup {active}
  /\ UNCHANGED <<threadVars, lockVars, active, pc, post, run, confirmVars, worldVars>>

-----------------------------------------------------------------------------
(* Everybody else *)

OtherBegins ==
  /\ CanWrite /\ writeLock' = Other
  /\ UNCHANGED <<threadVars, runLock, stopVars, pc, post, run, confirmVars, worldVars>>

\* Edits, restores or trashes a row, or leaves the rows alone.
OtherCommits ==
  /\ writeLock = Other /\ writeLock' = None
  /\ \/ UNCHANGED row
     \/ \E x \in Target : Edits(x) \/ (row[x].live /\ Trashes(x))
  /\ UNCHANGED <<threadVars, runLock, stopVars, pc, post, run, confirmVars, ran>>

\* The server dies: threads, locks, registry and tokens are gone; SQLite rolls back.
Crash ==
  /\ "crash" \in Faults
  /\ pc' = [r \in Request |-> IF pc[r] = "idle" THEN "idle" ELSE "done"]
  /\ runLock' = None /\ writeLock' = None
  /\ active' = None /\ stopped' = {}
  /\ byToken' = {} /\ byThread' = None
  /\ post' = [r \in Request |-> NoPost] /\ run' = [r \in Request |-> NoRun]
  /\ UNCHANGED <<threadVars, pending, worldVars>>

-----------------------------------------------------------------------------

PostStep(r) ==
  \/ GiveUp(r)
  \/ TakeRunLock(r)
  \/ EnterRefused(r)
  \/ EnterConfirm(r)
  \/ EnterRun(r)
  \/ RedeemRefused(r)
  \/ RedeemToken(r)
  \/ FindStale(r)
  \/ FindUnchanged(r)
  \/ StoreConfirmed(r)
  \/ CallConfirmed(r)
  \/ CallConfirmedCrashes(r)
  \/ StoreAnswer(r)
  \/ ReadBack(r)
  \/ Close(r)
  \/ BusyTimeout(r)
  \/ SoftDelete(r)
  \/ DeleteMissing(r)

Next ==
  \/ \E r \in Request, p \in Posts : Post(r, p)
  \/ \E r \in Request : PostStep(r)
  \/ \E r \in Request : RunStep(r)
  \/ \E r \in Request : Delete(r)
  \/ RestoreConversation
  \/ CancelRun
  \/ OtherBegins
  \/ OtherCommits
  \/ \E t \in Token : Expire(t)
  \/ Crash

Spec == AgentInit /\ [][Next]_vars

\* Threads of the server are scheduled, a provider call returns or times out, and
\* other writers commit.
FairSpec ==
  /\ Spec
  /\ \A r \in Request : WF_vars(PostStep(r)) /\ WF_vars(RunStep(r))
  /\ WF_vars(OtherCommits)

-----------------------------------------------------------------------------
(* Properties *)

\* Every variable holds a value of its type.
AgentTypeOK ==
  /\ live \in BOOLEAN
  /\ turns \in Seq(TurnRecord)
  /\ runLock \in Request \cup {None}
  /\ writeLock \in Request \cup {None, Other}
  /\ active \in Request \cup {None} /\ stopped \in SUBSET Request
  /\ pc \in [Request -> Step]
  /\ post \in [Request -> Posts \cup {NoPost}]
  /\ run \in [Request -> Run]
  /\ pending \in [Token -> Pending]
  /\ byToken \in SUBSET Token /\ byThread \in Token \cup {None}
  /\ row \in [Target -> [live : BOOLEAN, at : Nat]]
  /\ ran \in [Token -> Nat]

\* The thread's promise (ThreadLog), with an exchange open while some request has
\* stored its user turn and neither its answer nor its failure.
Log == INSTANCE ThreadLog WITH NoKey <- None,
                              open <- \E r \in Request : pc[r] \in Unanswered

\* Through retries, deletes, Stops, crashes and timeouts the thread stays a sequence
\* of exchanges: one at a time, never in a trashed thread, answers next to their
\* questions, no key run twice.
ThreadKeepsItsLog == Log!LogSpec

\* Lock order: whoever holds SQLite's write lock waits for nothing, so that no
\* circle of requests, nor a request and its own tool call, waits for itself.
WriterNeverWaits ==
  writeLock \in Request => pc[writeLock] = "closing"

\* Stop reaches the run in flight: a registered run is one that holds the run lock,
\* and no run starts with its event set by a Stop that was meant for another.
StopHitsRunInFlight ==
  /\ active # None => runLock = active /\ pc[active] \in InLoop
  /\ \A r \in Request : pc[r] \in {"queued", "entering", "asked"} => r \notin stopped

\* A confirmation is accepted once, by its token or by the identical call: not again
\* after a failure, a retry or a restart, nor by a second request that raced for it.
TokenSpentOnce == \A t \in Token : ran[t] <= 1

\* The run lock is never kept: whoever holds it lets go, by an answer, a refusal, a
\* failure or a crash.
RunLockLetGo == runLock # None ~> runLock = None
=============================================================================
