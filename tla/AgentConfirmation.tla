-------------------------- MODULE AgentConfirmation --------------------------
(***************************************************************************)
(* ai/confirmation.py: the questions a delegate's destructive calls arm, and *)
(* the two ways to answer one.  A Pending is known to the process by its     *)
(* token, at most one per thread; a Gate keeps hold of the one its message   *)
(* may answer after the thread has let go of it.                             *)
(***************************************************************************)
EXTENDS AgentState

Fresh(t) == ~pending[t].expired

\* _sweep
Swept == {t \in byToken : Fresh(t)}
SweptThread == IF byThread \in Swept THEN byThread ELSE None

\* take_for_thread: the question comes off the thread and its token is spent; what
\* is left is the Pending a run may still answer by the identical call.
Taken == IF SweptThread # None /\ ~pending[SweptThread].used THEN SweptThread ELSE None

TakeForThread ==
  /\ byToken' = Swept \ {SweptThread}
  /\ byThread' = None
  /\ UNCHANGED pending

Spent(t) == [pending[t] EXCEPT !.used = TRUE]
Use(t) == pending' = [pending EXCEPT ![t] = Spent(t)]

Redeemable(t) == t \in byToken /\ ~pending[t].used /\ Fresh(t)

\* Mutant of Redeem: the token is left to the call to spend.
RedeemUnspent(t) ==
  /\ Redeemable(t)
  /\ byThread' = IF byThread = t THEN None ELSE byThread
  /\ UNCHANGED <<pending, byToken>>

\* redeem: the token is spent before the state it previewed is looked at again.
Redeem(t) ==
  /\ Redeemable(t)
  /\ Use(t)
  /\ byThread' = IF byThread = t THEN None ELSE byThread
  /\ UNCHANGED byToken

Unchanged(t) == pending[t].seen \in Fingerprint(pending[t].call)

\* Gate.allows: the identical call, still previewing what is there.
Allows(t, x) == t # None /\ pending[t].call = x /\ Fresh(t) /\ Unchanged(t)

Question(x) == [NoPending EXCEPT !.issued = TRUE, !.call = x, !.seen = row[x].at]

\* Gate.arm: a question on the row as it is; the thread's previous one is forgotten.
Arm(t, x) ==
  /\ ~pending[t].issued
  /\ row[x].live
  /\ pending' = [pending EXCEPT ![t] = Question(x)]
  /\ byToken' = (Swept \ {SweptThread}) \cup {t}
  /\ byThread' = t

\* The question is in the thread: a replay of the exchange still carries it.
Shown(t, place) == [pending[t] EXCEPT !.asked = place]

Asked(t, place) ==
  /\ pending' = IF t = None THEN pending ELSE [pending EXCEPT ![t] = Shown(t, place)]
  /\ UNCHANGED <<byToken, byThread>>

\* TOKEN_TTL_SECONDS have passed.
Lapsed(t) == [pending[t] EXCEPT !.expired = TRUE]

Expire(t) ==
  /\ pending[t].issued /\ Fresh(t)
  /\ pending' = [pending EXCEPT ![t] = Lapsed(t)]
  /\ UNCHANGED <<byToken, byThread, threadVars, lockVars, stopVars, pc, post, run, worldVars>>
=============================================================================
