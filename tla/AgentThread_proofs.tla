------------------------- MODULE AgentThread_proofs -------------------------
(***************************************************************************)
(* What holds of a conversation under the agent API for any number of        *)
(* requests, keys, tokens and rows: the types, the lock order, that Stop     *)
(* reaches the run in flight, that a confirmation is accepted once, and that *)
(* the thread implements ThreadLog.                                          *)
(*                                                                          *)
(* The inductive invariant IInv has a part for each reason; a lemma per part *)
(* shows it kept by every action, from the parts it leans on.                *)
(***************************************************************************)
EXTENDS AgentThread, TLAPS

-----------------------------------------------------------------------------
(* The parts of the invariant *)

\* A request past the run lock, and not yet closing its session, holds it.
OneAtATime == \A r \in Request : pc[r] \in HoldsRunLock => runLock = r

\* The registered run and the runs with a set event are in the loop.
StopsOwnRun ==
  /\ active # None => pc[active] \in InLoop
  /\ \A r \in stopped : pc[r] \in InLoop

\* While an exchange is open its user turn is the thread's last.
OpenExchange ==
  \A r \in Request : pc[r] \in Unanswered => turns # <<>> /\ turns[Len(turns)].by = r

\* What _enter checked holds until the confirmed exchange opens.
Entered ==
  \A r \in Request : pc[r] \in {"redeeming", "checking", "confirming"}
                        => live /\ ~Seen(post[r].key)

\* A request on the confirm path carries a token.
MeansToken == \A r \in Request : pc[r] \in {"redeeming", "checking"} => post[r].token \in Token

\* A token the process knows was issued.
KnownIssued == \A t \in byToken : pending[t].issued

\* used is the record of acceptance: an unused token was accepted for nothing.
TokenLedger ==
  \A t \in Token : /\ ran[t] <= 1
                   /\ ~pending[t].issued => ~pending[t].used
                   /\ ~pending[t].used => ran[t] = 0

\* A redeemed token is used, and not accepted yet.
CheckedUnaccepted ==
  \A r \in Request : pc[r] = "checking"
                        => ran[post[r].token] = 0 /\ pending[post[r].token].used

\* The token a delegate's message may answer with was taken off the thread unused.
GateUnspent ==
  \A r \in Request : run[r].gate # None
    => /\ pc[r] \in {"asked", "turn", "calling", "proposed", "dispatching"}
       /\ pending[run[r].gate].issued /\ ~pending[run[r].gate].used

IInv ==
  /\ AgentTypeOK
  /\ OneAtATime
  /\ StopsOwnRun
  /\ WriterNeverWaits
  /\ OpenExchange
  /\ Entered
  /\ MeansToken
  /\ KnownIssued
  /\ TokenLedger
  /\ CheckedUnaccepted
  /\ GateUnspent

-----------------------------------------------------------------------------
(* Lemmas about the records *)

\* Nobody's name is a request's or a token's, nor is the other writer's.
LEMMA NoneIsNoRequest ==
  None \notin Request /\ Other \notin Request /\ None \notin Token /\ Other # None
  BY AgentBounds

\* The variables of a request without a run are a run's, and answer no confirmation.
LEMMA NoRunTyped == NoRun \in Run /\ NoRun.gate = None
  BY DEF Run, NoRun, Call

\* Each update of a run's variables is a run's, and what it does to the gate.
LEMMA RunFields ==
  ASSUME AgentTypeOK, NEW r \in Request, NEW call \in Call, NEW t \in Token \cup {None}
  PROVE  /\ Answering(r, t) \in Run /\ Answering(r, t).gate = t
         /\ Calling(r, call) \in Run /\ Calling(r, call).gate = run[r].gate
         /\ OneMoreTurn(r) \in Run /\ OneMoreTurn(r).gate = run[r].gate
         /\ OneMoreCall(r, t) \in Run /\ OneMoreCall(r, t).gate = t
         /\ Asking(t) \in Run /\ Asking(t).gate = None
<1>1. run[r] \in Run
  BY DEF AgentTypeOK
<1>3. Answering(r, t) \in Run /\ Answering(r, t).gate = t
  BY <1>1 DEF Run, Answering
<1>4. Calling(r, call) \in Run /\ Calling(r, call).gate = run[r].gate
  BY <1>1 DEF Run, Calling
<1>5. OneMoreTurn(r) \in Run /\ OneMoreTurn(r).gate = run[r].gate
  <2>1. run[r].turn + 1 \in Nat
    BY <1>1 DEF Run
  <2> QED BY <1>1, <2>1 DEF Run, OneMoreTurn
<1>6. OneMoreCall(r, t) \in Run /\ OneMoreCall(r, t).gate = t
  <2>1. run[r].calls + 1 \in Nat
    BY <1>1 DEF Run
  <2> QED BY <1>1, <2>1 DEF Run, OneMoreCall
<1>7. Asking(t) \in Run /\ Asking(t).gate = None
  BY DEF Run, NoRun, Call, Asking
<1> QED BY <1>3, <1>4, <1>5, <1>6, <1>7

\* Each update of a Pending is a Pending, and what it does to issued and used.
LEMMA PendingFields ==
  ASSUME AgentTypeOK, NEW t \in Token
  PROVE  /\ Spent(t) \in Pending /\ Spent(t).used /\ Spent(t).issued = pending[t].issued
         /\ Lapsed(t) \in Pending /\ Lapsed(t).used = pending[t].used
         /\ Lapsed(t).issued = pending[t].issued
         /\ \A n \in Nat : /\ Shown(t, n) \in Pending /\ Shown(t, n).used = pending[t].used
                           /\ Shown(t, n).issued = pending[t].issued
         /\ \A x \in Target : Question(x) \in Pending /\ Question(x).issued /\ ~Question(x).used
  BY DEF AgentTypeOK, Pending, NoPending, Call, Spent, Lapsed, Shown, Question

\* An edited or trashed row is a row.
LEMMA RowFields ==
  ASSUME AgentTypeOK, NEW x \in Target
  PROVE  /\ Edited(x) \in [live : BOOLEAN, at : Nat]
         /\ Trashed(x) \in [live : BOOLEAN, at : Nat]
<1>1. row[x] \in [live : BOOLEAN, at : Nat]
  BY DEF AgentTypeOK
<1>2. Edited(x) \in [live : BOOLEAN, at : Nat]
  BY <1>1 DEF Edited
<1>3. Trashed(x) \in [live : BOOLEAN, at : Nat]
  BY <1>1 DEF Trashed
<1> QED BY <1>2, <1>3

\* What a post carries is a key and a token, or none.
LEMMA PostFields ==
  ASSUME NEW p \in Posts \cup {NoPost}
  PROVE  p.key \in Key \cup {None} /\ p.token \in Token \cup {None}
  BY AgentBounds DEF NoPost

-----------------------------------------------------------------------------
(* Each part is kept by every action *)

\* Types: every write of a variable is a value of its type; the token of a confirmed
\* call is one because MeansToken says so.
LEMMA AgentTypeOKKept ==
  ASSUME AgentTypeOK, MeansToken, Next
  PROVE  AgentTypeOK'
<1>1. ASSUME NEW r \in Request, NEW p \in Posts, Post(r, p) PROVE AgentTypeOK'
  BY <1>1, AgentBounds DEF Post, Arrives, Goto, threadVars, lockVars, stopVars, confirmVars,
       worldVars, AgentTypeOK, MeansToken, Step, NoPost, HoldsRunLock, Unanswered, InLoop
<1>2. ASSUME NEW r \in Request, GiveUp(r) PROVE AgentTypeOK'
  <2>1. run' \in [Request -> Run] /\ post' \in [Request -> Posts \cup {NoPost}]
    BY <1>2, NoRunTyped DEF GiveUp, Ends, Set, AgentTypeOK
  <2> QED BY <1>2, <2>1 DEF GiveUp, AgentTypeOK, Goto, Step, HoldsRunLock, Unanswered, InLoop,
       threadVars, lockVars, stopVars, confirmVars, worldVars, Ends
<1>3. ASSUME NEW r \in Request, TakeRunLock(r) PROVE AgentTypeOK'
  BY <1>3, AgentBounds DEF TakeRunLock, Goto, threadVars, stopVars, confirmVars, worldVars,
       AgentTypeOK, MeansToken, Step, NoPost, HoldsRunLock, Unanswered, InLoop
<1>4. ASSUME NEW r \in Request, EnterRefused(r) PROVE AgentTypeOK'
  BY <1>4, AgentBounds DEF EnterRefused, LeaveOpen, Goto, CanWrite, threadVars, stopVars,
       confirmVars, worldVars, AgentTypeOK, MeansToken, Step, NoPost, HoldsRunLock, Unanswered,
       InLoop
<1>5. ASSUME NEW r \in Request, EnterConfirm(r) PROVE AgentTypeOK'
  BY <1>5, AgentBounds DEF EnterConfirm, Goto, CanWrite, threadVars, lockVars, stopVars,
       confirmVars, worldVars, AgentTypeOK, MeansToken, Step, NoPost, HoldsRunLock, Unanswered,
       InLoop
<1>6. ASSUME NEW r \in Request, EnterRun(r) PROVE AgentTypeOK'
  <2>1. Taken \in Token \cup {None}
    BY DEF Taken, SweptThread, AgentTypeOK
  <2>2. Answering(r, Taken) \in Run
    BY <2>1, RunFields DEF Call
  <2>3. run' \in [Request -> Run]
    BY <1>6, <2>2 DEF EnterRun, Set, AgentTypeOK, threadVars
  <2>4. UserTurnOf(r) \in TurnRecord
    BY PostFields DEF UserTurnOf, TurnRecord, AgentTypeOK
  <2>5. turns' \in Seq(TurnRecord)
    BY <1>6, <2>4 DEF EnterRun, AgentTypeOK
  <2> QED BY <1>6, <2>1, <2>2, <2>3, <2>4, <2>5 DEF EnterRun, AgentTypeOK, Goto, Step,
       HoldsRunLock, Unanswered, InLoop, threadVars, lockVars, stopVars, confirmVars,
       worldVars, TakeForThread, Swept, SweptThread
<1>7. ASSUME NEW r \in Request, RedeemRefused(r) PROVE AgentTypeOK'
  <2>1. run' \in [Request -> Run] /\ post' \in [Request -> Posts \cup {NoPost}]
    BY <1>7, NoRunTyped DEF RedeemRefused, Leave, Ends, Set, AgentTypeOK
  <2> QED BY <1>7, <2>1 DEF RedeemRefused, AgentTypeOK, Goto, Step, HoldsRunLock, Unanswered,
       InLoop, threadVars, lockVars, stopVars, confirmVars, worldVars, Leave, Ends
<1>8. ASSUME NEW r \in Request, RedeemToken(r) PROVE AgentTypeOK'
  <2>1. post[r].token \in Token
    BY <1>8 DEF RedeemToken, MeansToken
  <2>2. pending' \in [Token -> Pending]
    BY <1>8, <2>1, PendingFields DEF RedeemToken, Redeem, Use, AgentTypeOK
  <2> QED BY <1>8, <2>1, <2>2 DEF RedeemToken, AgentTypeOK, Goto, Step, HoldsRunLock,
       Unanswered, InLoop, threadVars, lockVars, stopVars, confirmVars, worldVars, Redeem
<1>9. ASSUME NEW r \in Request, FindStale(r) PROVE AgentTypeOK'
  <2>1. run' \in [Request -> Run] /\ post' \in [Request -> Posts \cup {NoPost}]
    BY <1>9, NoRunTyped DEF FindStale, Leave, Ends, Set, AgentTypeOK
  <2> QED BY <1>9, <2>1 DEF FindStale, AgentTypeOK, Goto, Step, HoldsRunLock, Unanswered,
       InLoop, threadVars, lockVars, stopVars, confirmVars, worldVars, Leave, Ends
<1>10. ASSUME NEW r \in Request, FindUnchanged(r) PROVE AgentTypeOK'
  <2>1. post[r].token \in Token
    BY <1>10 DEF FindUnchanged, MeansToken
  <2>2. pending[post[r].token].call \in Call
    BY <2>1 DEF AgentTypeOK, Pending
  <2>3. Calling(r, pending[post[r].token].call) \in Run
    BY <2>2, RunFields
  <2>4. run' \in [Request -> Run]
    BY <1>10, <2>3 DEF FindUnchanged, Set, AgentTypeOK
  <2>5. ran' \in [Token -> Nat]
    BY <1>10, <2>1 DEF FindUnchanged, Accepted, AgentTypeOK
  <2> QED BY <1>10, <2>1, <2>2, <2>3, <2>4, <2>5 DEF FindUnchanged, AgentTypeOK, Goto, Step,
       HoldsRunLock, Unanswered, InLoop, threadVars, lockVars, stopVars, confirmVars, worldVars
<1>11. ASSUME NEW r \in Request, StoreConfirmed(r) PROVE AgentTypeOK'
  <2>1. UserTurnOf(r) \in TurnRecord
    BY PostFields DEF UserTurnOf, TurnRecord, AgentTypeOK
  <2>2. turns' \in Seq(TurnRecord)
    BY <1>11, <2>1 DEF StoreConfirmed, AgentTypeOK
  <2> QED BY <1>11, <2>1, <2>2 DEF StoreConfirmed, AgentTypeOK, Goto, Step, HoldsRunLock,
       Unanswered, InLoop, threadVars, lockVars, stopVars, confirmVars, worldVars
<1>12. ASSUME NEW r \in Request, CallConfirmed(r) PROVE AgentTypeOK'
  <2>1. run' \in [Request -> Run]
    <3>1. run[r].armed \in Token \cup {None}
      BY DEF AgentTypeOK, Run
    <3>2. Asking(run[r].armed) \in Run
      BY <3>1, RunFields DEF Call
    <3> QED BY <1>12, <3>2 DEF CallConfirmed, EndRun, Outcome, Set, AgentTypeOK
  <2>2. row' \in [Target -> [live : BOOLEAN, at : Nat]]
    BY <1>12, RowFields DEF CallConfirmed, CallBody, Edits, Trashes, AgentTypeOK, Call
  <2> QED BY <1>12, <2>1, <2>2 DEF CallConfirmed, AgentTypeOK, Goto, Step, HoldsRunLock,
       Unanswered, InLoop, threadVars, lockVars, stopVars, confirmVars, worldVars
<1>13. ASSUME NEW r \in Request, CallConfirmedCrashes(r) PROVE AgentTypeOK'
  <2>1. run' \in [Request -> Run] /\ post' \in [Request -> Posts \cup {NoPost}]
    BY <1>13, NoRunTyped DEF CallConfirmedCrashes, Leave, Ends, Set, AgentTypeOK
  <2> QED BY <1>13, <2>1 DEF CallConfirmedCrashes, AgentTypeOK, Goto, Step, HoldsRunLock,
       Unanswered, InLoop, threadVars, lockVars, stopVars, confirmVars, worldVars, Leave, Ends
<1>14. ASSUME NEW r \in Request, StoreAnswer(r) PROVE AgentTypeOK'
  <2>1. AssistantTurnOf(r) \in TurnRecord
    BY DEF AssistantTurnOf, TurnRecord
  <2>2. turns' \in Seq(TurnRecord)
    BY <1>14, <2>1 DEF StoreAnswer, AgentTypeOK
  <2>3. run[r].armed \in Token \cup {None} /\ Len(turns) + 1 \in Nat
    BY DEF AgentTypeOK, Run
  <2>4. pending' \in [Token -> Pending]
    BY <1>14, <2>3, PendingFields DEF StoreAnswer, Asked, AgentTypeOK
  <2> QED BY <1>14, <2>1, <2>2, <2>3, <2>4 DEF StoreAnswer, AgentTypeOK, Goto, Step,
       HoldsRunLock, Unanswered, InLoop, threadVars, lockVars, stopVars, confirmVars,
       worldVars, Asked
<1>15. ASSUME NEW r \in Request, ReadBack(r) PROVE AgentTypeOK'
  BY <1>15, AgentBounds DEF ReadBack, LeaveOpen, Goto, CanWrite, threadVars, stopVars,
       confirmVars, worldVars, AgentTypeOK, MeansToken, Step, NoPost, HoldsRunLock, Unanswered,
       InLoop
<1>16. ASSUME NEW r \in Request, Close(r) PROVE AgentTypeOK'
  <2>1. run' \in [Request -> Run] /\ post' \in [Request -> Posts \cup {NoPost}]
    BY <1>16, NoRunTyped DEF Close, Ends, Set, AgentTypeOK
  <2> QED BY <1>16, <2>1 DEF Close, AgentTypeOK, Goto, Step, HoldsRunLock, Unanswered, InLoop,
       threadVars, lockVars, stopVars, confirmVars, worldVars, Ends
<1>17. ASSUME NEW r \in Request, BusyTimeout(r) PROVE AgentTypeOK'
  <2>1. run' \in [Request -> Run] /\ post' \in [Request -> Posts \cup {NoPost}]
    BY <1>17, NoRunTyped DEF BusyTimeout, Leave, Ends, Set, AgentTypeOK
  <2> QED BY <1>17, <2>1 DEF BusyTimeout, AgentTypeOK, Goto, Step, HoldsRunLock, Unanswered,
       InLoop, threadVars, lockVars, stopVars, confirmVars, worldVars, Leave, Ends
<1>18. ASSUME NEW r \in Request, SoftDelete(r) PROVE AgentTypeOK'
  BY <1>18, AgentBounds DEF SoftDelete, Goto, CanWrite, stopVars, confirmVars, worldVars,
       AgentTypeOK, MeansToken, Step, NoPost, HoldsRunLock, Unanswered, InLoop
<1>19. ASSUME NEW r \in Request, DeleteMissing(r) PROVE AgentTypeOK'
  BY <1>19, AgentBounds DEF DeleteMissing, LeaveOpen, Goto, CanWrite, threadVars, stopVars,
       confirmVars, worldVars, AgentTypeOK, MeansToken, Step, NoPost, HoldsRunLock, Unanswered,
       InLoop
<1>20. ASSUME NEW r \in Request, Register(r) PROVE AgentTypeOK'
  BY <1>20, AgentBounds DEF Register, Goto, threadVars, lockVars, confirmVars, worldVars,
       AgentTypeOK, MeansToken, Step, NoPost, HoldsRunLock, Unanswered, InLoop
<1>21. ASSUME NEW r \in Request, StopBeforeTurn(r) PROVE AgentTypeOK'
  <2>1. run' \in [Request -> Run]
    <3>1. run[r].armed \in Token \cup {None}
      BY DEF AgentTypeOK, Run
    <3>2. Asking(run[r].armed) \in Run
      BY <3>1, RunFields DEF Call
    <3> QED BY <1>21, <3>2 DEF StopBeforeTurn, EndRun, Outcome, Set, AgentTypeOK
  <2> QED BY <1>21, <2>1 DEF StopBeforeTurn, AgentTypeOK, Goto, Step, HoldsRunLock, Unanswered,
       InLoop, threadVars, lockVars, stopVars, confirmVars, worldVars, EndRun
<1>22. ASSUME NEW r \in Request, CallProvider(r) PROVE AgentTypeOK'
  <2>1. run' \in [Request -> Run]
    BY <1>22, RunFields DEF CallProvider, Set, AgentTypeOK, Call
  <2> QED BY <1>22, <2>1 DEF CallProvider, AgentTypeOK, Goto, Step, HoldsRunLock, Unanswered,
       InLoop, threadVars, lockVars, stopVars, confirmVars, worldVars
<1>23. ASSUME NEW r \in Request, ProviderEndsRun(r) PROVE AgentTypeOK'
  <2>1. run' \in [Request -> Run]
    <3>1. run[r].armed \in Token \cup {None}
      BY DEF AgentTypeOK, Run
    <3>2. Asking(run[r].armed) \in Run
      BY <3>1, RunFields DEF Call
    <3> QED BY <1>23, <3>2 DEF ProviderEndsRun, EndRun, Outcome, Set, AgentTypeOK
  <2> QED BY <1>23, <2>1 DEF ProviderEndsRun, AgentTypeOK, Goto, Step, HoldsRunLock,
       Unanswered, InLoop, threadVars, lockVars, stopVars, confirmVars, worldVars, EndRun
<1>24. ASSUME NEW r \in Request, ProviderCorrected(r) PROVE AgentTypeOK'
  BY <1>24, AgentBounds DEF ProviderCorrected, Goto, threadVars, lockVars, stopVars,
       confirmVars, worldVars, AgentTypeOK, MeansToken, Step, NoPost, HoldsRunLock, Unanswered,
       InLoop
<1>25. ASSUME NEW r \in Request, NEW call \in Call, Propose(r, call) PROVE AgentTypeOK'
  <2>1. run' \in [Request -> Run]
    BY <1>25, RunFields DEF Propose, Set, AgentTypeOK
  <2> QED BY <1>25, <2>1 DEF Propose, AgentTypeOK, Goto, Step, HoldsRunLock, Unanswered,
       InLoop, threadVars, lockVars, stopVars, confirmVars, worldVars
<1>26. ASSUME NEW r \in Request, SkipRemaining(r) PROVE AgentTypeOK'
  <2>1. run' \in [Request -> Run]
    <3>1. run[r].armed \in Token \cup {None}
      BY DEF AgentTypeOK, Run
    <3>2. Asking(run[r].armed) \in Run
      BY <3>1, RunFields DEF Call
    <3> QED BY <1>26, <3>2 DEF SkipRemaining, EndRun, Outcome, Set, AgentTypeOK
  <2> QED BY <1>26, <2>1 DEF SkipRemaining, AgentTypeOK, Goto, Step, HoldsRunLock, Unanswered,
       InLoop, threadVars, lockVars, stopVars, confirmVars, worldVars, EndRun
<1>27. ASSUME NEW r \in Request, StartCall(r) PROVE AgentTypeOK'
  <2>1. run' \in [Request -> Run]
    <3>1. GateAfter(r) \in Token \cup {None}
      BY DEF GateAfter, AgentTypeOK, Run
    <3>2. OneMoreCall(r, GateAfter(r)) \in Run
      BY <3>1, RunFields DEF Call
    <3> QED BY <1>27, <3>2 DEF StartCall, Dispatched, Set, AgentTypeOK
  <2> QED BY <1>27, <2>1 DEF StartCall, AgentTypeOK, Goto, Step, HoldsRunLock, Unanswered,
       InLoop, threadVars, lockVars, stopVars, confirmVars, worldVars, Dispatched
<1>28. ASSUME NEW r \in Request, StartConfirmedCall(r) PROVE AgentTypeOK'
  <2>1. run' \in [Request -> Run]
    <3>1. GateAfter(r) \in Token \cup {None}
      BY DEF GateAfter, AgentTypeOK, Run
    <3>2. OneMoreCall(r, GateAfter(r)) \in Run
      BY <3>1, RunFields DEF Call
    <3> QED BY <1>28, <3>2 DEF StartConfirmedCall, Dispatched, Set, AgentTypeOK
  <2>2. run[r].gate \in Token
    BY <1>28 DEF StartConfirmedCall, Allows, AgentTypeOK, Run
  <2>3. pending' \in [Token -> Pending]
    BY <1>28, <2>2, PendingFields DEF StartConfirmedCall, Use, AgentTypeOK
  <2>4. ran' \in [Token -> Nat]
    BY <1>28, <2>2 DEF StartConfirmedCall, Accepted, AgentTypeOK
  <2> QED BY <1>28, <2>1, <2>2, <2>3, <2>4 DEF StartConfirmedCall, AgentTypeOK, Goto, Step,
       HoldsRunLock, Unanswered, InLoop, threadVars, lockVars, stopVars, confirmVars,
       worldVars, Dispatched
<1>29. ASSUME NEW r \in Request, NEW t \in Token, AskFirst(r, t) PROVE AgentTypeOK'
  <2>1. run' \in [Request -> Run]
    BY <1>29, RunFields DEF AskFirst, Set, AgentTypeOK, Call
  <2>2. run[r].call \in Target
    BY <1>29 DEF AskFirst, Gated
  <2>3. pending' \in [Token -> Pending]
    BY <1>29, <2>2, PendingFields DEF AskFirst, Arm, AgentTypeOK
  <2> QED BY <1>29, <2>1, <2>2, <2>3 DEF AskFirst, AgentTypeOK, Goto, Step, HoldsRunLock,
       Unanswered, InLoop, threadVars, lockVars, stopVars, confirmVars, worldVars, Arm, Swept,
       SweptThread
<1>30. ASSUME NEW r \in Request, CallReturns(r) PROVE AgentTypeOK'
  <2>1. run' \in [Request -> Run]
    <3>1. \A c \in Call : Calling(r, c) \in Run
      BY RunFields
    <3>2. None \in Call
      BY DEF Call
    <3>3. \E c \in Call : run' = [run EXCEPT ![r] = Calling(r, c)]
      BY <1>30, <3>2 DEF CallReturns, Set
    <3> QED BY <3>1, <3>3 DEF AgentTypeOK
  <2>2. row' \in [Target -> [live : BOOLEAN, at : Nat]]
    BY <1>30, RowFields DEF CallReturns, CallBody, Edits, Trashes, AgentTypeOK, Call
  <2> QED BY <1>30, <2>1, <2>2 DEF CallReturns, AgentTypeOK, Goto, Step, HoldsRunLock,
       Unanswered, InLoop, threadVars, lockVars, stopVars, confirmVars, worldVars
<1>31. ASSUME NEW r \in Request, CallCrashes(r) PROVE AgentTypeOK'
  <2>1. run' \in [Request -> Run]
    <3>1. run[r].armed \in Token \cup {None}
      BY DEF AgentTypeOK, Run
    <3>2. Asking(run[r].armed) \in Run
      BY <3>1, RunFields DEF Call
    <3> QED BY <1>31, <3>2 DEF CallCrashes, EndRun, Outcome, Set, AgentTypeOK
  <2> QED BY <1>31, <2>1 DEF CallCrashes, AgentTypeOK, Goto, Step, HoldsRunLock, Unanswered,
       InLoop, threadVars, lockVars, stopVars, confirmVars, worldVars, EndRun
<1>32. ASSUME NEW r \in Request, Unregister(r) PROVE AgentTypeOK'
  BY <1>32, AgentBounds DEF Unregister, Goto, threadVars, lockVars, confirmVars, worldVars,
       AgentTypeOK, MeansToken, Step, NoPost, HoldsRunLock, Unanswered, InLoop
<1>33. ASSUME NEW r \in Request, Delete(r) PROVE AgentTypeOK'
  BY <1>33, AgentBounds DEF Delete, Arrives, Goto, threadVars, stopVars, confirmVars,
       worldVars, AgentTypeOK, MeansToken, Step, NoPost, HoldsRunLock, Unanswered, InLoop
<1>34. ASSUME RestoreConversation PROVE AgentTypeOK'
  BY <1>34, AgentBounds DEF RestoreConversation, CanWrite, lockVars, stopVars, confirmVars,
       worldVars, AgentTypeOK, MeansToken, Step, NoPost, HoldsRunLock, Unanswered, InLoop
<1>35. ASSUME CancelRun PROVE AgentTypeOK'
  BY <1>35, AgentBounds DEF CancelRun, threadVars, lockVars, confirmVars, worldVars,
       AgentTypeOK, MeansToken, Step, NoPost, HoldsRunLock, Unanswered, InLoop
<1>36. ASSUME OtherBegins PROVE AgentTypeOK'
  BY <1>36, AgentBounds DEF OtherBegins, CanWrite, threadVars, stopVars, confirmVars,
       worldVars, AgentTypeOK, MeansToken, Step, NoPost, HoldsRunLock, Unanswered, InLoop
<1>37. ASSUME OtherCommits PROVE AgentTypeOK'
  <2>1. row' \in [Target -> [live : BOOLEAN, at : Nat]]
    BY <1>37, RowFields DEF OtherCommits, Edits, Trashes, AgentTypeOK
  <2> QED BY <1>37, <2>1 DEF OtherCommits, AgentTypeOK, Goto, Step, HoldsRunLock, Unanswered,
       InLoop, threadVars, lockVars, stopVars, confirmVars, worldVars
<1>38. ASSUME NEW t \in Token, Expire(t) PROVE AgentTypeOK'
  <2>1. pending' \in [Token -> Pending]
    BY <1>38, PendingFields DEF Expire, AgentTypeOK
  <2> QED BY <1>38, <2>1 DEF Expire, AgentTypeOK, Goto, Step, HoldsRunLock, Unanswered, InLoop,
       threadVars, lockVars, stopVars, confirmVars, worldVars
<1>39. ASSUME Crash PROVE AgentTypeOK'
  <2>1. run' \in [Request -> Run]
    BY <1>39, NoRunTyped DEF Crash, AgentTypeOK
  <2> QED BY <1>39, <2>1 DEF Crash, AgentTypeOK, Goto, Step, HoldsRunLock, Unanswered, InLoop,
       threadVars, lockVars, stopVars, confirmVars, worldVars
<1> QED BY <1>1, <1>2, <1>3, <1>4, <1>5, <1>6, <1>7, <1>8, <1>9, <1>10, <1>11, <1>12, <1>13,
     <1>14, <1>15, <1>16, <1>17, <1>18, <1>19, <1>20, <1>21, <1>22, <1>23, <1>24, <1>25, <1>26,
     <1>27, <1>28, <1>29, <1>30, <1>31, <1>32, <1>33, <1>34, <1>35, <1>36, <1>37, <1>38,
     <1>39 DEF Next, PostStep, RunStep

\* The run lock is taken before the program counter enters HoldsRunLock and released
\* by the step that leaves it.
LEMMA OneAtATimeKept ==
  ASSUME AgentTypeOK, OneAtATime, Next
  PROVE  OneAtATime'
<1>1. ASSUME NEW r \in Request, NEW p \in Posts, Post(r, p) PROVE OneAtATime'
  BY <1>1, NoneIsNoRequest DEF Post, Arrives, Goto, lockVars, AgentTypeOK, OneAtATime,
       HoldsRunLock, Unanswered, InLoop
<1>2. ASSUME NEW r \in Request, GiveUp(r) PROVE OneAtATime'
  BY <1>2, NoneIsNoRequest DEF GiveUp, Ends, Goto, lockVars, AgentTypeOK, OneAtATime,
       HoldsRunLock, Unanswered, InLoop
<1>3. ASSUME NEW r \in Request, TakeRunLock(r) PROVE OneAtATime'
  BY <1>3, NoneIsNoRequest DEF TakeRunLock, Goto, AgentTypeOK, OneAtATime, HoldsRunLock,
       Unanswered, InLoop
<1>4. ASSUME NEW r \in Request, EnterRefused(r) PROVE OneAtATime'
  BY <1>4, NoneIsNoRequest DEF EnterRefused, LeaveOpen, Goto, AgentTypeOK, OneAtATime,
       HoldsRunLock, Unanswered, InLoop
<1>5. ASSUME NEW r \in Request, EnterConfirm(r) PROVE OneAtATime'
  BY <1>5, NoneIsNoRequest DEF EnterConfirm, Goto, lockVars, AgentTypeOK, OneAtATime,
       HoldsRunLock, Unanswered, InLoop
<1>6. ASSUME NEW r \in Request, EnterRun(r) PROVE OneAtATime'
  BY <1>6, NoneIsNoRequest DEF EnterRun, Goto, lockVars, AgentTypeOK, OneAtATime, HoldsRunLock,
       Unanswered, InLoop
<1>7. ASSUME NEW r \in Request, RedeemRefused(r) PROVE OneAtATime'
  BY <1>7, NoneIsNoRequest DEF RedeemRefused, Leave, Ends, Goto, AgentTypeOK, OneAtATime,
       HoldsRunLock, Unanswered, InLoop
<1>8. ASSUME NEW r \in Request, RedeemToken(r) PROVE OneAtATime'
  BY <1>8, NoneIsNoRequest DEF RedeemToken, Goto, lockVars, AgentTypeOK, OneAtATime,
       HoldsRunLock, Unanswered, InLoop
<1>9. ASSUME NEW r \in Request, FindStale(r) PROVE OneAtATime'
  BY <1>9, NoneIsNoRequest DEF FindStale, Leave, Ends, Goto, AgentTypeOK, OneAtATime,
       HoldsRunLock, Unanswered, InLoop
<1>10. ASSUME NEW r \in Request, FindUnchanged(r) PROVE OneAtATime'
  BY <1>10, NoneIsNoRequest DEF FindUnchanged, Goto, lockVars, AgentTypeOK, OneAtATime,
       HoldsRunLock, Unanswered, InLoop
<1>11. ASSUME NEW r \in Request, StoreConfirmed(r) PROVE OneAtATime'
  BY <1>11, NoneIsNoRequest DEF StoreConfirmed, Goto, lockVars, AgentTypeOK, OneAtATime,
       HoldsRunLock, Unanswered, InLoop
<1>12. ASSUME NEW r \in Request, CallConfirmed(r) PROVE OneAtATime'
  BY <1>12, NoneIsNoRequest DEF CallConfirmed, Goto, lockVars, AgentTypeOK, OneAtATime,
       HoldsRunLock, Unanswered, InLoop
<1>13. ASSUME NEW r \in Request, CallConfirmedCrashes(r) PROVE OneAtATime'
  BY <1>13, NoneIsNoRequest DEF CallConfirmedCrashes, Leave, Ends, Goto, AgentTypeOK,
       OneAtATime, HoldsRunLock, Unanswered, InLoop
<1>14. ASSUME NEW r \in Request, StoreAnswer(r) PROVE OneAtATime'
  BY <1>14, NoneIsNoRequest DEF StoreAnswer, Goto, lockVars, AgentTypeOK, OneAtATime,
       HoldsRunLock, Unanswered, InLoop
<1>15. ASSUME NEW r \in Request, ReadBack(r) PROVE OneAtATime'
  BY <1>15, NoneIsNoRequest DEF ReadBack, LeaveOpen, Goto, AgentTypeOK, OneAtATime,
       HoldsRunLock, Unanswered, InLoop
<1>16. ASSUME NEW r \in Request, Close(r) PROVE OneAtATime'
  BY <1>16, NoneIsNoRequest DEF Close, Ends, Goto, AgentTypeOK, OneAtATime, HoldsRunLock,
       Unanswered, InLoop
<1>17. ASSUME NEW r \in Request, BusyTimeout(r) PROVE OneAtATime'
  BY <1>17, NoneIsNoRequest DEF BusyTimeout, Leave, Ends, Goto, AwaitsWriteLock, AgentTypeOK,
       OneAtATime, HoldsRunLock, Unanswered, InLoop
<1>18. ASSUME NEW r \in Request, SoftDelete(r) PROVE OneAtATime'
  BY <1>18, NoneIsNoRequest DEF SoftDelete, Goto, AgentTypeOK, OneAtATime, HoldsRunLock,
       Unanswered, InLoop
<1>19. ASSUME NEW r \in Request, DeleteMissing(r) PROVE OneAtATime'
  BY <1>19, NoneIsNoRequest DEF DeleteMissing, LeaveOpen, Goto, AgentTypeOK, OneAtATime,
       HoldsRunLock, Unanswered, InLoop
<1>20. ASSUME NEW r \in Request, Register(r) PROVE OneAtATime'
  BY <1>20, NoneIsNoRequest DEF Register, Goto, lockVars, AgentTypeOK, OneAtATime,
       HoldsRunLock, Unanswered, InLoop
<1>21. ASSUME NEW r \in Request, StopBeforeTurn(r) PROVE OneAtATime'
  BY <1>21, NoneIsNoRequest DEF StopBeforeTurn, EndRun, Goto, lockVars, AgentTypeOK,
       OneAtATime, HoldsRunLock, Unanswered, InLoop
<1>22. ASSUME NEW r \in Request, CallProvider(r) PROVE OneAtATime'
  BY <1>22, NoneIsNoRequest DEF CallProvider, Goto, lockVars, AgentTypeOK, OneAtATime,
       HoldsRunLock, Unanswered, InLoop
<1>23. ASSUME NEW r \in Request, ProviderEndsRun(r) PROVE OneAtATime'
  BY <1>23, NoneIsNoRequest DEF ProviderEndsRun, EndRun, Goto, lockVars, AgentTypeOK,
       OneAtATime, HoldsRunLock, Unanswered, InLoop
<1>24. ASSUME NEW r \in Request, ProviderCorrected(r) PROVE OneAtATime'
  BY <1>24, NoneIsNoRequest DEF ProviderCorrected, Goto, lockVars, AgentTypeOK, OneAtATime,
       HoldsRunLock, Unanswered, InLoop
<1>25. ASSUME NEW r \in Request, NEW call \in Call, Propose(r, call) PROVE OneAtATime'
  BY <1>25, NoneIsNoRequest DEF Propose, Goto, lockVars, AgentTypeOK, OneAtATime, HoldsRunLock,
       Unanswered, InLoop
<1>26. ASSUME NEW r \in Request, SkipRemaining(r) PROVE OneAtATime'
  BY <1>26, NoneIsNoRequest DEF SkipRemaining, EndRun, Goto, lockVars, AgentTypeOK, OneAtATime,
       HoldsRunLock, Unanswered, InLoop
<1>27. ASSUME NEW r \in Request, StartCall(r) PROVE OneAtATime'
  BY <1>27, NoneIsNoRequest DEF StartCall, CallStarts, Dispatched, Goto, lockVars, AgentTypeOK,
       OneAtATime, HoldsRunLock, Unanswered, InLoop
<1>28. ASSUME NEW r \in Request, StartConfirmedCall(r) PROVE OneAtATime'
  BY <1>28, NoneIsNoRequest DEF StartConfirmedCall, CallStarts, Dispatched, Goto, lockVars,
       AgentTypeOK, OneAtATime, HoldsRunLock, Unanswered, InLoop
<1>29. ASSUME NEW r \in Request, NEW t \in Token, AskFirst(r, t) PROVE OneAtATime'
  BY <1>29, NoneIsNoRequest DEF AskFirst, CallStarts, Goto, lockVars, AgentTypeOK, OneAtATime,
       HoldsRunLock, Unanswered, InLoop
<1>30. ASSUME NEW r \in Request, CallReturns(r) PROVE OneAtATime'
  BY <1>30, NoneIsNoRequest DEF CallReturns, Goto, lockVars, AgentTypeOK, OneAtATime,
       HoldsRunLock, Unanswered, InLoop
<1>31. ASSUME NEW r \in Request, CallCrashes(r) PROVE OneAtATime'
  BY <1>31, NoneIsNoRequest DEF CallCrashes, EndRun, Goto, lockVars, AgentTypeOK, OneAtATime,
       HoldsRunLock, Unanswered, InLoop
<1>32. ASSUME NEW r \in Request, Unregister(r) PROVE OneAtATime'
  BY <1>32, NoneIsNoRequest DEF Unregister, Goto, lockVars, AgentTypeOK, OneAtATime,
       HoldsRunLock, Unanswered, InLoop
<1>33. ASSUME NEW r \in Request, Delete(r) PROVE OneAtATime'
  BY <1>33, NoneIsNoRequest DEF Delete, Arrives, Goto, AgentTypeOK, OneAtATime, HoldsRunLock,
       Unanswered, InLoop
<1>34. ASSUME RestoreConversation PROVE OneAtATime'
  BY <1>34, NoneIsNoRequest DEF RestoreConversation, lockVars, AgentTypeOK, OneAtATime,
       HoldsRunLock, Unanswered, InLoop
<1>35. ASSUME CancelRun PROVE OneAtATime'
  BY <1>35, NoneIsNoRequest DEF CancelRun, lockVars, AgentTypeOK, OneAtATime, HoldsRunLock,
       Unanswered, InLoop
<1>36. ASSUME OtherBegins PROVE OneAtATime'
  BY <1>36, NoneIsNoRequest DEF OtherBegins, AgentTypeOK, OneAtATime, HoldsRunLock, Unanswered,
       InLoop
<1>37. ASSUME OtherCommits PROVE OneAtATime'
  BY <1>37, NoneIsNoRequest DEF OtherCommits, AgentTypeOK, OneAtATime, HoldsRunLock,
       Unanswered, InLoop
<1>38. ASSUME NEW t \in Token, Expire(t) PROVE OneAtATime'
  BY <1>38, NoneIsNoRequest DEF Expire, lockVars, AgentTypeOK, OneAtATime, HoldsRunLock,
       Unanswered, InLoop
<1>39. ASSUME Crash PROVE OneAtATime'
  BY <1>39, NoneIsNoRequest DEF Crash, AgentTypeOK, OneAtATime, HoldsRunLock, Unanswered, InLoop
<1> QED BY <1>1, <1>2, <1>3, <1>4, <1>5, <1>6, <1>7, <1>8, <1>9, <1>10, <1>11, <1>12, <1>13,
     <1>14, <1>15, <1>16, <1>17, <1>18, <1>19, <1>20, <1>21, <1>22, <1>23, <1>24, <1>25, <1>26,
     <1>27, <1>28, <1>29, <1>30, <1>31, <1>32, <1>33, <1>34, <1>35, <1>36, <1>37, <1>38,
     <1>39 DEF Next, PostStep, RunStep

\* A run is registered when it enters the loop and unregistered, its event gone, when
\* it leaves; nobody else may be in the loop meanwhile.
LEMMA StopsOwnRunKept ==
  ASSUME AgentTypeOK, OneAtATime, StopsOwnRun, Next
  PROVE  StopsOwnRun'
<1>1. ASSUME NEW r \in Request, NEW p \in Posts, Post(r, p) PROVE StopsOwnRun'
  BY <1>1, NoneIsNoRequest DEF Post, Arrives, Goto, lockVars, stopVars, AgentTypeOK,
       OneAtATime, StopsOwnRun, HoldsRunLock, Unanswered, InLoop
<1>2. ASSUME NEW r \in Request, GiveUp(r) PROVE StopsOwnRun'
  BY <1>2, NoneIsNoRequest DEF GiveUp, Ends, Goto, lockVars, stopVars, AgentTypeOK, OneAtATime,
       StopsOwnRun, HoldsRunLock, Unanswered, InLoop
<1>3. ASSUME NEW r \in Request, TakeRunLock(r) PROVE StopsOwnRun'
  BY <1>3, NoneIsNoRequest DEF TakeRunLock, Goto, stopVars, AgentTypeOK, OneAtATime,
       StopsOwnRun, HoldsRunLock, Unanswered, InLoop
<1>4. ASSUME NEW r \in Request, EnterRefused(r) PROVE StopsOwnRun'
  BY <1>4, NoneIsNoRequest DEF EnterRefused, LeaveOpen, Goto, stopVars, AgentTypeOK,
       OneAtATime, StopsOwnRun, HoldsRunLock, Unanswered, InLoop
<1>5. ASSUME NEW r \in Request, EnterConfirm(r) PROVE StopsOwnRun'
  BY <1>5, NoneIsNoRequest DEF EnterConfirm, Goto, lockVars, stopVars, AgentTypeOK, OneAtATime,
       StopsOwnRun, HoldsRunLock, Unanswered, InLoop
<1>6. ASSUME NEW r \in Request, EnterRun(r) PROVE StopsOwnRun'
  BY <1>6, NoneIsNoRequest DEF EnterRun, Goto, lockVars, stopVars, AgentTypeOK, OneAtATime,
       StopsOwnRun, HoldsRunLock, Unanswered, InLoop
<1>7. ASSUME NEW r \in Request, RedeemRefused(r) PROVE StopsOwnRun'
  BY <1>7, NoneIsNoRequest DEF RedeemRefused, Leave, Ends, Goto, stopVars, AgentTypeOK,
       OneAtATime, StopsOwnRun, HoldsRunLock, Unanswered, InLoop
<1>8. ASSUME NEW r \in Request, RedeemToken(r) PROVE StopsOwnRun'
  BY <1>8, NoneIsNoRequest DEF RedeemToken, Goto, lockVars, stopVars, AgentTypeOK, OneAtATime,
       StopsOwnRun, HoldsRunLock, Unanswered, InLoop
<1>9. ASSUME NEW r \in Request, FindStale(r) PROVE StopsOwnRun'
  BY <1>9, NoneIsNoRequest DEF FindStale, Leave, Ends, Goto, stopVars, AgentTypeOK, OneAtATime,
       StopsOwnRun, HoldsRunLock, Unanswered, InLoop
<1>10. ASSUME NEW r \in Request, FindUnchanged(r) PROVE StopsOwnRun'
  BY <1>10, NoneIsNoRequest DEF FindUnchanged, Goto, lockVars, stopVars, AgentTypeOK,
       OneAtATime, StopsOwnRun, HoldsRunLock, Unanswered, InLoop
<1>11. ASSUME NEW r \in Request, StoreConfirmed(r) PROVE StopsOwnRun'
  BY <1>11, NoneIsNoRequest DEF StoreConfirmed, Goto, lockVars, stopVars, AgentTypeOK,
       OneAtATime, StopsOwnRun, HoldsRunLock, Unanswered, InLoop
<1>12. ASSUME NEW r \in Request, CallConfirmed(r) PROVE StopsOwnRun'
  BY <1>12, NoneIsNoRequest DEF CallConfirmed, Goto, lockVars, stopVars, AgentTypeOK,
       OneAtATime, StopsOwnRun, HoldsRunLock, Unanswered, InLoop
<1>13. ASSUME NEW r \in Request, CallConfirmedCrashes(r) PROVE StopsOwnRun'
  BY <1>13, NoneIsNoRequest DEF CallConfirmedCrashes, Leave, Ends, Goto, stopVars, AgentTypeOK,
       OneAtATime, StopsOwnRun, HoldsRunLock, Unanswered, InLoop
<1>14. ASSUME NEW r \in Request, StoreAnswer(r) PROVE StopsOwnRun'
  BY <1>14, NoneIsNoRequest DEF StoreAnswer, Goto, lockVars, stopVars, AgentTypeOK, OneAtATime,
       StopsOwnRun, HoldsRunLock, Unanswered, InLoop
<1>15. ASSUME NEW r \in Request, ReadBack(r) PROVE StopsOwnRun'
  BY <1>15, NoneIsNoRequest DEF ReadBack, LeaveOpen, Goto, stopVars, AgentTypeOK, OneAtATime,
       StopsOwnRun, HoldsRunLock, Unanswered, InLoop
<1>16. ASSUME NEW r \in Request, Close(r) PROVE StopsOwnRun'
  BY <1>16, NoneIsNoRequest DEF Close, Ends, Goto, stopVars, AgentTypeOK, OneAtATime,
       StopsOwnRun, HoldsRunLock, Unanswered, InLoop
<1>17. ASSUME NEW r \in Request, BusyTimeout(r) PROVE StopsOwnRun'
  BY <1>17, NoneIsNoRequest DEF BusyTimeout, Leave, Ends, Goto, stopVars, AwaitsWriteLock,
       AgentTypeOK, OneAtATime, StopsOwnRun, HoldsRunLock, Unanswered, InLoop
<1>18. ASSUME NEW r \in Request, SoftDelete(r) PROVE StopsOwnRun'
  BY <1>18, NoneIsNoRequest DEF SoftDelete, Goto, stopVars, AgentTypeOK, OneAtATime,
       StopsOwnRun, HoldsRunLock, Unanswered, InLoop
<1>19. ASSUME NEW r \in Request, DeleteMissing(r) PROVE StopsOwnRun'
  BY <1>19, NoneIsNoRequest DEF DeleteMissing, LeaveOpen, Goto, stopVars, AgentTypeOK,
       OneAtATime, StopsOwnRun, HoldsRunLock, Unanswered, InLoop
<1>20. ASSUME NEW r \in Request, Register(r) PROVE StopsOwnRun'
  BY <1>20, NoneIsNoRequest DEF Register, Goto, lockVars, AgentTypeOK, OneAtATime, StopsOwnRun,
       HoldsRunLock, Unanswered, InLoop
<1>21. ASSUME NEW r \in Request, StopBeforeTurn(r) PROVE StopsOwnRun'
  BY <1>21, NoneIsNoRequest DEF StopBeforeTurn, EndRun, Goto, lockVars, stopVars, AgentTypeOK,
       OneAtATime, StopsOwnRun, HoldsRunLock, Unanswered, InLoop
<1>22. ASSUME NEW r \in Request, CallProvider(r) PROVE StopsOwnRun'
  BY <1>22, NoneIsNoRequest DEF CallProvider, Goto, lockVars, stopVars, AgentTypeOK,
       OneAtATime, StopsOwnRun, HoldsRunLock, Unanswered, InLoop
<1>23. ASSUME NEW r \in Request, ProviderEndsRun(r) PROVE StopsOwnRun'
  BY <1>23, NoneIsNoRequest DEF ProviderEndsRun, EndRun, Goto, lockVars, stopVars, AgentTypeOK,
       OneAtATime, StopsOwnRun, HoldsRunLock, Unanswered, InLoop
<1>24. ASSUME NEW r \in Request, ProviderCorrected(r) PROVE StopsOwnRun'
  BY <1>24, NoneIsNoRequest DEF ProviderCorrected, Goto, lockVars, stopVars, AgentTypeOK,
       OneAtATime, StopsOwnRun, HoldsRunLock, Unanswered, InLoop
<1>25. ASSUME NEW r \in Request, NEW call \in Call, Propose(r, call) PROVE StopsOwnRun'
  BY <1>25, NoneIsNoRequest DEF Propose, Goto, lockVars, stopVars, AgentTypeOK, OneAtATime,
       StopsOwnRun, HoldsRunLock, Unanswered, InLoop
<1>26. ASSUME NEW r \in Request, SkipRemaining(r) PROVE StopsOwnRun'
  BY <1>26, NoneIsNoRequest DEF SkipRemaining, EndRun, Goto, lockVars, stopVars, AgentTypeOK,
       OneAtATime, StopsOwnRun, HoldsRunLock, Unanswered, InLoop
<1>27. ASSUME NEW r \in Request, StartCall(r) PROVE StopsOwnRun'
  BY <1>27, NoneIsNoRequest DEF StartCall, CallStarts, Dispatched, Goto, lockVars, stopVars,
       AgentTypeOK, OneAtATime, StopsOwnRun, HoldsRunLock, Unanswered, InLoop
<1>28. ASSUME NEW r \in Request, StartConfirmedCall(r) PROVE StopsOwnRun'
  BY <1>28, NoneIsNoRequest DEF StartConfirmedCall, CallStarts, Dispatched, Goto, lockVars,
       stopVars, AgentTypeOK, OneAtATime, StopsOwnRun, HoldsRunLock, Unanswered, InLoop
<1>29. ASSUME NEW r \in Request, NEW t \in Token, AskFirst(r, t) PROVE StopsOwnRun'
  BY <1>29, NoneIsNoRequest DEF AskFirst, CallStarts, Goto, lockVars, stopVars, AgentTypeOK,
       OneAtATime, StopsOwnRun, HoldsRunLock, Unanswered, InLoop
<1>30. ASSUME NEW r \in Request, CallReturns(r) PROVE StopsOwnRun'
  BY <1>30, NoneIsNoRequest DEF CallReturns, Goto, lockVars, stopVars, AgentTypeOK, OneAtATime,
       StopsOwnRun, HoldsRunLock, Unanswered, InLoop
<1>31. ASSUME NEW r \in Request, CallCrashes(r) PROVE StopsOwnRun'
  BY <1>31, NoneIsNoRequest DEF CallCrashes, EndRun, Goto, lockVars, stopVars, AgentTypeOK,
       OneAtATime, StopsOwnRun, HoldsRunLock, Unanswered, InLoop
<1>32. ASSUME NEW r \in Request, Unregister(r) PROVE StopsOwnRun'
  BY <1>32, NoneIsNoRequest DEF Unregister, Goto, lockVars, AgentTypeOK, OneAtATime,
       StopsOwnRun, HoldsRunLock, Unanswered, InLoop
<1>33. ASSUME NEW r \in Request, Delete(r) PROVE StopsOwnRun'
  BY <1>33, NoneIsNoRequest DEF Delete, Arrives, Goto, stopVars, AgentTypeOK, OneAtATime,
       StopsOwnRun, HoldsRunLock, Unanswered, InLoop
<1>34. ASSUME RestoreConversation PROVE StopsOwnRun'
  BY <1>34, NoneIsNoRequest DEF RestoreConversation, lockVars, stopVars, AgentTypeOK,
       OneAtATime, StopsOwnRun, HoldsRunLock, Unanswered, InLoop
<1>35. ASSUME CancelRun PROVE StopsOwnRun'
  BY <1>35, NoneIsNoRequest DEF CancelRun, lockVars, AgentTypeOK, OneAtATime, StopsOwnRun,
       HoldsRunLock, Unanswered, InLoop
<1>36. ASSUME OtherBegins PROVE StopsOwnRun'
  BY <1>36, NoneIsNoRequest DEF OtherBegins, stopVars, AgentTypeOK, OneAtATime, StopsOwnRun,
       HoldsRunLock, Unanswered, InLoop
<1>37. ASSUME OtherCommits PROVE StopsOwnRun'
  BY <1>37, NoneIsNoRequest DEF OtherCommits, stopVars, AgentTypeOK, OneAtATime, StopsOwnRun,
       HoldsRunLock, Unanswered, InLoop
<1>38. ASSUME NEW t \in Token, Expire(t) PROVE StopsOwnRun'
  BY <1>38, NoneIsNoRequest DEF Expire, lockVars, stopVars, AgentTypeOK, OneAtATime,
       StopsOwnRun, HoldsRunLock, Unanswered, InLoop
<1>39. ASSUME Crash PROVE StopsOwnRun'
  BY <1>39, NoneIsNoRequest DEF Crash, AgentTypeOK, OneAtATime, StopsOwnRun, HoldsRunLock,
       Unanswered, InLoop
<1> QED BY <1>1, <1>2, <1>3, <1>4, <1>5, <1>6, <1>7, <1>8, <1>9, <1>10, <1>11, <1>12, <1>13,
     <1>14, <1>15, <1>16, <1>17, <1>18, <1>19, <1>20, <1>21, <1>22, <1>23, <1>24, <1>25, <1>26,
     <1>27, <1>28, <1>29, <1>30, <1>31, <1>32, <1>33, <1>34, <1>35, <1>36, <1>37, <1>38,
     <1>39 DEF Next, PostStep, RunStep

\* Only a session that was left open keeps the write lock, and it just closes.
LEMMA WriterNeverWaitsKept ==
  ASSUME AgentTypeOK, WriterNeverWaits, Next
  PROVE  WriterNeverWaits'
<1>1. ASSUME NEW r \in Request, NEW p \in Posts, Post(r, p) PROVE WriterNeverWaits'
  BY <1>1, NoneIsNoRequest DEF Post, Arrives, Goto, lockVars, AgentTypeOK, WriterNeverWaits
<1>2. ASSUME NEW r \in Request, GiveUp(r) PROVE WriterNeverWaits'
  BY <1>2, NoneIsNoRequest DEF GiveUp, Ends, Goto, lockVars, AgentTypeOK, WriterNeverWaits
<1>3. ASSUME NEW r \in Request, TakeRunLock(r) PROVE WriterNeverWaits'
  BY <1>3, NoneIsNoRequest DEF TakeRunLock, Goto, AgentTypeOK, WriterNeverWaits
<1>4. ASSUME NEW r \in Request, EnterRefused(r) PROVE WriterNeverWaits'
  BY <1>4, NoneIsNoRequest DEF EnterRefused, LeaveOpen, Goto, CanWrite, AgentTypeOK,
       WriterNeverWaits
<1>5. ASSUME NEW r \in Request, EnterConfirm(r) PROVE WriterNeverWaits'
  BY <1>5, NoneIsNoRequest DEF EnterConfirm, Goto, CanWrite, lockVars, AgentTypeOK,
       WriterNeverWaits
<1>6. ASSUME NEW r \in Request, EnterRun(r) PROVE WriterNeverWaits'
  BY <1>6, NoneIsNoRequest DEF EnterRun, Goto, CanWrite, lockVars, AgentTypeOK, WriterNeverWaits
<1>7. ASSUME NEW r \in Request, RedeemRefused(r) PROVE WriterNeverWaits'
  BY <1>7, NoneIsNoRequest DEF RedeemRefused, Leave, Ends, Goto, AgentTypeOK, WriterNeverWaits
<1>8. ASSUME NEW r \in Request, RedeemToken(r) PROVE WriterNeverWaits'
  BY <1>8, NoneIsNoRequest DEF RedeemToken, Goto, lockVars, AgentTypeOK, WriterNeverWaits
<1>9. ASSUME NEW r \in Request, FindStale(r) PROVE WriterNeverWaits'
  BY <1>9, NoneIsNoRequest DEF FindStale, Leave, Ends, Goto, AgentTypeOK, WriterNeverWaits
<1>10. ASSUME NEW r \in Request, FindUnchanged(r) PROVE WriterNeverWaits'
  BY <1>10, NoneIsNoRequest DEF FindUnchanged, Goto, lockVars, AgentTypeOK, WriterNeverWaits
<1>11. ASSUME NEW r \in Request, StoreConfirmed(r) PROVE WriterNeverWaits'
  BY <1>11, NoneIsNoRequest DEF StoreConfirmed, Goto, CanWrite, lockVars, AgentTypeOK,
       WriterNeverWaits
<1>12. ASSUME NEW r \in Request, CallConfirmed(r) PROVE WriterNeverWaits'
  BY <1>12, NoneIsNoRequest DEF CallConfirmed, Goto, CanWrite, lockVars, AgentTypeOK,
       WriterNeverWaits
<1>13. ASSUME NEW r \in Request, CallConfirmedCrashes(r) PROVE WriterNeverWaits'
  BY <1>13, NoneIsNoRequest DEF CallConfirmedCrashes, Leave, Ends, Goto, AgentTypeOK,
       WriterNeverWaits
<1>14. ASSUME NEW r \in Request, StoreAnswer(r) PROVE WriterNeverWaits'
  BY <1>14, NoneIsNoRequest DEF StoreAnswer, Goto, CanWrite, lockVars, AgentTypeOK,
       WriterNeverWaits
<1>15. ASSUME NEW r \in Request, ReadBack(r) PROVE WriterNeverWaits'
  BY <1>15, NoneIsNoRequest DEF ReadBack, LeaveOpen, Goto, CanWrite, AgentTypeOK, WriterNeverWaits
<1>16. ASSUME NEW r \in Request, Close(r) PROVE WriterNeverWaits'
  BY <1>16, NoneIsNoRequest DEF Close, Ends, Goto, AgentTypeOK, WriterNeverWaits
<1>17. ASSUME NEW r \in Request, BusyTimeout(r) PROVE WriterNeverWaits'
  BY <1>17, NoneIsNoRequest DEF BusyTimeout, Leave, Ends, Goto, CanWrite, AwaitsWriteLock,
       AgentTypeOK, WriterNeverWaits
<1>18. ASSUME NEW r \in Request, SoftDelete(r) PROVE WriterNeverWaits'
  BY <1>18, NoneIsNoRequest DEF SoftDelete, Goto, CanWrite, AgentTypeOK, WriterNeverWaits
<1>19. ASSUME NEW r \in Request, DeleteMissing(r) PROVE WriterNeverWaits'
  BY <1>19, NoneIsNoRequest DEF DeleteMissing, LeaveOpen, Goto, CanWrite, AgentTypeOK,
       WriterNeverWaits
<1>20. ASSUME NEW r \in Request, Register(r) PROVE WriterNeverWaits'
  BY <1>20, NoneIsNoRequest DEF Register, Goto, lockVars, AgentTypeOK, WriterNeverWaits
<1>21. ASSUME NEW r \in Request, StopBeforeTurn(r) PROVE WriterNeverWaits'
  BY <1>21, NoneIsNoRequest DEF StopBeforeTurn, EndRun, Goto, lockVars, AgentTypeOK,
       WriterNeverWaits
<1>22. ASSUME NEW r \in Request, CallProvider(r) PROVE WriterNeverWaits'
  BY <1>22, NoneIsNoRequest DEF CallProvider, Goto, lockVars, AgentTypeOK, WriterNeverWaits
<1>23. ASSUME NEW r \in Request, ProviderEndsRun(r) PROVE WriterNeverWaits'
  BY <1>23, NoneIsNoRequest DEF ProviderEndsRun, EndRun, Goto, lockVars, AgentTypeOK,
       WriterNeverWaits
<1>24. ASSUME NEW r \in Request, ProviderCorrected(r) PROVE WriterNeverWaits'
  BY <1>24, NoneIsNoRequest DEF ProviderCorrected, Goto, lockVars, AgentTypeOK, WriterNeverWaits
<1>25. ASSUME NEW r \in Request, NEW call \in Call, Propose(r, call) PROVE WriterNeverWaits'
  BY <1>25, NoneIsNoRequest DEF Propose, Goto, lockVars, AgentTypeOK, WriterNeverWaits
<1>26. ASSUME NEW r \in Request, SkipRemaining(r) PROVE WriterNeverWaits'
  BY <1>26, NoneIsNoRequest DEF SkipRemaining, EndRun, Goto, lockVars, AgentTypeOK,
       WriterNeverWaits
<1>27. ASSUME NEW r \in Request, StartCall(r) PROVE WriterNeverWaits'
  BY <1>27, NoneIsNoRequest DEF StartCall, CallStarts, Dispatched, Goto, lockVars, AgentTypeOK,
       WriterNeverWaits
<1>28. ASSUME NEW r \in Request, StartConfirmedCall(r) PROVE WriterNeverWaits'
  BY <1>28, NoneIsNoRequest DEF StartConfirmedCall, CallStarts, Dispatched, Goto, lockVars,
       AgentTypeOK, WriterNeverWaits
<1>29. ASSUME NEW r \in Request, NEW t \in Token, AskFirst(r, t) PROVE WriterNeverWaits'
  BY <1>29, NoneIsNoRequest DEF AskFirst, CallStarts, Goto, lockVars, AgentTypeOK,
       WriterNeverWaits
<1>30. ASSUME NEW r \in Request, CallReturns(r) PROVE WriterNeverWaits'
  BY <1>30, NoneIsNoRequest DEF CallReturns, Goto, CanWrite, lockVars, AgentTypeOK,
       WriterNeverWaits
<1>31. ASSUME NEW r \in Request, CallCrashes(r) PROVE WriterNeverWaits'
  BY <1>31, NoneIsNoRequest DEF CallCrashes, EndRun, Goto, CanWrite, lockVars, AgentTypeOK,
       WriterNeverWaits
<1>32. ASSUME NEW r \in Request, Unregister(r) PROVE WriterNeverWaits'
  BY <1>32, NoneIsNoRequest DEF Unregister, Goto, lockVars, AgentTypeOK, WriterNeverWaits
<1>33. ASSUME NEW r \in Request, Delete(r) PROVE WriterNeverWaits'
  BY <1>33, NoneIsNoRequest DEF Delete, Arrives, Goto, AgentTypeOK, WriterNeverWaits
<1>34. ASSUME RestoreConversation PROVE WriterNeverWaits'
  BY <1>34, NoneIsNoRequest DEF RestoreConversation, CanWrite, lockVars, AgentTypeOK,
       WriterNeverWaits
<1>35. ASSUME CancelRun PROVE WriterNeverWaits'
  BY <1>35, NoneIsNoRequest DEF CancelRun, lockVars, AgentTypeOK, WriterNeverWaits
<1>36. ASSUME OtherBegins PROVE WriterNeverWaits'
  BY <1>36, NoneIsNoRequest DEF OtherBegins, CanWrite, AgentTypeOK, WriterNeverWaits
<1>37. ASSUME OtherCommits PROVE WriterNeverWaits'
  BY <1>37, NoneIsNoRequest DEF OtherCommits, AgentTypeOK, WriterNeverWaits
<1>38. ASSUME NEW t \in Token, Expire(t) PROVE WriterNeverWaits'
  BY <1>38, NoneIsNoRequest DEF Expire, lockVars, AgentTypeOK, WriterNeverWaits
<1>39. ASSUME Crash PROVE WriterNeverWaits'
  BY <1>39, NoneIsNoRequest DEF Crash, AgentTypeOK, WriterNeverWaits
<1> QED BY <1>1, <1>2, <1>3, <1>4, <1>5, <1>6, <1>7, <1>8, <1>9, <1>10, <1>11, <1>12, <1>13,
     <1>14, <1>15, <1>16, <1>17, <1>18, <1>19, <1>20, <1>21, <1>22, <1>23, <1>24, <1>25, <1>26,
     <1>27, <1>28, <1>29, <1>30, <1>31, <1>32, <1>33, <1>34, <1>35, <1>36, <1>37, <1>38,
     <1>39 DEF Next, PostStep, RunStep

\* Only the holder of the run lock appends turns.
LEMMA OpenExchangeKept ==
  ASSUME AgentTypeOK, OneAtATime, OpenExchange, Next
  PROVE  OpenExchange'
<1>1. ASSUME NEW r \in Request, NEW p \in Posts, Post(r, p) PROVE OpenExchange'
  BY <1>1, PostFields DEF Post, Arrives, Goto, threadVars, lockVars, AgentTypeOK, OneAtATime,
       OpenExchange, TurnRecord, HoldsRunLock, Unanswered, InLoop
<1>2. ASSUME NEW r \in Request, GiveUp(r) PROVE OpenExchange'
  BY <1>2, PostFields DEF GiveUp, Ends, Goto, threadVars, lockVars, AgentTypeOK, OneAtATime,
       OpenExchange, TurnRecord, HoldsRunLock, Unanswered, InLoop
<1>3. ASSUME NEW r \in Request, TakeRunLock(r) PROVE OpenExchange'
  BY <1>3, PostFields DEF TakeRunLock, Goto, threadVars, AgentTypeOK, OneAtATime, OpenExchange,
       TurnRecord, HoldsRunLock, Unanswered, InLoop
<1>4. ASSUME NEW r \in Request, EnterRefused(r) PROVE OpenExchange'
  BY <1>4, PostFields DEF EnterRefused, LeaveOpen, Goto, threadVars, AgentTypeOK, OneAtATime,
       OpenExchange, TurnRecord, HoldsRunLock, Unanswered, InLoop
<1>5. ASSUME NEW r \in Request, EnterConfirm(r) PROVE OpenExchange'
  BY <1>5, PostFields DEF EnterConfirm, Goto, threadVars, lockVars, AgentTypeOK, OneAtATime,
       OpenExchange, TurnRecord, HoldsRunLock, Unanswered, InLoop
<1>6. ASSUME NEW r \in Request, EnterRun(r) PROVE OpenExchange'
  <2>1. turns' = Append(turns, UserTurnOf(r)) /\ turns \in Seq(TurnRecord)
    BY <1>6 DEF EnterRun, AgentTypeOK
  <2>2. UserTurnOf(r) \in TurnRecord /\ UserTurnOf(r).by = r
    BY PostFields DEF UserTurnOf, TurnRecord, AgentTypeOK
  <2>3. turns' # <<>> /\ turns'[Len(turns')].by = r
    BY <2>1, <2>2
  <2>4. \A q \in Request : pc'[q] \in Unanswered => q = r
    BY <1>6 DEF EnterRun, Goto, AgentTypeOK, OneAtATime, HoldsRunLock, Unanswered, InLoop
  <2> QED BY <2>3, <2>4 DEF OpenExchange
<1>7. ASSUME NEW r \in Request, RedeemRefused(r) PROVE OpenExchange'
  BY <1>7, PostFields DEF RedeemRefused, Leave, Ends, Goto, threadVars, AgentTypeOK,
       OneAtATime, OpenExchange, TurnRecord, HoldsRunLock, Unanswered, InLoop
<1>8. ASSUME NEW r \in Request, RedeemToken(r) PROVE OpenExchange'
  BY <1>8, PostFields DEF RedeemToken, Goto, threadVars, lockVars, AgentTypeOK, OneAtATime,
       OpenExchange, TurnRecord, HoldsRunLock, Unanswered, InLoop
<1>9. ASSUME NEW r \in Request, FindStale(r) PROVE OpenExchange'
  BY <1>9, PostFields DEF FindStale, Leave, Ends, Goto, threadVars, AgentTypeOK, OneAtATime,
       OpenExchange, TurnRecord, HoldsRunLock, Unanswered, InLoop
<1>10. ASSUME NEW r \in Request, FindUnchanged(r) PROVE OpenExchange'
  BY <1>10, PostFields DEF FindUnchanged, Goto, threadVars, lockVars, AgentTypeOK, OneAtATime,
       OpenExchange, TurnRecord, HoldsRunLock, Unanswered, InLoop
<1>11. ASSUME NEW r \in Request, StoreConfirmed(r) PROVE OpenExchange'
  <2>1. turns' = Append(turns, UserTurnOf(r)) /\ turns \in Seq(TurnRecord)
    BY <1>11 DEF StoreConfirmed, AgentTypeOK
  <2>2. UserTurnOf(r) \in TurnRecord /\ UserTurnOf(r).by = r
    BY PostFields DEF UserTurnOf, TurnRecord, AgentTypeOK
  <2>3. turns' # <<>> /\ turns'[Len(turns')].by = r
    BY <2>1, <2>2
  <2>4. \A q \in Request : pc'[q] \in Unanswered => q = r
    BY <1>11 DEF StoreConfirmed, Goto, AgentTypeOK, OneAtATime, HoldsRunLock, Unanswered, InLoop
  <2> QED BY <2>3, <2>4 DEF OpenExchange
<1>12. ASSUME NEW r \in Request, CallConfirmed(r) PROVE OpenExchange'
  BY <1>12, PostFields DEF CallConfirmed, Goto, threadVars, lockVars, AgentTypeOK, OneAtATime,
       OpenExchange, TurnRecord, HoldsRunLock, Unanswered, InLoop
<1>13. ASSUME NEW r \in Request, CallConfirmedCrashes(r) PROVE OpenExchange'
  BY <1>13, PostFields DEF CallConfirmedCrashes, Leave, Ends, Goto, threadVars, AgentTypeOK,
       OneAtATime, OpenExchange, TurnRecord, HoldsRunLock, Unanswered, InLoop
<1>14. ASSUME NEW r \in Request, StoreAnswer(r) PROVE OpenExchange'
  BY <1>14, PostFields DEF StoreAnswer, Goto, lockVars, AgentTypeOK, OneAtATime, OpenExchange,
       TurnRecord, HoldsRunLock, Unanswered, InLoop
<1>15. ASSUME NEW r \in Request, ReadBack(r) PROVE OpenExchange'
  BY <1>15, PostFields DEF ReadBack, LeaveOpen, Goto, threadVars, AgentTypeOK, OneAtATime,
       OpenExchange, TurnRecord, HoldsRunLock, Unanswered, InLoop
<1>16. ASSUME NEW r \in Request, Close(r) PROVE OpenExchange'
  BY <1>16, PostFields DEF Close, Ends, Goto, threadVars, AgentTypeOK, OneAtATime,
       OpenExchange, TurnRecord, HoldsRunLock, Unanswered, InLoop
<1>17. ASSUME NEW r \in Request, BusyTimeout(r) PROVE OpenExchange'
  BY <1>17, PostFields DEF BusyTimeout, Leave, Ends, Goto, threadVars, AgentTypeOK, OneAtATime,
       OpenExchange, TurnRecord, HoldsRunLock, Unanswered, InLoop
<1>18. ASSUME NEW r \in Request, SoftDelete(r) PROVE OpenExchange'
  BY <1>18, PostFields DEF SoftDelete, Goto, AgentTypeOK, OneAtATime, OpenExchange, TurnRecord,
       HoldsRunLock, Unanswered, InLoop
<1>19. ASSUME NEW r \in Request, DeleteMissing(r) PROVE OpenExchange'
  BY <1>19, PostFields DEF DeleteMissing, LeaveOpen, Goto, threadVars, AgentTypeOK, OneAtATime,
       OpenExchange, TurnRecord, HoldsRunLock, Unanswered, InLoop
<1>20. ASSUME NEW r \in Request, Register(r) PROVE OpenExchange'
  BY <1>20, PostFields DEF Register, Goto, threadVars, lockVars, AgentTypeOK, OneAtATime,
       OpenExchange, TurnRecord, HoldsRunLock, Unanswered, InLoop
<1>21. ASSUME NEW r \in Request, StopBeforeTurn(r) PROVE OpenExchange'
  BY <1>21, PostFields DEF StopBeforeTurn, EndRun, Goto, threadVars, lockVars, AgentTypeOK,
       OneAtATime, OpenExchange, TurnRecord, HoldsRunLock, Unanswered, InLoop
<1>22. ASSUME NEW r \in Request, CallProvider(r) PROVE OpenExchange'
  BY <1>22, PostFields DEF CallProvider, Goto, threadVars, lockVars, AgentTypeOK, OneAtATime,
       OpenExchange, TurnRecord, HoldsRunLock, Unanswered, InLoop
<1>23. ASSUME NEW r \in Request, ProviderEndsRun(r) PROVE OpenExchange'
  BY <1>23, PostFields DEF ProviderEndsRun, EndRun, Goto, threadVars, lockVars, AgentTypeOK,
       OneAtATime, OpenExchange, TurnRecord, HoldsRunLock, Unanswered, InLoop
<1>24. ASSUME NEW r \in Request, ProviderCorrected(r) PROVE OpenExchange'
  BY <1>24, PostFields DEF ProviderCorrected, Goto, threadVars, lockVars, AgentTypeOK,
       OneAtATime, OpenExchange, TurnRecord, HoldsRunLock, Unanswered, InLoop
<1>25. ASSUME NEW r \in Request, NEW call \in Call, Propose(r, call) PROVE OpenExchange'
  BY <1>25, PostFields DEF Propose, Goto, threadVars, lockVars, AgentTypeOK, OneAtATime,
       OpenExchange, TurnRecord, HoldsRunLock, Unanswered, InLoop
<1>26. ASSUME NEW r \in Request, SkipRemaining(r) PROVE OpenExchange'
  BY <1>26, PostFields DEF SkipRemaining, EndRun, Goto, threadVars, lockVars, AgentTypeOK,
       OneAtATime, OpenExchange, TurnRecord, HoldsRunLock, Unanswered, InLoop
<1>27. ASSUME NEW r \in Request, StartCall(r) PROVE OpenExchange'
  BY <1>27, PostFields DEF StartCall, CallStarts, Dispatched, Goto, threadVars, lockVars,
       AgentTypeOK, OneAtATime, OpenExchange, TurnRecord, HoldsRunLock, Unanswered, InLoop
<1>28. ASSUME NEW r \in Request, StartConfirmedCall(r) PROVE OpenExchange'
  BY <1>28, PostFields DEF StartConfirmedCall, CallStarts, Dispatched, Goto, threadVars,
       lockVars, AgentTypeOK, OneAtATime, OpenExchange, TurnRecord, HoldsRunLock, Unanswered,
       InLoop
<1>29. ASSUME NEW r \in Request, NEW t \in Token, AskFirst(r, t) PROVE OpenExchange'
  BY <1>29, PostFields DEF AskFirst, CallStarts, Goto, threadVars, lockVars, AgentTypeOK,
       OneAtATime, OpenExchange, TurnRecord, HoldsRunLock, Unanswered, InLoop
<1>30. ASSUME NEW r \in Request, CallReturns(r) PROVE OpenExchange'
  BY <1>30, PostFields DEF CallReturns, Goto, threadVars, lockVars, AgentTypeOK, OneAtATime,
       OpenExchange, TurnRecord, HoldsRunLock, Unanswered, InLoop
<1>31. ASSUME NEW r \in Request, CallCrashes(r) PROVE OpenExchange'
  BY <1>31, PostFields DEF CallCrashes, EndRun, Goto, threadVars, lockVars, AgentTypeOK,
       OneAtATime, OpenExchange, TurnRecord, HoldsRunLock, Unanswered, InLoop
<1>32. ASSUME NEW r \in Request, Unregister(r) PROVE OpenExchange'
  BY <1>32, PostFields DEF Unregister, Goto, threadVars, lockVars, AgentTypeOK, OneAtATime,
       OpenExchange, TurnRecord, HoldsRunLock, Unanswered, InLoop
<1>33. ASSUME NEW r \in Request, Delete(r) PROVE OpenExchange'
  BY <1>33, PostFields DEF Delete, Arrives, Goto, threadVars, AgentTypeOK, OneAtATime,
       OpenExchange, TurnRecord, HoldsRunLock, Unanswered, InLoop
<1>34. ASSUME RestoreConversation PROVE OpenExchange'
  BY <1>34, PostFields DEF RestoreConversation, lockVars, AgentTypeOK, OneAtATime,
       OpenExchange, TurnRecord, HoldsRunLock, Unanswered, InLoop
<1>35. ASSUME CancelRun PROVE OpenExchange'
  BY <1>35, PostFields DEF CancelRun, threadVars, lockVars, AgentTypeOK, OneAtATime,
       OpenExchange, TurnRecord, HoldsRunLock, Unanswered, InLoop
<1>36. ASSUME OtherBegins PROVE OpenExchange'
  BY <1>36, PostFields DEF OtherBegins, threadVars, AgentTypeOK, OneAtATime, OpenExchange,
       TurnRecord, HoldsRunLock, Unanswered, InLoop
<1>37. ASSUME OtherCommits PROVE OpenExchange'
  BY <1>37, PostFields DEF OtherCommits, threadVars, AgentTypeOK, OneAtATime, OpenExchange,
       TurnRecord, HoldsRunLock, Unanswered, InLoop
<1>38. ASSUME NEW t \in Token, Expire(t) PROVE OpenExchange'
  BY <1>38, PostFields DEF Expire, threadVars, lockVars, AgentTypeOK, OneAtATime, OpenExchange,
       TurnRecord, HoldsRunLock, Unanswered, InLoop
<1>39. ASSUME Crash PROVE OpenExchange'
  BY <1>39, PostFields DEF Crash, threadVars, AgentTypeOK, OneAtATime, OpenExchange,
       TurnRecord, HoldsRunLock, Unanswered, InLoop
<1> QED BY <1>1, <1>2, <1>3, <1>4, <1>5, <1>6, <1>7, <1>8, <1>9, <1>10, <1>11, <1>12, <1>13,
     <1>14, <1>15, <1>16, <1>17, <1>18, <1>19, <1>20, <1>21, <1>22, <1>23, <1>24, <1>25, <1>26,
     <1>27, <1>28, <1>29, <1>30, <1>31, <1>32, <1>33, <1>34, <1>35, <1>36, <1>37, <1>38,
     <1>39 DEF Next, PostStep, RunStep

\* Only the holder of the run lock trashes the thread or appends a turn with a key.
LEMMA EnteredKept ==
  ASSUME AgentTypeOK, OneAtATime, Entered, Next
  PROVE  Entered'
<1>1. ASSUME NEW r \in Request, NEW p \in Posts, Post(r, p) PROVE Entered'
  BY <1>1 DEF Post, Arrives, Goto, threadVars, lockVars, AgentTypeOK, OneAtATime, Entered,
       Seen, TurnRecord, HoldsRunLock, Unanswered, InLoop
<1>2. ASSUME NEW r \in Request, GiveUp(r) PROVE Entered'
  BY <1>2 DEF GiveUp, Ends, Goto, threadVars, lockVars, AgentTypeOK, OneAtATime, Entered, Seen,
       TurnRecord, HoldsRunLock, Unanswered, InLoop
<1>3. ASSUME NEW r \in Request, TakeRunLock(r) PROVE Entered'
  BY <1>3 DEF TakeRunLock, Goto, threadVars, AgentTypeOK, OneAtATime, Entered, Seen,
       TurnRecord, HoldsRunLock, Unanswered, InLoop
<1>4. ASSUME NEW r \in Request, EnterRefused(r) PROVE Entered'
  BY <1>4 DEF EnterRefused, LeaveOpen, Goto, threadVars, AgentTypeOK, OneAtATime, Entered,
       Seen, TurnRecord, HoldsRunLock, Unanswered, InLoop
<1>5. ASSUME NEW r \in Request, EnterConfirm(r) PROVE Entered'
  BY <1>5 DEF EnterConfirm, Goto, threadVars, lockVars, AgentTypeOK, OneAtATime, Entered, Seen,
       TurnRecord, HoldsRunLock, Unanswered, InLoop
<1>6. ASSUME NEW r \in Request, EnterRun(r) PROVE Entered'
  BY <1>6 DEF EnterRun, UserTurnOf, Goto, lockVars, AgentTypeOK, OneAtATime, Entered, Seen,
       TurnRecord, HoldsRunLock, Unanswered, InLoop
<1>7. ASSUME NEW r \in Request, RedeemRefused(r) PROVE Entered'
  BY <1>7 DEF RedeemRefused, Leave, Ends, Goto, threadVars, AgentTypeOK, OneAtATime, Entered,
       Seen, TurnRecord, HoldsRunLock, Unanswered, InLoop
<1>8. ASSUME NEW r \in Request, RedeemToken(r) PROVE Entered'
  BY <1>8 DEF RedeemToken, Goto, threadVars, lockVars, AgentTypeOK, OneAtATime, Entered, Seen,
       TurnRecord, HoldsRunLock, Unanswered, InLoop
<1>9. ASSUME NEW r \in Request, FindStale(r) PROVE Entered'
  BY <1>9 DEF FindStale, Leave, Ends, Goto, threadVars, AgentTypeOK, OneAtATime, Entered, Seen,
       TurnRecord, HoldsRunLock, Unanswered, InLoop
<1>10. ASSUME NEW r \in Request, FindUnchanged(r) PROVE Entered'
  BY <1>10 DEF FindUnchanged, Goto, threadVars, lockVars, AgentTypeOK, OneAtATime, Entered,
       Seen, TurnRecord, HoldsRunLock, Unanswered, InLoop
<1>11. ASSUME NEW r \in Request, StoreConfirmed(r) PROVE Entered'
  BY <1>11 DEF StoreConfirmed, UserTurnOf, Goto, lockVars, AgentTypeOK, OneAtATime, Entered,
       Seen, TurnRecord, HoldsRunLock, Unanswered, InLoop
<1>12. ASSUME NEW r \in Request, CallConfirmed(r) PROVE Entered'
  BY <1>12 DEF CallConfirmed, CallBody, Edits, Trashes, Goto, threadVars, lockVars,
       AgentTypeOK, OneAtATime, Entered, Seen, TurnRecord, HoldsRunLock, Unanswered, InLoop
<1>13. ASSUME NEW r \in Request, CallConfirmedCrashes(r) PROVE Entered'
  BY <1>13 DEF CallConfirmedCrashes, Leave, Ends, Goto, threadVars, AgentTypeOK, OneAtATime,
       Entered, Seen, TurnRecord, HoldsRunLock, Unanswered, InLoop
<1>14. ASSUME NEW r \in Request, StoreAnswer(r) PROVE Entered'
  BY <1>14 DEF StoreAnswer, Goto, lockVars, AgentTypeOK, OneAtATime, Entered, Seen, TurnRecord,
       HoldsRunLock, Unanswered, InLoop
<1>15. ASSUME NEW r \in Request, ReadBack(r) PROVE Entered'
  BY <1>15 DEF ReadBack, LeaveOpen, Goto, threadVars, AgentTypeOK, OneAtATime, Entered, Seen,
       TurnRecord, HoldsRunLock, Unanswered, InLoop
<1>16. ASSUME NEW r \in Request, Close(r) PROVE Entered'
  BY <1>16 DEF Close, Ends, Goto, threadVars, AgentTypeOK, OneAtATime, Entered, Seen,
       TurnRecord, HoldsRunLock, Unanswered, InLoop
<1>17. ASSUME NEW r \in Request, BusyTimeout(r) PROVE Entered'
  BY <1>17 DEF BusyTimeout, Leave, Ends, Goto, threadVars, AgentTypeOK, OneAtATime, Entered,
       Seen, TurnRecord, HoldsRunLock, Unanswered, InLoop
<1>18. ASSUME NEW r \in Request, SoftDelete(r) PROVE Entered'
  BY <1>18 DEF SoftDelete, Goto, AgentTypeOK, OneAtATime, Entered, Seen, TurnRecord,
       HoldsRunLock, Unanswered, InLoop
<1>19. ASSUME NEW r \in Request, DeleteMissing(r) PROVE Entered'
  BY <1>19 DEF DeleteMissing, LeaveOpen, Goto, threadVars, AgentTypeOK, OneAtATime, Entered,
       Seen, TurnRecord, HoldsRunLock, Unanswered, InLoop
<1>20. ASSUME NEW r \in Request, Register(r) PROVE Entered'
  BY <1>20 DEF Register, Goto, threadVars, lockVars, AgentTypeOK, OneAtATime, Entered, Seen,
       TurnRecord, HoldsRunLock, Unanswered, InLoop
<1>21. ASSUME NEW r \in Request, StopBeforeTurn(r) PROVE Entered'
  BY <1>21 DEF StopBeforeTurn, EndRun, Goto, threadVars, lockVars, AgentTypeOK, OneAtATime,
       Entered, Seen, TurnRecord, HoldsRunLock, Unanswered, InLoop
<1>22. ASSUME NEW r \in Request, CallProvider(r) PROVE Entered'
  BY <1>22 DEF CallProvider, Goto, threadVars, lockVars, AgentTypeOK, OneAtATime, Entered,
       Seen, TurnRecord, HoldsRunLock, Unanswered, InLoop
<1>23. ASSUME NEW r \in Request, ProviderEndsRun(r) PROVE Entered'
  BY <1>23 DEF ProviderEndsRun, EndRun, Goto, threadVars, lockVars, AgentTypeOK, OneAtATime,
       Entered, Seen, TurnRecord, HoldsRunLock, Unanswered, InLoop
<1>24. ASSUME NEW r \in Request, ProviderCorrected(r) PROVE Entered'
  BY <1>24 DEF ProviderCorrected, Goto, threadVars, lockVars, AgentTypeOK, OneAtATime, Entered,
       Seen, TurnRecord, HoldsRunLock, Unanswered, InLoop
<1>25. ASSUME NEW r \in Request, NEW call \in Call, Propose(r, call) PROVE Entered'
  BY <1>25 DEF Propose, Goto, threadVars, lockVars, AgentTypeOK, OneAtATime, Entered, Seen,
       TurnRecord, HoldsRunLock, Unanswered, InLoop
<1>26. ASSUME NEW r \in Request, SkipRemaining(r) PROVE Entered'
  BY <1>26 DEF SkipRemaining, EndRun, Goto, threadVars, lockVars, AgentTypeOK, OneAtATime,
       Entered, Seen, TurnRecord, HoldsRunLock, Unanswered, InLoop
<1>27. ASSUME NEW r \in Request, StartCall(r) PROVE Entered'
  BY <1>27 DEF StartCall, CallStarts, Dispatched, Goto, threadVars, lockVars, AgentTypeOK,
       OneAtATime, Entered, Seen, TurnRecord, HoldsRunLock, Unanswered, InLoop
<1>28. ASSUME NEW r \in Request, StartConfirmedCall(r) PROVE Entered'
  BY <1>28 DEF StartConfirmedCall, CallStarts, Dispatched, Allows, Goto, threadVars, lockVars,
       AgentTypeOK, OneAtATime, Entered, Seen, TurnRecord, HoldsRunLock, Unanswered, InLoop
<1>29. ASSUME NEW r \in Request, NEW t \in Token, AskFirst(r, t) PROVE Entered'
  BY <1>29 DEF AskFirst, CallStarts, Arm, Goto, threadVars, lockVars, AgentTypeOK, OneAtATime,
       Entered, Seen, TurnRecord, HoldsRunLock, Unanswered, InLoop
<1>30. ASSUME NEW r \in Request, CallReturns(r) PROVE Entered'
  BY <1>30 DEF CallReturns, CallBody, Edits, Trashes, Goto, threadVars, lockVars, AgentTypeOK,
       OneAtATime, Entered, Seen, TurnRecord, HoldsRunLock, Unanswered, InLoop
<1>31. ASSUME NEW r \in Request, CallCrashes(r) PROVE Entered'
  BY <1>31 DEF CallCrashes, EndRun, Goto, threadVars, lockVars, AgentTypeOK, OneAtATime,
       Entered, Seen, TurnRecord, HoldsRunLock, Unanswered, InLoop
<1>32. ASSUME NEW r \in Request, Unregister(r) PROVE Entered'
  BY <1>32 DEF Unregister, Goto, threadVars, lockVars, AgentTypeOK, OneAtATime, Entered, Seen,
       TurnRecord, HoldsRunLock, Unanswered, InLoop
<1>33. ASSUME NEW r \in Request, Delete(r) PROVE Entered'
  BY <1>33 DEF Delete, Arrives, Goto, threadVars, AgentTypeOK, OneAtATime, Entered, Seen,
       TurnRecord, HoldsRunLock, Unanswered, InLoop
<1>34. ASSUME RestoreConversation PROVE Entered'
  BY <1>34 DEF RestoreConversation, lockVars, AgentTypeOK, OneAtATime, Entered, Seen,
       TurnRecord, HoldsRunLock, Unanswered, InLoop
<1>35. ASSUME CancelRun PROVE Entered'
  BY <1>35 DEF CancelRun, threadVars, lockVars, AgentTypeOK, OneAtATime, Entered, Seen,
       TurnRecord, HoldsRunLock, Unanswered, InLoop
<1>36. ASSUME OtherBegins PROVE Entered'
  BY <1>36 DEF OtherBegins, threadVars, AgentTypeOK, OneAtATime, Entered, Seen, TurnRecord,
       HoldsRunLock, Unanswered, InLoop
<1>37. ASSUME OtherCommits PROVE Entered'
  BY <1>37 DEF OtherCommits, Edits, Trashes, threadVars, AgentTypeOK, OneAtATime, Entered,
       Seen, TurnRecord, HoldsRunLock, Unanswered, InLoop
<1>38. ASSUME NEW t \in Token, Expire(t) PROVE Entered'
  BY <1>38 DEF Expire, threadVars, lockVars, AgentTypeOK, OneAtATime, Entered, Seen,
       TurnRecord, HoldsRunLock, Unanswered, InLoop
<1>39. ASSUME Crash PROVE Entered'
  BY <1>39 DEF Crash, threadVars, AgentTypeOK, OneAtATime, Entered, Seen, TurnRecord,
       HoldsRunLock, Unanswered, InLoop
<1> QED BY <1>1, <1>2, <1>3, <1>4, <1>5, <1>6, <1>7, <1>8, <1>9, <1>10, <1>11, <1>12, <1>13,
     <1>14, <1>15, <1>16, <1>17, <1>18, <1>19, <1>20, <1>21, <1>22, <1>23, <1>24, <1>25, <1>26,
     <1>27, <1>28, <1>29, <1>30, <1>31, <1>32, <1>33, <1>34, <1>35, <1>36, <1>37, <1>38,
     <1>39 DEF Next, PostStep, RunStep

\* The confirm path is entered with a token, and the post does not change under it.
LEMMA MeansTokenKept ==
  ASSUME AgentTypeOK, MeansToken, Next
  PROVE  MeansToken'
<1>1. ASSUME NEW r \in Request, NEW p \in Posts, Post(r, p) PROVE MeansToken'
  BY <1>1, AgentBounds DEF Post, Arrives, Goto, AgentTypeOK, MeansToken, NoPost
<1>2. ASSUME NEW r \in Request, GiveUp(r) PROVE MeansToken'
  BY <1>2, AgentBounds DEF GiveUp, Ends, Goto, AgentTypeOK, MeansToken, NoPost
<1>3. ASSUME NEW r \in Request, TakeRunLock(r) PROVE MeansToken'
  BY <1>3, AgentBounds DEF TakeRunLock, Goto, AgentTypeOK, MeansToken, NoPost
<1>4. ASSUME NEW r \in Request, EnterRefused(r) PROVE MeansToken'
  BY <1>4, AgentBounds DEF EnterRefused, LeaveOpen, Goto, AgentTypeOK, MeansToken, NoPost
<1>5. ASSUME NEW r \in Request, EnterConfirm(r) PROVE MeansToken'
  BY <1>5, AgentBounds DEF EnterConfirm, Goto, AgentTypeOK, MeansToken, NoPost
<1>6. ASSUME NEW r \in Request, EnterRun(r) PROVE MeansToken'
  BY <1>6, AgentBounds DEF EnterRun, UserTurnOf, Goto, AgentTypeOK, MeansToken, NoPost
<1>7. ASSUME NEW r \in Request, RedeemRefused(r) PROVE MeansToken'
  BY <1>7, AgentBounds DEF RedeemRefused, Leave, Ends, Goto, AgentTypeOK, MeansToken, NoPost
<1>8. ASSUME NEW r \in Request, RedeemToken(r) PROVE MeansToken'
  BY <1>8, AgentBounds DEF RedeemToken, Goto, AgentTypeOK, MeansToken, NoPost
<1>9. ASSUME NEW r \in Request, FindStale(r) PROVE MeansToken'
  BY <1>9, AgentBounds DEF FindStale, Leave, Ends, Goto, AgentTypeOK, MeansToken, NoPost
<1>10. ASSUME NEW r \in Request, FindUnchanged(r) PROVE MeansToken'
  BY <1>10, AgentBounds DEF FindUnchanged, Goto, AgentTypeOK, MeansToken, NoPost
<1>11. ASSUME NEW r \in Request, StoreConfirmed(r) PROVE MeansToken'
  BY <1>11, AgentBounds DEF StoreConfirmed, UserTurnOf, Goto, AgentTypeOK, MeansToken, NoPost
<1>12. ASSUME NEW r \in Request, CallConfirmed(r) PROVE MeansToken'
  BY <1>12, AgentBounds DEF CallConfirmed, Goto, AgentTypeOK, MeansToken, NoPost
<1>13. ASSUME NEW r \in Request, CallConfirmedCrashes(r) PROVE MeansToken'
  BY <1>13, AgentBounds DEF CallConfirmedCrashes, Leave, Ends, Goto, AgentTypeOK, MeansToken,
       NoPost
<1>14. ASSUME NEW r \in Request, StoreAnswer(r) PROVE MeansToken'
  BY <1>14, AgentBounds DEF StoreAnswer, Goto, AgentTypeOK, MeansToken, NoPost
<1>15. ASSUME NEW r \in Request, ReadBack(r) PROVE MeansToken'
  BY <1>15, AgentBounds DEF ReadBack, LeaveOpen, Goto, AgentTypeOK, MeansToken, NoPost
<1>16. ASSUME NEW r \in Request, Close(r) PROVE MeansToken'
  BY <1>16, AgentBounds DEF Close, Ends, Goto, AgentTypeOK, MeansToken, NoPost
<1>17. ASSUME NEW r \in Request, BusyTimeout(r) PROVE MeansToken'
  BY <1>17, AgentBounds DEF BusyTimeout, Leave, Ends, Goto, AgentTypeOK, MeansToken, NoPost
<1>18. ASSUME NEW r \in Request, SoftDelete(r) PROVE MeansToken'
  BY <1>18, AgentBounds DEF SoftDelete, Goto, AgentTypeOK, MeansToken, NoPost
<1>19. ASSUME NEW r \in Request, DeleteMissing(r) PROVE MeansToken'
  BY <1>19, AgentBounds DEF DeleteMissing, LeaveOpen, Goto, AgentTypeOK, MeansToken, NoPost
<1>20. ASSUME NEW r \in Request, Register(r) PROVE MeansToken'
  BY <1>20, AgentBounds DEF Register, Goto, AgentTypeOK, MeansToken, NoPost
<1>21. ASSUME NEW r \in Request, StopBeforeTurn(r) PROVE MeansToken'
  BY <1>21, AgentBounds DEF StopBeforeTurn, EndRun, Goto, AgentTypeOK, MeansToken, NoPost
<1>22. ASSUME NEW r \in Request, CallProvider(r) PROVE MeansToken'
  BY <1>22, AgentBounds DEF CallProvider, Goto, AgentTypeOK, MeansToken, NoPost
<1>23. ASSUME NEW r \in Request, ProviderEndsRun(r) PROVE MeansToken'
  BY <1>23, AgentBounds DEF ProviderEndsRun, EndRun, Goto, AgentTypeOK, MeansToken, NoPost
<1>24. ASSUME NEW r \in Request, ProviderCorrected(r) PROVE MeansToken'
  BY <1>24, AgentBounds DEF ProviderCorrected, Goto, AgentTypeOK, MeansToken, NoPost
<1>25. ASSUME NEW r \in Request, NEW call \in Call, Propose(r, call) PROVE MeansToken'
  BY <1>25, AgentBounds DEF Propose, Goto, AgentTypeOK, MeansToken, NoPost
<1>26. ASSUME NEW r \in Request, SkipRemaining(r) PROVE MeansToken'
  BY <1>26, AgentBounds DEF SkipRemaining, EndRun, Goto, AgentTypeOK, MeansToken, NoPost
<1>27. ASSUME NEW r \in Request, StartCall(r) PROVE MeansToken'
  BY <1>27, AgentBounds DEF StartCall, CallStarts, Dispatched, Goto, AgentTypeOK, MeansToken,
       NoPost
<1>28. ASSUME NEW r \in Request, StartConfirmedCall(r) PROVE MeansToken'
  BY <1>28, AgentBounds DEF StartConfirmedCall, CallStarts, Dispatched, Goto, AgentTypeOK,
       MeansToken, NoPost
<1>29. ASSUME NEW r \in Request, NEW t \in Token, AskFirst(r, t) PROVE MeansToken'
  BY <1>29, AgentBounds DEF AskFirst, CallStarts, Goto, AgentTypeOK, MeansToken, NoPost
<1>30. ASSUME NEW r \in Request, CallReturns(r) PROVE MeansToken'
  BY <1>30, AgentBounds DEF CallReturns, Goto, AgentTypeOK, MeansToken, NoPost
<1>31. ASSUME NEW r \in Request, CallCrashes(r) PROVE MeansToken'
  BY <1>31, AgentBounds DEF CallCrashes, EndRun, Goto, AgentTypeOK, MeansToken, NoPost
<1>32. ASSUME NEW r \in Request, Unregister(r) PROVE MeansToken'
  BY <1>32, AgentBounds DEF Unregister, Goto, AgentTypeOK, MeansToken, NoPost
<1>33. ASSUME NEW r \in Request, Delete(r) PROVE MeansToken'
  BY <1>33, AgentBounds DEF Delete, Arrives, Goto, AgentTypeOK, MeansToken, NoPost
<1>34. ASSUME RestoreConversation PROVE MeansToken'
  BY <1>34, AgentBounds DEF RestoreConversation, AgentTypeOK, MeansToken, NoPost
<1>35. ASSUME CancelRun PROVE MeansToken'
  BY <1>35, AgentBounds DEF CancelRun, AgentTypeOK, MeansToken, NoPost
<1>36. ASSUME OtherBegins PROVE MeansToken'
  BY <1>36, AgentBounds DEF OtherBegins, AgentTypeOK, MeansToken, NoPost
<1>37. ASSUME OtherCommits PROVE MeansToken'
  BY <1>37, AgentBounds DEF OtherCommits, AgentTypeOK, MeansToken, NoPost
<1>38. ASSUME NEW t \in Token, Expire(t) PROVE MeansToken'
  BY <1>38, AgentBounds DEF Expire, AgentTypeOK, MeansToken, NoPost
<1>39. ASSUME Crash PROVE MeansToken'
  BY <1>39, AgentBounds DEF Crash, AgentTypeOK, MeansToken, NoPost
<1> QED BY <1>1, <1>2, <1>3, <1>4, <1>5, <1>6, <1>7, <1>8, <1>9, <1>10, <1>11, <1>12, <1>13,
     <1>14, <1>15, <1>16, <1>17, <1>18, <1>19, <1>20, <1>21, <1>22, <1>23, <1>24, <1>25, <1>26,
     <1>27, <1>28, <1>29, <1>30, <1>31, <1>32, <1>33, <1>34, <1>35, <1>36, <1>37, <1>38,
     <1>39 DEF Next, PostStep, RunStep

\* A token enters the process's table when it is issued.
LEMMA KnownIssuedKept ==
  ASSUME AgentTypeOK, KnownIssued, Next
  PROVE  KnownIssued'
<1>1. ASSUME NEW r \in Request, NEW p \in Posts, Post(r, p) PROVE KnownIssued'
  BY <1>1 DEF Post, confirmVars, AgentTypeOK, KnownIssued
<1>2. ASSUME NEW r \in Request, GiveUp(r) PROVE KnownIssued'
  BY <1>2 DEF GiveUp, confirmVars, AgentTypeOK, KnownIssued
<1>3. ASSUME NEW r \in Request, TakeRunLock(r) PROVE KnownIssued'
  BY <1>3 DEF TakeRunLock, confirmVars, AgentTypeOK, KnownIssued
<1>4. ASSUME NEW r \in Request, EnterRefused(r) PROVE KnownIssued'
  BY <1>4 DEF EnterRefused, LeaveOpen, confirmVars, AgentTypeOK, KnownIssued
<1>5. ASSUME NEW r \in Request, EnterConfirm(r) PROVE KnownIssued'
  BY <1>5 DEF EnterConfirm, confirmVars, AgentTypeOK, KnownIssued
<1>6. ASSUME NEW r \in Request, EnterRun(r) PROVE KnownIssued'
  BY <1>6 DEF EnterRun, TakeForThread, Taken, Swept, SweptThread, confirmVars, AgentTypeOK,
       KnownIssued
<1>7. ASSUME NEW r \in Request, RedeemRefused(r) PROVE KnownIssued'
  BY <1>7 DEF RedeemRefused, Leave, confirmVars, AgentTypeOK, KnownIssued
<1>8. ASSUME NEW r \in Request, RedeemToken(r) PROVE KnownIssued'
  <2>1. post[r].token \in Token
    BY <1>8 DEF RedeemToken, Redeem, Redeemable, AgentTypeOK
  <2> QED BY <1>8, <2>1, PendingFields DEF RedeemToken, AgentTypeOK, KnownIssued, Goto,
       HoldsRunLock, Unanswered, InLoop, threadVars, lockVars, stopVars, confirmVars,
       worldVars, Redeem, Use
<1>9. ASSUME NEW r \in Request, FindStale(r) PROVE KnownIssued'
  BY <1>9 DEF FindStale, Leave, confirmVars, AgentTypeOK, KnownIssued
<1>10. ASSUME NEW r \in Request, FindUnchanged(r) PROVE KnownIssued'
  BY <1>10 DEF FindUnchanged, confirmVars, AgentTypeOK, KnownIssued
<1>11. ASSUME NEW r \in Request, StoreConfirmed(r) PROVE KnownIssued'
  BY <1>11 DEF StoreConfirmed, confirmVars, AgentTypeOK, KnownIssued
<1>12. ASSUME NEW r \in Request, CallConfirmed(r) PROVE KnownIssued'
  BY <1>12 DEF CallConfirmed, confirmVars, AgentTypeOK, KnownIssued
<1>13. ASSUME NEW r \in Request, CallConfirmedCrashes(r) PROVE KnownIssued'
  BY <1>13 DEF CallConfirmedCrashes, Leave, confirmVars, AgentTypeOK, KnownIssued
<1>14. ASSUME NEW r \in Request, StoreAnswer(r) PROVE KnownIssued'
  <2>1. run[r].armed \in Token \cup {None}
    BY DEF AgentTypeOK, Run
  <2>2. Len(turns) + 1 \in Nat
    BY DEF AgentTypeOK
  <2> QED BY <1>14, <2>1, <2>2, PendingFields DEF StoreAnswer, AgentTypeOK, KnownIssued, Goto,
       HoldsRunLock, Unanswered, InLoop, threadVars, lockVars, stopVars, confirmVars,
       worldVars, Asked
<1>15. ASSUME NEW r \in Request, ReadBack(r) PROVE KnownIssued'
  BY <1>15 DEF ReadBack, LeaveOpen, confirmVars, AgentTypeOK, KnownIssued
<1>16. ASSUME NEW r \in Request, Close(r) PROVE KnownIssued'
  BY <1>16 DEF Close, confirmVars, AgentTypeOK, KnownIssued
<1>17. ASSUME NEW r \in Request, BusyTimeout(r) PROVE KnownIssued'
  BY <1>17 DEF BusyTimeout, Leave, confirmVars, AgentTypeOK, KnownIssued
<1>18. ASSUME NEW r \in Request, SoftDelete(r) PROVE KnownIssued'
  BY <1>18 DEF SoftDelete, confirmVars, AgentTypeOK, KnownIssued
<1>19. ASSUME NEW r \in Request, DeleteMissing(r) PROVE KnownIssued'
  BY <1>19 DEF DeleteMissing, LeaveOpen, confirmVars, AgentTypeOK, KnownIssued
<1>20. ASSUME NEW r \in Request, Register(r) PROVE KnownIssued'
  BY <1>20 DEF Register, confirmVars, AgentTypeOK, KnownIssued
<1>21. ASSUME NEW r \in Request, StopBeforeTurn(r) PROVE KnownIssued'
  BY <1>21 DEF StopBeforeTurn, EndRun, confirmVars, AgentTypeOK, KnownIssued
<1>22. ASSUME NEW r \in Request, CallProvider(r) PROVE KnownIssued'
  BY <1>22 DEF CallProvider, confirmVars, AgentTypeOK, KnownIssued
<1>23. ASSUME NEW r \in Request, ProviderEndsRun(r) PROVE KnownIssued'
  BY <1>23 DEF ProviderEndsRun, EndRun, confirmVars, AgentTypeOK, KnownIssued
<1>24. ASSUME NEW r \in Request, ProviderCorrected(r) PROVE KnownIssued'
  BY <1>24 DEF ProviderCorrected, confirmVars, AgentTypeOK, KnownIssued
<1>25. ASSUME NEW r \in Request, NEW call \in Call, Propose(r, call) PROVE KnownIssued'
  BY <1>25 DEF Propose, confirmVars, AgentTypeOK, KnownIssued
<1>26. ASSUME NEW r \in Request, SkipRemaining(r) PROVE KnownIssued'
  BY <1>26 DEF SkipRemaining, EndRun, confirmVars, AgentTypeOK, KnownIssued
<1>27. ASSUME NEW r \in Request, StartCall(r) PROVE KnownIssued'
  BY <1>27 DEF StartCall, Dispatched, GateAfter, confirmVars, AgentTypeOK, KnownIssued
<1>28. ASSUME NEW r \in Request, StartConfirmedCall(r) PROVE KnownIssued'
  <2>1. run[r].gate \in Token
    BY <1>28 DEF StartConfirmedCall, Allows, AgentTypeOK, Run
  <2>2. pending' = [pending EXCEPT ![run[r].gate] = Spent(run[r].gate)] /\ byToken' = byToken
    BY <1>28 DEF StartConfirmedCall, Use
  <2> QED BY <1>28, <2>1, <2>2, PendingFields DEF StartConfirmedCall, AgentTypeOK, KnownIssued,
       Goto, HoldsRunLock, Unanswered, InLoop, threadVars, lockVars, stopVars, confirmVars,
       worldVars
<1>29. ASSUME NEW r \in Request, NEW t \in Token, AskFirst(r, t) PROVE KnownIssued'
  <2>1. run[r].call \in Target
    BY <1>29 DEF AskFirst, Gated
  <2> QED BY <1>29, <2>1, PendingFields DEF AskFirst, AgentTypeOK, KnownIssued, Goto,
       HoldsRunLock, Unanswered, InLoop, threadVars, lockVars, stopVars, confirmVars,
       worldVars, Arm, Swept
<1>30. ASSUME NEW r \in Request, CallReturns(r) PROVE KnownIssued'
  BY <1>30 DEF CallReturns, confirmVars, AgentTypeOK, KnownIssued
<1>31. ASSUME NEW r \in Request, CallCrashes(r) PROVE KnownIssued'
  BY <1>31 DEF CallCrashes, EndRun, confirmVars, AgentTypeOK, KnownIssued
<1>32. ASSUME NEW r \in Request, Unregister(r) PROVE KnownIssued'
  BY <1>32 DEF Unregister, confirmVars, AgentTypeOK, KnownIssued
<1>33. ASSUME NEW r \in Request, Delete(r) PROVE KnownIssued'
  BY <1>33 DEF Delete, confirmVars, AgentTypeOK, KnownIssued
<1>34. ASSUME RestoreConversation PROVE KnownIssued'
  BY <1>34 DEF RestoreConversation, confirmVars, AgentTypeOK, KnownIssued
<1>35. ASSUME CancelRun PROVE KnownIssued'
  BY <1>35 DEF CancelRun, confirmVars, AgentTypeOK, KnownIssued
<1>36. ASSUME OtherBegins PROVE KnownIssued'
  BY <1>36 DEF OtherBegins, confirmVars, AgentTypeOK, KnownIssued
<1>37. ASSUME OtherCommits PROVE KnownIssued'
  BY <1>37 DEF OtherCommits, confirmVars, AgentTypeOK, KnownIssued
<1>38. ASSUME NEW t \in Token, Expire(t) PROVE KnownIssued'
  <2> QED BY <1>38, PendingFields DEF Expire, AgentTypeOK, KnownIssued, Goto, HoldsRunLock,
       Unanswered, InLoop, threadVars, lockVars, stopVars, confirmVars, worldVars
<1>39. ASSUME Crash PROVE KnownIssued'
  BY <1>39 DEF Crash, AgentTypeOK, KnownIssued
<1> QED BY <1>1, <1>2, <1>3, <1>4, <1>5, <1>6, <1>7, <1>8, <1>9, <1>10, <1>11, <1>12, <1>13,
     <1>14, <1>15, <1>16, <1>17, <1>18, <1>19, <1>20, <1>21, <1>22, <1>23, <1>24, <1>25, <1>26,
     <1>27, <1>28, <1>29, <1>30, <1>31, <1>32, <1>33, <1>34, <1>35, <1>36, <1>37, <1>38,
     <1>39 DEF Next, PostStep, RunStep

\* A call is accepted in the step that marks its token used, or after it, once.
LEMMA TokenLedgerKept ==
  ASSUME AgentTypeOK, KnownIssued, MeansToken, CheckedUnaccepted, GateUnspent, TokenLedger, Next
  PROVE  TokenLedger'
<1>1. ASSUME NEW r \in Request, NEW p \in Posts, Post(r, p) PROVE TokenLedger'
  BY <1>1 DEF Post, Arrives, Goto, confirmVars, worldVars, AgentTypeOK, KnownIssued,
       MeansToken, CheckedUnaccepted, GateUnspent, TokenLedger
<1>2. ASSUME NEW r \in Request, GiveUp(r) PROVE TokenLedger'
  BY <1>2 DEF GiveUp, Ends, Goto, Set, confirmVars, worldVars, AgentTypeOK, KnownIssued,
       MeansToken, CheckedUnaccepted, GateUnspent, TokenLedger
<1>3. ASSUME NEW r \in Request, TakeRunLock(r) PROVE TokenLedger'
  BY <1>3 DEF TakeRunLock, Goto, confirmVars, worldVars, AgentTypeOK, KnownIssued, MeansToken,
       CheckedUnaccepted, GateUnspent, TokenLedger
<1>4. ASSUME NEW r \in Request, EnterRefused(r) PROVE TokenLedger'
  BY <1>4 DEF EnterRefused, LeaveOpen, Goto, confirmVars, worldVars, AgentTypeOK, KnownIssued,
       MeansToken, CheckedUnaccepted, GateUnspent, TokenLedger
<1>5. ASSUME NEW r \in Request, EnterConfirm(r) PROVE TokenLedger'
  BY <1>5 DEF EnterConfirm, Goto, confirmVars, worldVars, AgentTypeOK, KnownIssued, MeansToken,
       CheckedUnaccepted, GateUnspent, TokenLedger
<1>6. ASSUME NEW r \in Request, EnterRun(r) PROVE TokenLedger'
  BY <1>6 DEF EnterRun, TakeForThread, Taken, Swept, SweptThread, UserTurnOf, Goto, Set,
       confirmVars, worldVars, AgentTypeOK, KnownIssued, MeansToken, CheckedUnaccepted,
       GateUnspent, TokenLedger
<1>7. ASSUME NEW r \in Request, RedeemRefused(r) PROVE TokenLedger'
  BY <1>7 DEF RedeemRefused, Leave, Ends, Goto, Set, confirmVars, worldVars, AgentTypeOK,
       KnownIssued, MeansToken, CheckedUnaccepted, GateUnspent, TokenLedger
<1>8. ASSUME NEW r \in Request, RedeemToken(r) PROVE TokenLedger'
  <2>1. post[r].token \in Token /\ ~pending[post[r].token].used /\ pending[post[r].token].issued
    BY <1>8 DEF RedeemToken, MeansToken, Redeem, Redeemable, KnownIssued
  <2>2. pending' = [pending EXCEPT ![post[r].token] = Spent(post[r].token)] /\ ran' = ran
    BY <1>8 DEF RedeemToken, Redeem, Use, worldVars
  <2>3. Spent(post[r].token).used /\ Spent(post[r].token).issued = pending[post[r].token].issued
    BY <2>1, PendingFields
  <2> QED BY <2>1, <2>2, <2>3 DEF AgentTypeOK, TokenLedger
<1>9. ASSUME NEW r \in Request, FindStale(r) PROVE TokenLedger'
  BY <1>9 DEF FindStale, Leave, Ends, Goto, Set, confirmVars, worldVars, AgentTypeOK,
       KnownIssued, MeansToken, CheckedUnaccepted, GateUnspent, TokenLedger
<1>10. ASSUME NEW r \in Request, FindUnchanged(r) PROVE TokenLedger'
  <2>1. post[r].token \in Token /\ ran[post[r].token] = 0 /\ pending[post[r].token].used
    BY <1>10 DEF FindUnchanged, MeansToken, CheckedUnaccepted
  <2> QED BY <1>10, <2>1 DEF FindUnchanged, AgentTypeOK, TokenLedger, Goto, HoldsRunLock,
       Unanswered, InLoop, threadVars, lockVars, stopVars, confirmVars, worldVars, Accepted
<1>11. ASSUME NEW r \in Request, StoreConfirmed(r) PROVE TokenLedger'
  BY <1>11 DEF StoreConfirmed, UserTurnOf, Goto, confirmVars, worldVars, AgentTypeOK,
       KnownIssued, MeansToken, CheckedUnaccepted, GateUnspent, TokenLedger
<1>12. ASSUME NEW r \in Request, CallConfirmed(r) PROVE TokenLedger'
  BY <1>12 DEF CallConfirmed, Outcome, Goto, Set, confirmVars, AgentTypeOK, KnownIssued,
       MeansToken, CheckedUnaccepted, GateUnspent, TokenLedger
<1>13. ASSUME NEW r \in Request, CallConfirmedCrashes(r) PROVE TokenLedger'
  BY <1>13 DEF CallConfirmedCrashes, Leave, Ends, Goto, Set, confirmVars, worldVars,
       AgentTypeOK, KnownIssued, MeansToken, CheckedUnaccepted, GateUnspent, TokenLedger
<1>14. ASSUME NEW r \in Request, StoreAnswer(r) PROVE TokenLedger'
  <2>1. run[r].armed \in Token \cup {None}
    BY DEF AgentTypeOK, Run
  <2>2. Len(turns) + 1 \in Nat
    BY DEF AgentTypeOK
  <2> QED BY <1>14, <2>1, <2>2, PendingFields DEF StoreAnswer, AgentTypeOK, TokenLedger, Goto,
       HoldsRunLock, Unanswered, InLoop, threadVars, lockVars, stopVars, confirmVars,
       worldVars, Asked
<1>15. ASSUME NEW r \in Request, ReadBack(r) PROVE TokenLedger'
  BY <1>15 DEF ReadBack, LeaveOpen, Goto, confirmVars, worldVars, AgentTypeOK, KnownIssued,
       MeansToken, CheckedUnaccepted, GateUnspent, TokenLedger
<1>16. ASSUME NEW r \in Request, Close(r) PROVE TokenLedger'
  BY <1>16 DEF Close, Ends, Goto, Set, confirmVars, worldVars, AgentTypeOK, KnownIssued,
       MeansToken, CheckedUnaccepted, GateUnspent, TokenLedger
<1>17. ASSUME NEW r \in Request, BusyTimeout(r) PROVE TokenLedger'
  BY <1>17 DEF BusyTimeout, Leave, Ends, Goto, Set, confirmVars, worldVars, AgentTypeOK,
       KnownIssued, MeansToken, CheckedUnaccepted, GateUnspent, TokenLedger
<1>18. ASSUME NEW r \in Request, SoftDelete(r) PROVE TokenLedger'
  BY <1>18 DEF SoftDelete, Goto, confirmVars, worldVars, AgentTypeOK, KnownIssued, MeansToken,
       CheckedUnaccepted, GateUnspent, TokenLedger
<1>19. ASSUME NEW r \in Request, DeleteMissing(r) PROVE TokenLedger'
  BY <1>19 DEF DeleteMissing, LeaveOpen, Goto, confirmVars, worldVars, AgentTypeOK,
       KnownIssued, MeansToken, CheckedUnaccepted, GateUnspent, TokenLedger
<1>20. ASSUME NEW r \in Request, Register(r) PROVE TokenLedger'
  BY <1>20 DEF Register, Goto, confirmVars, worldVars, AgentTypeOK, KnownIssued, MeansToken,
       CheckedUnaccepted, GateUnspent, TokenLedger
<1>21. ASSUME NEW r \in Request, StopBeforeTurn(r) PROVE TokenLedger'
  BY <1>21 DEF StopBeforeTurn, EndRun, Outcome, Goto, Set, confirmVars, worldVars, AgentTypeOK,
       KnownIssued, MeansToken, CheckedUnaccepted, GateUnspent, TokenLedger
<1>22. ASSUME NEW r \in Request, CallProvider(r) PROVE TokenLedger'
  BY <1>22 DEF CallProvider, Goto, Set, confirmVars, worldVars, AgentTypeOK, KnownIssued,
       MeansToken, CheckedUnaccepted, GateUnspent, TokenLedger
<1>23. ASSUME NEW r \in Request, ProviderEndsRun(r) PROVE TokenLedger'
  BY <1>23 DEF ProviderEndsRun, EndRun, Outcome, Goto, Set, confirmVars, worldVars,
       AgentTypeOK, KnownIssued, MeansToken, CheckedUnaccepted, GateUnspent, TokenLedger
<1>24. ASSUME NEW r \in Request, ProviderCorrected(r) PROVE TokenLedger'
  BY <1>24 DEF ProviderCorrected, Goto, confirmVars, worldVars, AgentTypeOK, KnownIssued,
       MeansToken, CheckedUnaccepted, GateUnspent, TokenLedger
<1>25. ASSUME NEW r \in Request, NEW call \in Call, Propose(r, call) PROVE TokenLedger'
  BY <1>25 DEF Propose, Goto, Set, confirmVars, worldVars, AgentTypeOK, KnownIssued,
       MeansToken, CheckedUnaccepted, GateUnspent, TokenLedger
<1>26. ASSUME NEW r \in Request, SkipRemaining(r) PROVE TokenLedger'
  BY <1>26 DEF SkipRemaining, EndRun, Outcome, Goto, Set, confirmVars, worldVars, AgentTypeOK,
       KnownIssued, MeansToken, CheckedUnaccepted, GateUnspent, TokenLedger
<1>27. ASSUME NEW r \in Request, StartCall(r) PROVE TokenLedger'
  BY <1>27 DEF StartCall, CallStarts, Dispatched, GateAfter, Goto, Set, confirmVars, worldVars,
       AgentTypeOK, KnownIssued, MeansToken, CheckedUnaccepted, GateUnspent, TokenLedger
<1>28. ASSUME NEW r \in Request, StartConfirmedCall(r) PROVE TokenLedger'
  <2>1. run[r].gate \in Token
    BY <1>28 DEF StartConfirmedCall, Allows, AgentTypeOK, Run
  <2>2. ran[run[r].gate] = 0 /\ pending[run[r].gate].issued /\ ~pending[run[r].gate].used
    BY <2>1, NoneIsNoRequest DEF GateUnspent, TokenLedger
  <2>3. pending' = [pending EXCEPT ![run[r].gate] = Spent(run[r].gate)]
    BY <1>28 DEF StartConfirmedCall, Use
  <2>4. ran' = [ran EXCEPT ![run[r].gate] = 1]
    BY <2>2, <1>28 DEF StartConfirmedCall, Accepted
  <2>5. Spent(run[r].gate).used /\ Spent(run[r].gate).issued = pending[run[r].gate].issued
    BY <2>1, PendingFields
  <2>6. ran'[run[r].gate] = 1 /\ pending'[run[r].gate] = Spent(run[r].gate)
    BY <2>1, <2>3, <2>4 DEF AgentTypeOK
  <2>7. \A t \in Token : t # run[r].gate => ran'[t] = ran[t] /\ pending'[t] = pending[t]
    BY <2>3, <2>4 DEF AgentTypeOK
  <2>8. \A t \in Token : ran'[t] <= 1
    BY <2>6, <2>7 DEF TokenLedger
  <2>9. \A t \in Token : ~pending'[t].issued => ~pending'[t].used
    BY <2>2, <2>5, <2>6, <2>7 DEF TokenLedger
  <2>10. \A t \in Token : ~pending'[t].used => ran'[t] = 0
    BY <2>5, <2>6, <2>7 DEF TokenLedger
  <2> QED BY <2>8, <2>9, <2>10 DEF TokenLedger
<1>29. ASSUME NEW r \in Request, NEW t \in Token, AskFirst(r, t) PROVE TokenLedger'
  <2>1. run[r].call \in Target
    BY <1>29 DEF AskFirst, Gated
  <2> QED BY <1>29, <2>1, PendingFields DEF AskFirst, AgentTypeOK, TokenLedger, Goto,
       HoldsRunLock, Unanswered, InLoop, threadVars, lockVars, stopVars, confirmVars,
       worldVars, Arm
<1>30. ASSUME NEW r \in Request, CallReturns(r) PROVE TokenLedger'
  BY <1>30 DEF CallReturns, Goto, Set, confirmVars, AgentTypeOK, KnownIssued, MeansToken,
       CheckedUnaccepted, GateUnspent, TokenLedger
<1>31. ASSUME NEW r \in Request, CallCrashes(r) PROVE TokenLedger'
  BY <1>31 DEF CallCrashes, EndRun, Outcome, Goto, Set, confirmVars, worldVars, AgentTypeOK,
       KnownIssued, MeansToken, CheckedUnaccepted, GateUnspent, TokenLedger
<1>32. ASSUME NEW r \in Request, Unregister(r) PROVE TokenLedger'
  BY <1>32 DEF Unregister, Goto, confirmVars, worldVars, AgentTypeOK, KnownIssued, MeansToken,
       CheckedUnaccepted, GateUnspent, TokenLedger
<1>33. ASSUME NEW r \in Request, Delete(r) PROVE TokenLedger'
  BY <1>33 DEF Delete, Arrives, Goto, confirmVars, worldVars, AgentTypeOK, KnownIssued,
       MeansToken, CheckedUnaccepted, GateUnspent, TokenLedger
<1>34. ASSUME RestoreConversation PROVE TokenLedger'
  BY <1>34 DEF RestoreConversation, confirmVars, worldVars, AgentTypeOK, KnownIssued,
       MeansToken, CheckedUnaccepted, GateUnspent, TokenLedger
<1>35. ASSUME CancelRun PROVE TokenLedger'
  BY <1>35 DEF CancelRun, confirmVars, worldVars, AgentTypeOK, KnownIssued, MeansToken,
       CheckedUnaccepted, GateUnspent, TokenLedger
<1>36. ASSUME OtherBegins PROVE TokenLedger'
  BY <1>36 DEF OtherBegins, confirmVars, worldVars, AgentTypeOK, KnownIssued, MeansToken,
       CheckedUnaccepted, GateUnspent, TokenLedger
<1>37. ASSUME OtherCommits PROVE TokenLedger'
  BY <1>37 DEF OtherCommits, confirmVars, AgentTypeOK, KnownIssued, MeansToken,
       CheckedUnaccepted, GateUnspent, TokenLedger
<1>38. ASSUME NEW t \in Token, Expire(t) PROVE TokenLedger'
  <2> QED BY <1>38, PendingFields DEF Expire, AgentTypeOK, TokenLedger, Goto, HoldsRunLock,
       Unanswered, InLoop, threadVars, lockVars, stopVars, confirmVars, worldVars
<1>39. ASSUME Crash PROVE TokenLedger'
  BY <1>39 DEF Crash, worldVars, AgentTypeOK, KnownIssued, MeansToken, CheckedUnaccepted,
       GateUnspent, TokenLedger
<1> QED BY <1>1, <1>2, <1>3, <1>4, <1>5, <1>6, <1>7, <1>8, <1>9, <1>10, <1>11, <1>12, <1>13,
     <1>14, <1>15, <1>16, <1>17, <1>18, <1>19, <1>20, <1>21, <1>22, <1>23, <1>24, <1>25, <1>26,
     <1>27, <1>28, <1>29, <1>30, <1>31, <1>32, <1>33, <1>34, <1>35, <1>36, <1>37, <1>38,
     <1>39 DEF Next, PostStep, RunStep

\* Redeeming marks the token used, so that nobody else can have it accepted before the
\* request that redeemed it checks its row.
LEMMA CheckedUnacceptedKept ==
  ASSUME AgentTypeOK, OneAtATime, MeansToken, TokenLedger, CheckedUnaccepted, Next
  PROVE  CheckedUnaccepted'
<1>1. ASSUME NEW r \in Request, NEW p \in Posts, Post(r, p) PROVE CheckedUnaccepted'
  BY <1>1 DEF Post, Arrives, Goto, lockVars, confirmVars, worldVars, AgentTypeOK, OneAtATime,
       MeansToken, TokenLedger, CheckedUnaccepted, HoldsRunLock, Unanswered, InLoop
<1>2. ASSUME NEW r \in Request, GiveUp(r) PROVE CheckedUnaccepted'
  BY <1>2 DEF GiveUp, Ends, Goto, lockVars, confirmVars, worldVars, AgentTypeOK, OneAtATime,
       MeansToken, TokenLedger, CheckedUnaccepted, HoldsRunLock, Unanswered, InLoop
<1>3. ASSUME NEW r \in Request, TakeRunLock(r) PROVE CheckedUnaccepted'
  BY <1>3 DEF TakeRunLock, Goto, confirmVars, worldVars, AgentTypeOK, OneAtATime, MeansToken,
       TokenLedger, CheckedUnaccepted, HoldsRunLock, Unanswered, InLoop
<1>4. ASSUME NEW r \in Request, EnterRefused(r) PROVE CheckedUnaccepted'
  BY <1>4 DEF EnterRefused, LeaveOpen, Goto, confirmVars, worldVars, AgentTypeOK, OneAtATime,
       MeansToken, TokenLedger, CheckedUnaccepted, HoldsRunLock, Unanswered, InLoop
<1>5. ASSUME NEW r \in Request, EnterConfirm(r) PROVE CheckedUnaccepted'
  BY <1>5 DEF EnterConfirm, Goto, lockVars, confirmVars, worldVars, AgentTypeOK, OneAtATime,
       MeansToken, TokenLedger, CheckedUnaccepted, HoldsRunLock, Unanswered, InLoop
<1>6. ASSUME NEW r \in Request, EnterRun(r) PROVE CheckedUnaccepted'
  BY <1>6 DEF EnterRun, TakeForThread, Taken, Swept, SweptThread, UserTurnOf, Goto, lockVars,
       confirmVars, worldVars, AgentTypeOK, OneAtATime, MeansToken, TokenLedger,
       CheckedUnaccepted, HoldsRunLock, Unanswered, InLoop
<1>7. ASSUME NEW r \in Request, RedeemRefused(r) PROVE CheckedUnaccepted'
  BY <1>7 DEF RedeemRefused, Leave, Ends, Goto, confirmVars, worldVars, AgentTypeOK,
       OneAtATime, MeansToken, TokenLedger, CheckedUnaccepted, HoldsRunLock, Unanswered, InLoop
<1>8. ASSUME NEW r \in Request, RedeemToken(r) PROVE CheckedUnaccepted'
  <2>1. post[r].token \in Token /\ ~pending[post[r].token].used
    BY <1>8 DEF RedeemToken, MeansToken, Redeem, Redeemable
  <2>2. pending' = [pending EXCEPT ![post[r].token] = Spent(post[r].token)] /\ ran' = ran
    BY <1>8 DEF RedeemToken, Redeem, Use, worldVars
  <2>3. ran[post[r].token] = 0
    BY <2>1 DEF TokenLedger
  <2> QED BY <1>8, <2>1, <2>2, <2>3, PendingFields DEF RedeemToken, AgentTypeOK,
       CheckedUnaccepted, Goto, HoldsRunLock, Unanswered, InLoop, threadVars, lockVars,
       stopVars, confirmVars, worldVars, OneAtATime, MeansToken
<1>9. ASSUME NEW r \in Request, FindStale(r) PROVE CheckedUnaccepted'
  BY <1>9 DEF FindStale, Leave, Ends, Goto, confirmVars, worldVars, AgentTypeOK, OneAtATime,
       MeansToken, TokenLedger, CheckedUnaccepted, HoldsRunLock, Unanswered, InLoop
<1>10. ASSUME NEW r \in Request, FindUnchanged(r) PROVE CheckedUnaccepted'
  BY <1>10 DEF FindUnchanged, Accepted, Goto, lockVars, confirmVars, AgentTypeOK, OneAtATime,
       MeansToken, TokenLedger, CheckedUnaccepted, HoldsRunLock, Unanswered, InLoop
<1>11. ASSUME NEW r \in Request, StoreConfirmed(r) PROVE CheckedUnaccepted'
  BY <1>11 DEF StoreConfirmed, UserTurnOf, Goto, lockVars, confirmVars, worldVars, AgentTypeOK,
       OneAtATime, MeansToken, TokenLedger, CheckedUnaccepted, HoldsRunLock, Unanswered, InLoop
<1>12. ASSUME NEW r \in Request, CallConfirmed(r) PROVE CheckedUnaccepted'
  BY <1>12 DEF CallConfirmed, Goto, lockVars, confirmVars, AgentTypeOK, OneAtATime, MeansToken,
       TokenLedger, CheckedUnaccepted, HoldsRunLock, Unanswered, InLoop
<1>13. ASSUME NEW r \in Request, CallConfirmedCrashes(r) PROVE CheckedUnaccepted'
  BY <1>13 DEF CallConfirmedCrashes, Leave, Ends, Goto, confirmVars, worldVars, AgentTypeOK,
       OneAtATime, MeansToken, TokenLedger, CheckedUnaccepted, HoldsRunLock, Unanswered, InLoop
<1>14. ASSUME NEW r \in Request, StoreAnswer(r) PROVE CheckedUnaccepted'
  BY <1>14 DEF StoreAnswer, Asked, Goto, lockVars, worldVars, AgentTypeOK, OneAtATime,
       MeansToken, TokenLedger, CheckedUnaccepted, HoldsRunLock, Unanswered, InLoop
<1>15. ASSUME NEW r \in Request, ReadBack(r) PROVE CheckedUnaccepted'
  BY <1>15 DEF ReadBack, LeaveOpen, Goto, confirmVars, worldVars, AgentTypeOK, OneAtATime,
       MeansToken, TokenLedger, CheckedUnaccepted, HoldsRunLock, Unanswered, InLoop
<1>16. ASSUME NEW r \in Request, Close(r) PROVE CheckedUnaccepted'
  BY <1>16 DEF Close, Ends, Goto, confirmVars, worldVars, AgentTypeOK, OneAtATime, MeansToken,
       TokenLedger, CheckedUnaccepted, HoldsRunLock, Unanswered, InLoop
<1>17. ASSUME NEW r \in Request, BusyTimeout(r) PROVE CheckedUnaccepted'
  BY <1>17 DEF BusyTimeout, Leave, Ends, Goto, confirmVars, worldVars, AgentTypeOK, OneAtATime,
       MeansToken, TokenLedger, CheckedUnaccepted, HoldsRunLock, Unanswered, InLoop
<1>18. ASSUME NEW r \in Request, SoftDelete(r) PROVE CheckedUnaccepted'
  BY <1>18 DEF SoftDelete, Goto, confirmVars, worldVars, AgentTypeOK, OneAtATime, MeansToken,
       TokenLedger, CheckedUnaccepted, HoldsRunLock, Unanswered, InLoop
<1>19. ASSUME NEW r \in Request, DeleteMissing(r) PROVE CheckedUnaccepted'
  BY <1>19 DEF DeleteMissing, LeaveOpen, Goto, confirmVars, worldVars, AgentTypeOK, OneAtATime,
       MeansToken, TokenLedger, CheckedUnaccepted, HoldsRunLock, Unanswered, InLoop
<1>20. ASSUME NEW r \in Request, Register(r) PROVE CheckedUnaccepted'
  BY <1>20 DEF Register, Goto, lockVars, confirmVars, worldVars, AgentTypeOK, OneAtATime,
       MeansToken, TokenLedger, CheckedUnaccepted, HoldsRunLock, Unanswered, InLoop
<1>21. ASSUME NEW r \in Request, StopBeforeTurn(r) PROVE CheckedUnaccepted'
  BY <1>21 DEF StopBeforeTurn, EndRun, Goto, lockVars, confirmVars, worldVars, AgentTypeOK,
       OneAtATime, MeansToken, TokenLedger, CheckedUnaccepted, HoldsRunLock, Unanswered, InLoop
<1>22. ASSUME NEW r \in Request, CallProvider(r) PROVE CheckedUnaccepted'
  BY <1>22 DEF CallProvider, Goto, lockVars, confirmVars, worldVars, AgentTypeOK, OneAtATime,
       MeansToken, TokenLedger, CheckedUnaccepted, HoldsRunLock, Unanswered, InLoop
<1>23. ASSUME NEW r \in Request, ProviderEndsRun(r) PROVE CheckedUnaccepted'
  BY <1>23 DEF ProviderEndsRun, EndRun, Goto, lockVars, confirmVars, worldVars, AgentTypeOK,
       OneAtATime, MeansToken, TokenLedger, CheckedUnaccepted, HoldsRunLock, Unanswered, InLoop
<1>24. ASSUME NEW r \in Request, ProviderCorrected(r) PROVE CheckedUnaccepted'
  BY <1>24 DEF ProviderCorrected, Goto, lockVars, confirmVars, worldVars, AgentTypeOK,
       OneAtATime, MeansToken, TokenLedger, CheckedUnaccepted, HoldsRunLock, Unanswered, InLoop
<1>25. ASSUME NEW r \in Request, NEW call \in Call, Propose(r, call) PROVE CheckedUnaccepted'
  BY <1>25 DEF Propose, Goto, lockVars, confirmVars, worldVars, AgentTypeOK, OneAtATime,
       MeansToken, TokenLedger, CheckedUnaccepted, HoldsRunLock, Unanswered, InLoop
<1>26. ASSUME NEW r \in Request, SkipRemaining(r) PROVE CheckedUnaccepted'
  BY <1>26 DEF SkipRemaining, EndRun, Goto, lockVars, confirmVars, worldVars, AgentTypeOK,
       OneAtATime, MeansToken, TokenLedger, CheckedUnaccepted, HoldsRunLock, Unanswered, InLoop
<1>27. ASSUME NEW r \in Request, StartCall(r) PROVE CheckedUnaccepted'
  BY <1>27 DEF StartCall, CallStarts, Dispatched, GateAfter, Goto, lockVars, confirmVars,
       worldVars, AgentTypeOK, OneAtATime, MeansToken, TokenLedger, CheckedUnaccepted,
       HoldsRunLock, Unanswered, InLoop
<1>28. ASSUME NEW r \in Request, StartConfirmedCall(r) PROVE CheckedUnaccepted'
  BY <1>28 DEF StartConfirmedCall, CallStarts, Dispatched, GateAfter, Allows, Use, Accepted,
       Goto, lockVars, AgentTypeOK, OneAtATime, MeansToken, TokenLedger, CheckedUnaccepted,
       HoldsRunLock, Unanswered, InLoop
<1>29. ASSUME NEW r \in Request, NEW t \in Token, AskFirst(r, t) PROVE CheckedUnaccepted'
  BY <1>29 DEF AskFirst, CallStarts, Arm, Swept, SweptThread, Goto, lockVars, worldVars,
       AgentTypeOK, OneAtATime, MeansToken, TokenLedger, CheckedUnaccepted, HoldsRunLock,
       Unanswered, InLoop
<1>30. ASSUME NEW r \in Request, CallReturns(r) PROVE CheckedUnaccepted'
  BY <1>30 DEF CallReturns, Goto, lockVars, confirmVars, AgentTypeOK, OneAtATime, MeansToken,
       TokenLedger, CheckedUnaccepted, HoldsRunLock, Unanswered, InLoop
<1>31. ASSUME NEW r \in Request, CallCrashes(r) PROVE CheckedUnaccepted'
  BY <1>31 DEF CallCrashes, EndRun, Goto, lockVars, confirmVars, worldVars, AgentTypeOK,
       OneAtATime, MeansToken, TokenLedger, CheckedUnaccepted, HoldsRunLock, Unanswered, InLoop
<1>32. ASSUME NEW r \in Request, Unregister(r) PROVE CheckedUnaccepted'
  BY <1>32 DEF Unregister, Goto, lockVars, confirmVars, worldVars, AgentTypeOK, OneAtATime,
       MeansToken, TokenLedger, CheckedUnaccepted, HoldsRunLock, Unanswered, InLoop
<1>33. ASSUME NEW r \in Request, Delete(r) PROVE CheckedUnaccepted'
  BY <1>33 DEF Delete, Arrives, Goto, confirmVars, worldVars, AgentTypeOK, OneAtATime,
       MeansToken, TokenLedger, CheckedUnaccepted, HoldsRunLock, Unanswered, InLoop
<1>34. ASSUME RestoreConversation PROVE CheckedUnaccepted'
  BY <1>34 DEF RestoreConversation, lockVars, confirmVars, worldVars, AgentTypeOK, OneAtATime,
       MeansToken, TokenLedger, CheckedUnaccepted, HoldsRunLock, Unanswered, InLoop
<1>35. ASSUME CancelRun PROVE CheckedUnaccepted'
  BY <1>35 DEF CancelRun, lockVars, confirmVars, worldVars, AgentTypeOK, OneAtATime,
       MeansToken, TokenLedger, CheckedUnaccepted, HoldsRunLock, Unanswered, InLoop
<1>36. ASSUME OtherBegins PROVE CheckedUnaccepted'
  BY <1>36 DEF OtherBegins, confirmVars, worldVars, AgentTypeOK, OneAtATime, MeansToken,
       TokenLedger, CheckedUnaccepted, HoldsRunLock, Unanswered, InLoop
<1>37. ASSUME OtherCommits PROVE CheckedUnaccepted'
  BY <1>37 DEF OtherCommits, confirmVars, AgentTypeOK, OneAtATime, MeansToken, TokenLedger,
       CheckedUnaccepted, HoldsRunLock, Unanswered, InLoop
<1>38. ASSUME NEW t \in Token, Expire(t) PROVE CheckedUnaccepted'
  BY <1>38, PendingFields DEF Expire, lockVars, worldVars, AgentTypeOK, OneAtATime, MeansToken,
       TokenLedger, CheckedUnaccepted, HoldsRunLock, Unanswered, InLoop
<1>39. ASSUME Crash PROVE CheckedUnaccepted'
  BY <1>39 DEF Crash, worldVars, AgentTypeOK, OneAtATime, MeansToken, TokenLedger,
       CheckedUnaccepted, HoldsRunLock, Unanswered, InLoop
<1> QED BY <1>1, <1>2, <1>3, <1>4, <1>5, <1>6, <1>7, <1>8, <1>9, <1>10, <1>11, <1>12, <1>13,
     <1>14, <1>15, <1>16, <1>17, <1>18, <1>19, <1>20, <1>21, <1>22, <1>23, <1>24, <1>25, <1>26,
     <1>27, <1>28, <1>29, <1>30, <1>31, <1>32, <1>33, <1>34, <1>35, <1>36, <1>37, <1>38,
     <1>39 DEF Next, PostStep, RunStep

\* A delegate's message takes the token off the thread; whoever could use it by its
\* token must hold the run lock, which the delegate's request does.
LEMMA GateUnspentKept ==
  ASSUME AgentTypeOK, KnownIssued, OneAtATime, MeansToken, GateUnspent, Next
  PROVE  GateUnspent'
<1>1. ASSUME NEW r \in Request, NEW p \in Posts, Post(r, p) PROVE GateUnspent'
  BY <1>1 DEF Post, Arrives, Goto, lockVars, confirmVars, AgentTypeOK, KnownIssued, OneAtATime,
       MeansToken, GateUnspent, HoldsRunLock, Unanswered, InLoop
<1>2. ASSUME NEW r \in Request, GiveUp(r) PROVE GateUnspent'
  <2>1. run' = [run EXCEPT ![r] = NoRun]
    BY <1>2 DEF GiveUp, Set, Ends
  <2>2. NoRun.gate = None
    BY NoRunTyped
  <2> QED BY <1>2, <2>1, <2>2, NoneIsNoRequest DEF GiveUp, AgentTypeOK, GateUnspent, Goto,
       HoldsRunLock, Unanswered, InLoop, threadVars, lockVars, stopVars, confirmVars,
       worldVars, OneAtATime, Ends
<1>3. ASSUME NEW r \in Request, TakeRunLock(r) PROVE GateUnspent'
  BY <1>3 DEF TakeRunLock, Goto, confirmVars, AgentTypeOK, KnownIssued, OneAtATime, MeansToken,
       GateUnspent, HoldsRunLock, Unanswered, InLoop
<1>4. ASSUME NEW r \in Request, EnterRefused(r) PROVE GateUnspent'
  BY <1>4 DEF EnterRefused, LeaveOpen, Goto, confirmVars, AgentTypeOK, KnownIssued, OneAtATime,
       MeansToken, GateUnspent, HoldsRunLock, Unanswered, InLoop
<1>5. ASSUME NEW r \in Request, EnterConfirm(r) PROVE GateUnspent'
  BY <1>5 DEF EnterConfirm, Goto, lockVars, confirmVars, AgentTypeOK, KnownIssued, OneAtATime,
       MeansToken, GateUnspent, HoldsRunLock, Unanswered, InLoop
<1>6. ASSUME NEW r \in Request, EnterRun(r) PROVE GateUnspent'
  <2>1. CASE post[r].delegate
    <3>1. run' = [run EXCEPT ![r] = Answering(r, Taken)] /\ pending' = pending
      BY <1>6, <2>1 DEF EnterRun, TakeForThread, Set
    <3>2. Taken \in Token \cup {None} /\ (Taken # None => pending[Taken].issued /\ ~pending[Taken].used)
      BY DEF Taken, SweptThread, Swept, AgentTypeOK, KnownIssued
    <3>3. Answering(r, Taken).gate = Taken
      BY <3>2, RunFields DEF Call
    <3> QED BY <1>6, <3>1, <3>2, <3>3 DEF EnterRun, AgentTypeOK, GateUnspent, Goto
  <2>2. CASE ~post[r].delegate
    BY <1>6, <2>2 DEF EnterRun, AgentTypeOK, GateUnspent, Goto, confirmVars
  <2> QED BY <1>6, <2>1, <2>2 DEF EnterRun, AgentTypeOK, GateUnspent, Goto, HoldsRunLock,
       Unanswered, InLoop, threadVars, lockVars, stopVars, confirmVars, worldVars
<1>7. ASSUME NEW r \in Request, RedeemRefused(r) PROVE GateUnspent'
  <2>1. run' = [run EXCEPT ![r] = NoRun]
    BY <1>7 DEF RedeemRefused, Set, Leave, Ends
  <2>2. NoRun.gate = None
    BY NoRunTyped
  <2> QED BY <1>7, <2>1, <2>2, NoneIsNoRequest DEF RedeemRefused, AgentTypeOK, GateUnspent,
       Goto, HoldsRunLock, Unanswered, InLoop, threadVars, lockVars, stopVars, confirmVars,
       worldVars, OneAtATime, Leave, Ends
<1>8. ASSUME NEW r \in Request, RedeemToken(r) PROVE GateUnspent'
  <2>1. \A q \in Request : run[q].gate = None
    BY <1>8 DEF RedeemToken, OneAtATime, GateUnspent, HoldsRunLock, Unanswered, InLoop
  <2>2. run' = run
    BY <1>8 DEF RedeemToken
  <2> QED BY <1>8, <2>1, <2>2 DEF RedeemToken, AgentTypeOK, GateUnspent, Goto, HoldsRunLock,
       Unanswered, InLoop, threadVars, lockVars, stopVars, confirmVars, worldVars
<1>9. ASSUME NEW r \in Request, FindStale(r) PROVE GateUnspent'
  <2>1. run' = [run EXCEPT ![r] = NoRun]
    BY <1>9 DEF FindStale, Set, Leave, Ends
  <2>2. NoRun.gate = None
    BY NoRunTyped
  <2> QED BY <1>9, <2>1, <2>2, NoneIsNoRequest DEF FindStale, AgentTypeOK, GateUnspent, Goto,
       HoldsRunLock, Unanswered, InLoop, threadVars, lockVars, stopVars, confirmVars,
       worldVars, OneAtATime, Leave, Ends
<1>10. ASSUME NEW r \in Request, FindUnchanged(r) PROVE GateUnspent'
  <2>1. run' = [run EXCEPT ![r] = Calling(r, pending[post[r].token].call)]
    BY <1>10 DEF FindUnchanged, Set
  <2>2. Calling(r, pending[post[r].token].call).gate = run[r].gate
    <3>1. pending[post[r].token].call \in Call
      BY <1>10 DEF FindUnchanged, MeansToken, AgentTypeOK, Pending
    <3> QED BY <3>1, RunFields
  <2> QED BY <1>10, <2>1, <2>2, NoneIsNoRequest DEF FindUnchanged, AgentTypeOK, GateUnspent,
       Goto, HoldsRunLock, Unanswered, InLoop, threadVars, lockVars, stopVars, confirmVars,
       worldVars, OneAtATime
<1>11. ASSUME NEW r \in Request, StoreConfirmed(r) PROVE GateUnspent'
  BY <1>11 DEF StoreConfirmed, UserTurnOf, Goto, lockVars, confirmVars, AgentTypeOK,
       KnownIssued, OneAtATime, MeansToken, GateUnspent, HoldsRunLock, Unanswered, InLoop
<1>12. ASSUME NEW r \in Request, CallConfirmed(r) PROVE GateUnspent'
  <2>1. run' = [run EXCEPT ![r] = Asking(run[r].armed)]
    BY <1>12 DEF CallConfirmed, Set, Outcome
  <2>2. Asking(run[r].armed).gate = None
    <3>1. run[r].armed \in Token \cup {None}
      BY DEF AgentTypeOK, Run
    <3> QED BY <3>1, RunFields DEF Call
  <2> QED BY <1>12, <2>1, <2>2, NoneIsNoRequest DEF CallConfirmed, AgentTypeOK, GateUnspent,
       Goto, HoldsRunLock, Unanswered, InLoop, threadVars, lockVars, stopVars, confirmVars,
       worldVars, OneAtATime, Outcome
<1>13. ASSUME NEW r \in Request, CallConfirmedCrashes(r) PROVE GateUnspent'
  <2>1. run' = [run EXCEPT ![r] = NoRun]
    BY <1>13 DEF CallConfirmedCrashes, Set, Leave, Ends
  <2>2. NoRun.gate = None
    BY NoRunTyped
  <2> QED BY <1>13, <2>1, <2>2, NoneIsNoRequest DEF CallConfirmedCrashes, AgentTypeOK,
       GateUnspent, Goto, HoldsRunLock, Unanswered, InLoop, threadVars, lockVars, stopVars,
       confirmVars, worldVars, OneAtATime, Leave, Ends
<1>14. ASSUME NEW r \in Request, StoreAnswer(r) PROVE GateUnspent'
  BY <1>14 DEF StoreAnswer, Asked, Goto, lockVars, AgentTypeOK, KnownIssued, OneAtATime,
       MeansToken, GateUnspent, HoldsRunLock, Unanswered, InLoop
<1>15. ASSUME NEW r \in Request, ReadBack(r) PROVE GateUnspent'
  BY <1>15 DEF ReadBack, LeaveOpen, Goto, confirmVars, AgentTypeOK, KnownIssued, OneAtATime,
       MeansToken, GateUnspent, HoldsRunLock, Unanswered, InLoop
<1>16. ASSUME NEW r \in Request, Close(r) PROVE GateUnspent'
  <2>1. run' = [run EXCEPT ![r] = NoRun]
    BY <1>16 DEF Close, Set, Ends
  <2>2. NoRun.gate = None
    BY NoRunTyped
  <2> QED BY <1>16, <2>1, <2>2, NoneIsNoRequest DEF Close, AgentTypeOK, GateUnspent, Goto,
       HoldsRunLock, Unanswered, InLoop, threadVars, lockVars, stopVars, confirmVars,
       worldVars, OneAtATime, Ends
<1>17. ASSUME NEW r \in Request, BusyTimeout(r) PROVE GateUnspent'
  <2>1. run' = [run EXCEPT ![r] = NoRun]
    BY <1>17 DEF BusyTimeout, Set, Leave, Ends
  <2>2. NoRun.gate = None
    BY NoRunTyped
  <2> QED BY <1>17, <2>1, <2>2, NoneIsNoRequest DEF BusyTimeout, AgentTypeOK, GateUnspent,
       Goto, HoldsRunLock, Unanswered, InLoop, threadVars, lockVars, stopVars, confirmVars,
       worldVars, OneAtATime, Leave, Ends
<1>18. ASSUME NEW r \in Request, SoftDelete(r) PROVE GateUnspent'
  BY <1>18 DEF SoftDelete, Goto, confirmVars, AgentTypeOK, KnownIssued, OneAtATime, MeansToken,
       GateUnspent, HoldsRunLock, Unanswered, InLoop
<1>19. ASSUME NEW r \in Request, DeleteMissing(r) PROVE GateUnspent'
  BY <1>19 DEF DeleteMissing, LeaveOpen, Goto, confirmVars, AgentTypeOK, KnownIssued,
       OneAtATime, MeansToken, GateUnspent, HoldsRunLock, Unanswered, InLoop
<1>20. ASSUME NEW r \in Request, Register(r) PROVE GateUnspent'
  BY <1>20 DEF Register, Goto, lockVars, confirmVars, AgentTypeOK, KnownIssued, OneAtATime,
       MeansToken, GateUnspent, HoldsRunLock, Unanswered, InLoop
<1>21. ASSUME NEW r \in Request, StopBeforeTurn(r) PROVE GateUnspent'
  <2>1. run' = [run EXCEPT ![r] = Asking(run[r].armed)]
    BY <1>21 DEF StopBeforeTurn, Set, EndRun, Outcome
  <2>2. Asking(run[r].armed).gate = None
    <3>1. run[r].armed \in Token \cup {None}
      BY DEF AgentTypeOK, Run
    <3> QED BY <3>1, RunFields DEF Call
  <2> QED BY <1>21, <2>1, <2>2, NoneIsNoRequest DEF StopBeforeTurn, AgentTypeOK, GateUnspent,
       Goto, HoldsRunLock, Unanswered, InLoop, threadVars, lockVars, stopVars, confirmVars,
       worldVars, OneAtATime, EndRun, Outcome
<1>22. ASSUME NEW r \in Request, CallProvider(r) PROVE GateUnspent'
  <2>1. run' = [run EXCEPT ![r] = OneMoreTurn(r)]
    BY <1>22 DEF CallProvider, Set
  <2>2. OneMoreTurn(r).gate = run[r].gate
    BY RunFields DEF Call
  <2> QED BY <1>22, <2>1, <2>2, NoneIsNoRequest DEF CallProvider, AgentTypeOK, GateUnspent,
       Goto, HoldsRunLock, Unanswered, InLoop, threadVars, lockVars, stopVars, confirmVars,
       worldVars, OneAtATime
<1>23. ASSUME NEW r \in Request, ProviderEndsRun(r) PROVE GateUnspent'
  <2>1. run' = [run EXCEPT ![r] = Asking(run[r].armed)]
    BY <1>23 DEF ProviderEndsRun, Set, EndRun, Outcome
  <2>2. Asking(run[r].armed).gate = None
    <3>1. run[r].armed \in Token \cup {None}
      BY DEF AgentTypeOK, Run
    <3> QED BY <3>1, RunFields DEF Call
  <2> QED BY <1>23, <2>1, <2>2, NoneIsNoRequest DEF ProviderEndsRun, AgentTypeOK, GateUnspent,
       Goto, HoldsRunLock, Unanswered, InLoop, threadVars, lockVars, stopVars, confirmVars,
       worldVars, OneAtATime, EndRun, Outcome
<1>24. ASSUME NEW r \in Request, ProviderCorrected(r) PROVE GateUnspent'
  BY <1>24 DEF ProviderCorrected, Goto, lockVars, confirmVars, AgentTypeOK, KnownIssued,
       OneAtATime, MeansToken, GateUnspent, HoldsRunLock, Unanswered, InLoop
<1>25. ASSUME NEW r \in Request, NEW call \in Call, Propose(r, call) PROVE GateUnspent'
  <2>1. run' = [run EXCEPT ![r] = Calling(r, call)]
    BY <1>25 DEF Propose, Set
  <2>2. Calling(r, call).gate = run[r].gate
    BY RunFields
  <2> QED BY <1>25, <2>1, <2>2, NoneIsNoRequest DEF Propose, AgentTypeOK, GateUnspent, Goto,
       HoldsRunLock, Unanswered, InLoop, threadVars, lockVars, stopVars, confirmVars,
       worldVars, OneAtATime
<1>26. ASSUME NEW r \in Request, SkipRemaining(r) PROVE GateUnspent'
  <2>1. run' = [run EXCEPT ![r] = Asking(run[r].armed)]
    BY <1>26 DEF SkipRemaining, Set, EndRun, Outcome
  <2>2. Asking(run[r].armed).gate = None
    <3>1. run[r].armed \in Token \cup {None}
      BY DEF AgentTypeOK, Run
    <3> QED BY <3>1, RunFields DEF Call
  <2> QED BY <1>26, <2>1, <2>2, NoneIsNoRequest DEF SkipRemaining, AgentTypeOK, GateUnspent,
       Goto, HoldsRunLock, Unanswered, InLoop, threadVars, lockVars, stopVars, confirmVars,
       worldVars, OneAtATime, EndRun, Outcome
<1>27. ASSUME NEW r \in Request, StartCall(r) PROVE GateUnspent'
  <2>1. run' = [run EXCEPT ![r] = OneMoreCall(r, GateAfter(r))]
    BY <1>27 DEF StartCall, Set, Dispatched
  <2>2. OneMoreCall(r, GateAfter(r)).gate = GateAfter(r)
    <3>1. GateAfter(r) \in Token \cup {None}
      BY DEF GateAfter, AgentTypeOK, Run
    <3> QED BY <3>1, RunFields DEF Call
  <2>3. GateAfter(r) \in {None, run[r].gate}
    BY DEF GateAfter
  <2> QED BY <1>27, <2>1, <2>2, <2>3, NoneIsNoRequest DEF StartCall, AgentTypeOK, GateUnspent,
       Goto, HoldsRunLock, Unanswered, InLoop, threadVars, lockVars, stopVars, confirmVars,
       worldVars, OneAtATime, Dispatched
<1>28. ASSUME NEW r \in Request, StartConfirmedCall(r) PROVE GateUnspent'
  <2>1. run' = [run EXCEPT ![r] = OneMoreCall(r, GateAfter(r))]
    BY <1>28 DEF StartConfirmedCall, Dispatched, Set
  <2>2. OneMoreCall(r, GateAfter(r)).gate = None
    <3>1. GateAfter(r) = None
      BY <1>28 DEF StartConfirmedCall, Allows, GateAfter
    <3> QED BY <3>1, RunFields DEF Call
  <2>3. pc[r] \in HoldsRunLock
    BY <1>28 DEF StartConfirmedCall, CallStarts, HoldsRunLock, Unanswered, InLoop
  <2>4. \A q \in Request : q # r => run[q].gate = None
    BY <2>3 DEF OneAtATime, GateUnspent, HoldsRunLock, Unanswered, InLoop
  <2> QED BY <2>1, <2>2, <2>4 DEF AgentTypeOK, GateUnspent
<1>29. ASSUME NEW r \in Request, NEW t \in Token, AskFirst(r, t) PROVE GateUnspent'
  <2>1. run' = [run EXCEPT ![r] = Asking(t)]
    BY <1>29 DEF AskFirst, Set
  <2>2. Asking(t).gate = None
    BY RunFields DEF Call
  <2>3. run[r].call \in Target
    BY <1>29 DEF AskFirst, Gated
  <2>4. Question(run[r].call) \in Pending
    BY <2>3, PendingFields
  <2>5. \A q \in Request : pc[q] \in HoldsRunLock => q = r
    BY <1>29 DEF AskFirst, CallStarts, OneAtATime, HoldsRunLock, Unanswered, InLoop
  <2> QED BY <1>29, <2>1, <2>2, <2>3, <2>4, <2>5, NoneIsNoRequest DEF AskFirst, AgentTypeOK,
       GateUnspent, Goto, HoldsRunLock, Unanswered, InLoop, threadVars, lockVars, stopVars,
       confirmVars, worldVars, OneAtATime
<1>30. ASSUME NEW r \in Request, CallReturns(r) PROVE GateUnspent'
  <2>1. PICK c \in Call : run' = [run EXCEPT ![r] = Calling(r, c)]
    <3>1. None \in Call
      BY DEF Call
    <3> QED BY <1>30, <3>1 DEF CallReturns, Set
  <2>2. Calling(r, c).gate = run[r].gate
    BY RunFields
  <2>3. pc' \in {[pc EXCEPT ![r] = "turn"],
       [pc EXCEPT ![r] = "proposed"]} /\ pc[r] = "dispatching"
    BY <1>30 DEF CallReturns, Goto
  <2>4. pending' = pending
    BY <1>30 DEF CallReturns, confirmVars
  <2> QED BY <1>30, <2>1, <2>2, <2>3, <2>4 DEF CallReturns, AgentTypeOK, GateUnspent, Goto,
       HoldsRunLock, Unanswered, InLoop, threadVars, lockVars, stopVars, confirmVars, worldVars
<1>31. ASSUME NEW r \in Request, CallCrashes(r) PROVE GateUnspent'
  <2>1. run' = [run EXCEPT ![r] = Asking(run[r].armed)]
    BY <1>31 DEF CallCrashes, Set, EndRun, Outcome
  <2>2. Asking(run[r].armed).gate = None
    <3>1. run[r].armed \in Token \cup {None}
      BY DEF AgentTypeOK, Run
    <3> QED BY <3>1, RunFields DEF Call
  <2> QED BY <1>31, <2>1, <2>2, NoneIsNoRequest DEF CallCrashes, AgentTypeOK, GateUnspent,
       Goto, HoldsRunLock, Unanswered, InLoop, threadVars, lockVars, stopVars, confirmVars,
       worldVars, OneAtATime, EndRun, Outcome
<1>32. ASSUME NEW r \in Request, Unregister(r) PROVE GateUnspent'
  BY <1>32 DEF Unregister, Goto, lockVars, confirmVars, AgentTypeOK, KnownIssued, OneAtATime,
       MeansToken, GateUnspent, HoldsRunLock, Unanswered, InLoop
<1>33. ASSUME NEW r \in Request, Delete(r) PROVE GateUnspent'
  BY <1>33 DEF Delete, Arrives, Goto, confirmVars, AgentTypeOK, KnownIssued, OneAtATime,
       MeansToken, GateUnspent, HoldsRunLock, Unanswered, InLoop
<1>34. ASSUME RestoreConversation PROVE GateUnspent'
  BY <1>34 DEF RestoreConversation, lockVars, confirmVars, AgentTypeOK, KnownIssued,
       OneAtATime, MeansToken, GateUnspent, HoldsRunLock, Unanswered, InLoop
<1>35. ASSUME CancelRun PROVE GateUnspent'
  BY <1>35 DEF CancelRun, lockVars, confirmVars, AgentTypeOK, KnownIssued, OneAtATime,
       MeansToken, GateUnspent, HoldsRunLock, Unanswered, InLoop
<1>36. ASSUME OtherBegins PROVE GateUnspent'
  BY <1>36 DEF OtherBegins, confirmVars, AgentTypeOK, KnownIssued, OneAtATime, MeansToken,
       GateUnspent, HoldsRunLock, Unanswered, InLoop
<1>37. ASSUME OtherCommits PROVE GateUnspent'
  BY <1>37 DEF OtherCommits, confirmVars, AgentTypeOK, KnownIssued, OneAtATime, MeansToken,
       GateUnspent, HoldsRunLock, Unanswered, InLoop
<1>38. ASSUME NEW t \in Token, Expire(t) PROVE GateUnspent'
  <2> QED BY <1>38, PendingFields, NoneIsNoRequest DEF Expire, AgentTypeOK, GateUnspent, Goto,
       HoldsRunLock, Unanswered, InLoop, threadVars, lockVars, stopVars, confirmVars,
       worldVars, Expire
<1>39. ASSUME Crash PROVE GateUnspent'
  <2>1. \A q \in Request : run'[q].gate = None
    BY <1>39, NoRunTyped DEF Crash
  <2> QED BY <1>39, <2>1 DEF Crash, AgentTypeOK, GateUnspent, Goto, HoldsRunLock, Unanswered,
       InLoop, threadVars, lockVars, stopVars, confirmVars, worldVars
<1> QED BY <1>1, <1>2, <1>3, <1>4, <1>5, <1>6, <1>7, <1>8, <1>9, <1>10, <1>11, <1>12, <1>13,
     <1>14, <1>15, <1>16, <1>17, <1>18, <1>19, <1>20, <1>21, <1>22, <1>23, <1>24, <1>25, <1>26,
     <1>27, <1>28, <1>29, <1>30, <1>31, <1>32, <1>33, <1>34, <1>35, <1>36, <1>37, <1>38,
     <1>39 DEF Next, PostStep, RunStep

-----------------------------------------------------------------------------
(* The invariant *)

\* Nothing has happened yet: every part holds.
LEMMA InitIInv == AgentInit => IInv
<1> SUFFICES ASSUME AgentInit PROVE IInv
  OBVIOUS
<1>1. AgentTypeOK
  BY NoRunTyped DEF AgentInit, AgentTypeOK, Step, Pending, NoPending, Call
<1>2. OneAtATime /\ StopsOwnRun /\ WriterNeverWaits /\ OpenExchange /\ Entered /\ MeansToken
  BY NoneIsNoRequest DEF AgentInit, OneAtATime, StopsOwnRun, WriterNeverWaits, OpenExchange,
     Entered, MeansToken, HoldsRunLock, Unanswered, InLoop
<1>3. KnownIssued /\ TokenLedger /\ CheckedUnaccepted
  BY DEF AgentInit, KnownIssued, TokenLedger, CheckedUnaccepted, NoPending
<1>4. GateUnspent
  BY NoRunTyped DEF AgentInit, GateUnspent
<1> QED BY <1>1, <1>2, <1>3, <1>4 DEF IInv

\* A step that changes nothing keeps every part.
LEMMA StutterKept == IInv /\ UNCHANGED vars => IInv'
<1> SUFFICES ASSUME IInv, UNCHANGED vars PROVE IInv'
  OBVIOUS
<1> USE DEF vars, threadVars, lockVars, stopVars, confirmVars, worldVars
<1>1. AgentTypeOK'
  BY DEF IInv, AgentTypeOK
<1>2. OneAtATime' /\ StopsOwnRun' /\ WriterNeverWaits' /\ OpenExchange'
  BY DEF IInv, OneAtATime, StopsOwnRun, WriterNeverWaits, OpenExchange
<1>3. Entered' /\ MeansToken'
  BY DEF IInv, Entered, MeansToken, Seen
<1>4. KnownIssued' /\ TokenLedger' /\ CheckedUnaccepted' /\ GateUnspent'
  BY DEF IInv, KnownIssued, TokenLedger, CheckedUnaccepted, GateUnspent
<1> QED BY <1>1, <1>2, <1>3, <1>4 DEF IInv

\* IInv is inductive.
LEMMA StepIInv == IInv /\ [Next]_vars => IInv'
<1>1. ASSUME IInv, Next PROVE IInv'
  <2>1. AgentTypeOK' /\ OneAtATime' /\ StopsOwnRun' /\ WriterNeverWaits'
    BY <1>1, AgentTypeOKKept, OneAtATimeKept, StopsOwnRunKept, WriterNeverWaitsKept DEF IInv
  <2>2. OpenExchange' /\ Entered' /\ MeansToken'
    BY <1>1, OpenExchangeKept, EnteredKept, MeansTokenKept DEF IInv
  <2>3. KnownIssued' /\ TokenLedger' /\ CheckedUnaccepted' /\ GateUnspent'
    BY <1>1, KnownIssuedKept, TokenLedgerKept, CheckedUnacceptedKept, GateUnspentKept DEF IInv
  <2> QED BY <2>1, <2>2, <2>3 DEF IInv
<1> QED BY <1>1, StutterKept

\* The invariant holds throughout.
THEOREM Invariant == Spec => []IInv
  BY InitIInv, StepIInv, PTL DEF Spec

-----------------------------------------------------------------------------
(* The properties *)

\* Every variable of the conversation, its locks and its confirmations keeps its type.
THEOREM TypesKept == Spec => []AgentTypeOK
<1>1. IInv => AgentTypeOK
  BY DEF IInv
<1> QED BY <1>1, Invariant, PTL

\* Lock order: no request waits for anything while it holds SQLite's write lock, so
\* that neither two requests nor a request and its own tool call wait in a circle.
THEOREM LockOrder == Spec => []WriterNeverWaits
<1>1. IInv => WriterNeverWaits
  BY DEF IInv
<1> QED BY <1>1, Invariant, PTL

\* Stop sets the event of the run in flight, and of no run that comes after it.
THEOREM StopIsForThisRun == Spec => []StopHitsRunInFlight
<1>1. ASSUME IInv PROVE StopHitsRunInFlight
  <2>1. active # None => runLock = active /\ pc[active] \in InLoop
    BY <1>1 DEF IInv, AgentTypeOK, OneAtATime, StopsOwnRun, HoldsRunLock, Unanswered
  <2>2. \A r \in Request : pc[r] \in {"queued", "entering", "asked"} => r \notin stopped
    BY <1>1 DEF IInv, StopsOwnRun, InLoop
  <2> QED BY <2>1, <2>2 DEF StopHitsRunInFlight
<1> QED BY <1>1, Invariant, PTL

\* A confirmation is accepted for one call, whatever fails after it, whoever retries
\* and however many requests race for it.
THEOREM AcceptedOnce == Spec => []TokenSpentOnce
<1>1. IInv => TokenSpentOnce
  BY DEF IInv, TokenLedger, TokenSpentOnce
<1> QED BY <1>1, Invariant, PTL


-----------------------------------------------------------------------------
(* The thread implements ThreadLog *)

\* An exchange is open, as the refinement maps it.
Open == \E r \in Request : pc[r] \in Unanswered

\* A step of ThreadLog, or none.
LogStep == [Log!LogNext]_<<turns, Open, live>>

\* Whoever holds the run lock is the only one who can have an exchange open.
LEMMA OthersAnswered ==
  ASSUME AgentTypeOK, OneAtATime, NEW r \in Request, pc[r] \in HoldsRunLock
  PROVE  \A q \in Request : q # r => pc[q] \notin Unanswered
  BY DEF OneAtATime, HoldsRunLock

\* A step that leaves the thread as it is abandons the open exchange, or is none of
\* the thread's business.
LEMMA ThreadUntouched ==
  ASSUME UNCHANGED threadVars, Open' => Open
  PROVE  LogStep
<1>1. CASE Open' = Open
  BY <1>1 DEF LogStep, threadVars
<1>2. CASE Open' # Open
  <2>1. Open /\ Open' = FALSE
    BY <1>2 DEF Open
  <2> QED BY <2>1 DEF LogStep, Log!LogNext, Log!Abandon, threadVars, Open
<1> QED BY <1>1, <1>2

\* A user turn with a new key, stored by the holder of the run lock, opens an exchange.
LEMMA ThreadAsked ==
  ASSUME AgentTypeOK, OneAtATime, NEW r \in Request,
         pc[r] \in HoldsRunLock \ Unanswered, pc'[r] \in Unanswered,
         live, live' = live, ~Seen(post[r].key),
         turns' = Append(turns, UserTurnOf(r))
  PROVE  LogStep
<1>1. ~Open /\ Open'
  BY OthersAnswered DEF Open
<1>2. PICK k \in Key \cup {None} : k = post[r].key
  BY PostFields DEF AgentTypeOK
<1>3. k \notin Log!KeysUsed
  BY <1>2 DEF Log!KeysUsed, Seen
<1>4. Log!Ask(r, k)
  BY <1>1, <1>2, <1>3 DEF Log!Ask, Log!UserTurn, UserTurnOf, Open
<1> QED BY <1>4 DEF LogStep, Log!LogNext, Open

\* Every action of the conversation is a step of the thread, or leaves it alone.
LEMMA NextLogs ==
  ASSUME IInv, Next
  PROVE  LogStep
<1> USE DEF IInv
<1>1. ASSUME NEW r \in Request, NEW p \in Posts, Post(r, p) PROVE LogStep
  BY <1>1, ThreadUntouched DEF Post, Arrives, Goto, Open, Unanswered, InLoop, AgentTypeOK,
       threadVars
<1>2. ASSUME NEW r \in Request, GiveUp(r) PROVE LogStep
  BY <1>2, ThreadUntouched DEF GiveUp, Ends, Goto, Open, Unanswered, InLoop, AgentTypeOK,
       threadVars
<1>3. ASSUME NEW r \in Request, TakeRunLock(r) PROVE LogStep
  BY <1>3, ThreadUntouched DEF TakeRunLock, Goto, Open, Unanswered, InLoop, AgentTypeOK,
       threadVars
<1>4. ASSUME NEW r \in Request, EnterRefused(r) PROVE LogStep
  BY <1>4, ThreadUntouched DEF EnterRefused, LeaveOpen, Goto, Open, Unanswered, InLoop,
       AgentTypeOK, threadVars
<1>5. ASSUME NEW r \in Request, EnterConfirm(r) PROVE LogStep
  BY <1>5, ThreadUntouched DEF EnterConfirm, Goto, Open, Unanswered, InLoop, AgentTypeOK,
       threadVars
<1>6. ASSUME NEW r \in Request, EnterRun(r) PROVE LogStep
  <2>1. turns' = Append(turns, UserTurnOf(r)) /\ live' = live /\ live /\ ~Seen(post[r].key)
    BY <1>6 DEF EnterRun
  <2>2. pc[r] \in HoldsRunLock \ Unanswered /\ pc'[r] \in Unanswered
    BY <1>6 DEF EnterRun, Goto, AgentTypeOK, HoldsRunLock, Unanswered, InLoop
  <2> QED BY <2>1, <2>2, ThreadAsked
<1>7. ASSUME NEW r \in Request, RedeemRefused(r) PROVE LogStep
  BY <1>7, ThreadUntouched DEF RedeemRefused, Leave, Ends, Goto, Open, Unanswered, InLoop,
       AgentTypeOK, threadVars
<1>8. ASSUME NEW r \in Request, RedeemToken(r) PROVE LogStep
  BY <1>8, ThreadUntouched DEF RedeemToken, Goto, Open, Unanswered, InLoop, AgentTypeOK,
       threadVars
<1>9. ASSUME NEW r \in Request, FindStale(r) PROVE LogStep
  BY <1>9, ThreadUntouched DEF FindStale, Leave, Ends, Goto, Open, Unanswered, InLoop,
       AgentTypeOK, threadVars
<1>10. ASSUME NEW r \in Request, FindUnchanged(r) PROVE LogStep
  BY <1>10, ThreadUntouched DEF FindUnchanged, Goto, Open, Unanswered, InLoop, AgentTypeOK,
       threadVars
<1>11. ASSUME NEW r \in Request, StoreConfirmed(r) PROVE LogStep
  <2>1. turns' = Append(turns, UserTurnOf(r)) /\ live' = live /\ live /\ ~Seen(post[r].key)
    BY <1>11 DEF StoreConfirmed, Entered
  <2>2. pc[r] \in HoldsRunLock \ Unanswered /\ pc'[r] \in Unanswered
    BY <1>11 DEF StoreConfirmed, Goto, AgentTypeOK, HoldsRunLock, Unanswered, InLoop
  <2> QED BY <2>1, <2>2, ThreadAsked
<1>12. ASSUME NEW r \in Request, CallConfirmed(r) PROVE LogStep
  BY <1>12, ThreadUntouched DEF CallConfirmed, Goto, Open, Unanswered, InLoop, AgentTypeOK,
       threadVars
<1>13. ASSUME NEW r \in Request, CallConfirmedCrashes(r) PROVE LogStep
  BY <1>13, ThreadUntouched DEF CallConfirmedCrashes, Leave, Ends, Goto, Open, Unanswered,
       InLoop, AgentTypeOK, threadVars
<1>14. ASSUME NEW r \in Request, StoreAnswer(r) PROVE LogStep
  <2>1. pc[r] = "answering" /\ turns' = Append(turns, AssistantTurnOf(r)) /\ live' = live
    BY <1>14 DEF StoreAnswer
  <2>2. turns[Len(turns)].by = r
    BY <2>1 DEF OpenExchange, Unanswered
  <2>3. Open
    BY <2>1 DEF Open, Unanswered
  <2>4. ~Open'
    BY <1>14, OthersAnswered DEF StoreAnswer, Open, Goto, HoldsRunLock, Unanswered, InLoop,
         AgentTypeOK
  <2> QED BY <2>1, <2>2, <2>3, <2>4 DEF LogStep, Log!LogNext, Log!Answer, Log!AssistantTurn,
       AssistantTurnOf, Open
<1>15. ASSUME NEW r \in Request, ReadBack(r) PROVE LogStep
  BY <1>15, ThreadUntouched DEF ReadBack, LeaveOpen, Goto, Open, Unanswered, InLoop,
       AgentTypeOK, threadVars
<1>16. ASSUME NEW r \in Request, Close(r) PROVE LogStep
  BY <1>16, ThreadUntouched DEF Close, Ends, Goto, Open, Unanswered, InLoop, AgentTypeOK,
       threadVars
<1>17. ASSUME NEW r \in Request, BusyTimeout(r) PROVE LogStep
  BY <1>17, ThreadUntouched DEF BusyTimeout, Leave, Ends, Goto, Open, Unanswered, InLoop,
       AgentTypeOK, threadVars
<1>18. ASSUME NEW r \in Request, SoftDelete(r) PROVE LogStep
  <2>1. pc[r] = "deleting" /\ live /\ live' = FALSE /\ turns' = turns
    BY <1>18 DEF SoftDelete
  <2>2. pc[r] \in HoldsRunLock /\ pc[r] \notin Unanswered
    BY <2>1 DEF HoldsRunLock, Unanswered, InLoop
  <2>3. ~Open
    BY <2>2, OthersAnswered DEF Open
  <2>4. ~Open'
    BY <2>3, <1>18 DEF SoftDelete, Goto, Open, Unanswered, InLoop, AgentTypeOK
  <2> QED BY <2>1, <2>3, <2>4 DEF LogStep, Log!LogNext, Log!Trash, Open
<1>19. ASSUME NEW r \in Request, DeleteMissing(r) PROVE LogStep
  BY <1>19, ThreadUntouched DEF DeleteMissing, LeaveOpen, Goto, Open, Unanswered, InLoop,
       AgentTypeOK, threadVars
<1>20. ASSUME NEW r \in Request, Register(r) PROVE LogStep
  BY <1>20, ThreadUntouched DEF Register, Goto, Open, Unanswered, InLoop, AgentTypeOK, threadVars
<1>21. ASSUME NEW r \in Request, StopBeforeTurn(r) PROVE LogStep
  BY <1>21, ThreadUntouched DEF StopBeforeTurn, EndRun, Goto, Open, Unanswered, InLoop,
       AgentTypeOK, threadVars
<1>22. ASSUME NEW r \in Request, CallProvider(r) PROVE LogStep
  BY <1>22, ThreadUntouched DEF CallProvider, Goto, Open, Unanswered, InLoop, AgentTypeOK,
       threadVars
<1>23. ASSUME NEW r \in Request, ProviderEndsRun(r) PROVE LogStep
  BY <1>23, ThreadUntouched DEF ProviderEndsRun, EndRun, Goto, Open, Unanswered, InLoop,
       AgentTypeOK, threadVars
<1>24. ASSUME NEW r \in Request, ProviderCorrected(r) PROVE LogStep
  BY <1>24, ThreadUntouched DEF ProviderCorrected, Goto, Open, Unanswered, InLoop, AgentTypeOK,
       threadVars
<1>25. ASSUME NEW r \in Request, NEW call \in Call, Propose(r, call) PROVE LogStep
  BY <1>25, ThreadUntouched DEF Propose, Goto, Open, Unanswered, InLoop, AgentTypeOK, threadVars
<1>26. ASSUME NEW r \in Request, SkipRemaining(r) PROVE LogStep
  BY <1>26, ThreadUntouched DEF SkipRemaining, EndRun, CallStarts, Goto, Open, Unanswered,
       InLoop, AgentTypeOK, threadVars
<1>27. ASSUME NEW r \in Request, StartCall(r) PROVE LogStep
  BY <1>27, ThreadUntouched DEF StartCall, CallStarts, Dispatched, Goto, Open, Unanswered,
       InLoop, AgentTypeOK, threadVars
<1>28. ASSUME NEW r \in Request, StartConfirmedCall(r) PROVE LogStep
  BY <1>28, ThreadUntouched DEF StartConfirmedCall, CallStarts, Dispatched, Goto, Open,
       Unanswered, InLoop, AgentTypeOK, threadVars
<1>29. ASSUME NEW r \in Request, NEW t \in Token, AskFirst(r, t) PROVE LogStep
  BY <1>29, ThreadUntouched DEF AskFirst, CallStarts, Goto, Open, Unanswered, InLoop,
       AgentTypeOK, threadVars
<1>30. ASSUME NEW r \in Request, CallReturns(r) PROVE LogStep
  BY <1>30, ThreadUntouched DEF CallReturns, Goto, Open, Unanswered, InLoop, AgentTypeOK,
       threadVars
<1>31. ASSUME NEW r \in Request, CallCrashes(r) PROVE LogStep
  BY <1>31, ThreadUntouched DEF CallCrashes, EndRun, Goto, Open, Unanswered, InLoop,
       AgentTypeOK, threadVars
<1>32. ASSUME NEW r \in Request, Unregister(r) PROVE LogStep
  BY <1>32, ThreadUntouched DEF Unregister, Goto, Open, Unanswered, InLoop, AgentTypeOK,
       threadVars
<1>33. ASSUME NEW r \in Request, Delete(r) PROVE LogStep
  BY <1>33, ThreadUntouched DEF Delete, Arrives, Goto, Open, Unanswered, InLoop, AgentTypeOK,
       threadVars
<1>34. ASSUME RestoreConversation PROVE LogStep
  BY <1>34 DEF RestoreConversation, LogStep, Log!LogNext, Log!Restore, Open
<1>35. ASSUME CancelRun PROVE LogStep
  BY <1>35, ThreadUntouched DEF CancelRun, Goto, Open, Unanswered, InLoop, AgentTypeOK, threadVars
<1>36. ASSUME OtherBegins PROVE LogStep
  BY <1>36, ThreadUntouched DEF OtherBegins, Goto, Open, Unanswered, InLoop, AgentTypeOK,
       threadVars
<1>37. ASSUME OtherCommits PROVE LogStep
  BY <1>37, ThreadUntouched DEF OtherCommits, Goto, Open, Unanswered, InLoop, AgentTypeOK,
       threadVars
<1>38. ASSUME NEW t \in Token, Expire(t) PROVE LogStep
  BY <1>38, ThreadUntouched DEF Expire, Goto, Open, Unanswered, InLoop, AgentTypeOK, threadVars
<1>39. ASSUME Crash PROVE LogStep
  BY <1>39, ThreadUntouched DEF Crash, Goto, Open, Unanswered, InLoop, AgentTypeOK, threadVars
<1> QED BY <1>1, <1>2, <1>3, <1>4, <1>5, <1>6, <1>7, <1>8, <1>9, <1>10, <1>11, <1>12, <1>13,
     <1>14, <1>15, <1>16, <1>17, <1>18, <1>19, <1>20, <1>21, <1>22, <1>23, <1>24, <1>25, <1>26,
     <1>27, <1>28, <1>29, <1>30, <1>31, <1>32, <1>33, <1>34, <1>35, <1>36, <1>37, <1>38,
     <1>39 DEF Next, PostStep, RunStep

\* Through retries, deletes, Stops, crashes and timeouts the conversation implements
\* the thread: one exchange at a time, in a live thread, answers next to their
\* questions, no key asked twice.
THEOREM KeepsItsLog == Spec => ThreadKeepsItsLog
<1>1. AgentInit => Log!LogInit
  BY DEF AgentInit, Log!LogInit, Unanswered, InLoop
<1>2. IInv /\ [Next]_vars => [Log!LogNext]_<<turns, Open, live>>
  <2>1. ASSUME IInv, Next PROVE [Log!LogNext]_<<turns, Open, live>>
    BY <2>1, NextLogs DEF LogStep
  <2>2. UNCHANGED vars => UNCHANGED <<turns, Open, live>>
    BY DEF vars, threadVars, Open
  <2> QED BY <2>1, <2>2
<1> QED BY <1>1, <1>2, Invariant, PTL DEF Spec, ThreadKeepsItsLog, Log!LogSpec, Open

=============================================================================
