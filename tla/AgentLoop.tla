------------------------------ MODULE AgentLoop ------------------------------
(***************************************************************************)
(* ai/loop.py: one run of the planner, from the registration of its Stop     *)
(* event to its end.  A provider call returns anything: nothing, a final     *)
(* text, a correction, calls.  Stop and the deadline are looked at before    *)
(* every provider call and every tool call, never in between; the deadline   *)
(* may have passed whenever it is looked at.  Prompts, records, corrections  *)
(* and the stall rule decide only when a run ends, which it may after any    *)
(* provider call; AgentRun has them, and the narrator's call that may follow. *)
(***************************************************************************)
EXTENDS AgentConfirmation

\* active_run: a fresh event, registered inside the run lock.
Register(r) ==
  /\ pc[r] = "asked"
  /\ active' = r
  /\ stopped' = stopped \ {r}
  /\ Goto(r, "turn")
  /\ UNCHANGED <<threadVars, lockVars, post, run, confirmVars, worldVars>>

\* Mutant of Outcome: only the question is kept.
OutcomeBare(r) == [armed |-> run[r].armed]

\* Of a finished run's variables, what becomes part of the answer.
Asking(t) == [NoRun EXCEPT !.armed = t]
Outcome(r) == Asking(run[r].armed)

\* The run ends: Stop, the deadline, a limit, a failure or a reply.
EndRun(r) ==
  /\ Goto(r, "stopping")
  /\ Set(r, Outcome(r))
  /\ UNCHANGED <<threadVars, lockVars, stopVars, post, confirmVars, worldVars>>

\* The deadline passed, or Stop, or the last iteration is behind.
StopBeforeTurn(r) == pc[r] = "turn" /\ EndRun(r)

CallProvider(r) ==
  /\ pc[r] = "turn" /\ r \notin stopped
  /\ run[r].turn < MaxTurns
  /\ Goto(r, "calling")
  /\ Set(r, OneMoreTurn(r))
  /\ UNCHANGED <<threadVars, lockVars, stopVars, post, confirmVars, worldVars>>

\* A provider fault, a final text, a cut-off turn, corrections used up.
ProviderEndsRun(r) == pc[r] = "calling" /\ EndRun(r)

\* A correction goes back to the provider.
ProviderCorrected(r) ==
  /\ pc[r] = "calling"
  /\ Goto(r, "turn")
  /\ UNCHANGED <<threadVars, lockVars, stopVars, post, run, confirmVars, worldVars>>

\* The first call of a turn, or the next of its batch.
Propose(r, call) ==
  /\ pc[r] = "calling"
  /\ Goto(r, "proposed")
  /\ Set(r, Calling(r, call))
  /\ UNCHANGED <<threadVars, lockVars, stopVars, post, confirmVars, worldVars>>

\* Stop, the deadline, or the cap on calls: this call and the rest are not run.
SkipRemaining(r) == pc[r] = "proposed" /\ EndRun(r)

CallStarts(r) == pc[r] = "proposed" /\ r \notin stopped /\ run[r].calls < MaxCalls

\* A gated call of a delegate is one the planner may not make unasked.
Gated(r) == post[r].delegate /\ run[r].call \in Target

\* The answer a message brings is good for the identical call, whatever becomes of it.
GateAfter(r) ==
  IF run[r].gate # None /\ pending[run[r].gate].call = run[r].call THEN None ELSE run[r].gate

Dispatched(r) ==
  /\ Goto(r, "dispatching")
  /\ Set(r, OneMoreCall(r, GateAfter(r)))

\* Not gated, or gated on a row that is not there, which the service will refuse.
StartCall(r) ==
  /\ CallStarts(r)
  /\ Gated(r) => ~row[run[r].call].live
  /\ Dispatched(r)
  /\ UNCHANGED <<threadVars, lockVars, stopVars, post, confirmVars, worldVars>>

\* The identical call, re-issued after a yes.
StartConfirmedCall(r) ==
  /\ CallStarts(r) /\ Gated(r)
  /\ Allows(run[r].gate, run[r].call)
  /\ Use(run[r].gate)
  /\ Accepted(run[r].gate)
  /\ Dispatched(r)
  /\ UNCHANGED <<threadVars, lockVars, stopVars, post, byToken, byThread, row>>

\* A gated call arms a question and ends the run on it.
AskFirst(r, t) ==
  /\ CallStarts(r) /\ Gated(r)
  /\ ~Allows(run[r].gate, run[r].call)
  /\ Arm(t, run[r].call)
  /\ Goto(r, "stopping")
  /\ Set(r, Asking(t))
  /\ UNCHANGED <<threadVars, lockVars, stopVars, post, worldVars>>

\* The call has a session of its own; a read takes no lock.  Then the next call of
\* the batch, or the next turn.
CallReturns(r) ==
  /\ pc[r] = "dispatching"
  /\ \/ CanWrite /\ CallBody(run[r].call)
     \/ run[r].call \notin Target /\ UNCHANGED row
  /\ \/ Goto(r, "turn") /\ Set(r, Calling(r, None))
     \/ \E call \in Call :
          /\ Goto(r, "proposed")
          /\ Set(r, Calling(r, call))
  /\ UNCHANGED <<threadVars, lockVars, stopVars, post, confirmVars, ran>>

\* An unexpected exception in the call, or SQLite's busy timeout.
CallCrashes(r) ==
  /\ pc[r] = "dispatching"
  /\ "toolCrash" \in Faults \/ ("busy" \in Faults /\ ~CanWrite)
  /\ EndRun(r)

\* Mutant of Unregister: the registration is left to the next run to replace.
UnregisterNever(r) ==
  /\ pc[r] = "stopping"
  /\ Goto(r, "answering")
  /\ UNCHANGED <<threadVars, lockVars, stopVars, post, run, confirmVars, worldVars>>

Unregister(r) ==
  /\ pc[r] = "stopping"
  /\ active' = IF active = r THEN None ELSE active
  /\ stopped' = stopped \ {r}
  /\ Goto(r, "answering")
  /\ UNCHANGED <<threadVars, lockVars, post, run, confirmVars, worldVars>>

RunStep(r) ==
  \/ Register(r)
  \/ StopBeforeTurn(r)
  \/ CallProvider(r)
  \/ ProviderEndsRun(r)
  \/ ProviderCorrected(r)
  \/ \E call \in Call : Propose(r, call)
  \/ SkipRemaining(r)
  \/ StartCall(r)
  \/ StartConfirmedCall(r)
  \/ \E t \in Token : AskFirst(r, t)
  \/ CallReturns(r)
  \/ CallCrashes(r)
  \/ Unregister(r)
=============================================================================
