----------------------------- MODULE MCAgentRun -----------------------------
(* A small instance of AgentRun and one of AgentGather.  They share no state: *)
(* each is explored while the other is where it starts (the gather, at one of *)
(* its starts), so that a property of one is checked over all that one can do. *)
EXTENDS AgentRun, AgentGather

CONSTANTS x, y, g1, g2, k1, k2

Ask(tool, on) == [tool |-> tool, on |-> on]

\* Two writes, the second of which a delegate may not make unasked, before a call that
\* is malformed; a question before a lookup, which stalls when it is refused twice.
MixedBatches ==
  {<<Ask("edit", y), Ask("trash", x), Ask("unknown", x)>>, <<Ask("ask", x), Ask("read", x)>>}

\* Two models, one of them under the name of a third whose vectors are longer.
Makes ==
  {[name |-> "a", length |-> 1], [name |-> "a", length |-> 2], [name |-> "b", length |-> 1]}

\* From the model whose name and length others share, any change can follow.
FirstMake == service = [name |-> "a", length |-> 1]

GatherAtRest == GatherInit /\ FirstMake /\ corpus = Key

BothStart == Init /\ GatherInit /\ FirstMake

SideBySide ==
  /\ BothStart
  /\ [][\/ Next /\ GatherAtRest /\ UNCHANGED gatherVars
        \/ GatherNext /\ Init /\ UNCHANGED vars]_<<vars, gatherVars>>
  /\ WF_vars(LoopStep) /\ GatherFair
=============================================================================
