------------------------------ MODULE FocusLate ------------------------------
(* The phone on a network that may deliver a write it gave up on, after 30 s   *)
(* without an answer, at any later moment: the timeout aborts the phone's      *)
(* wait, not the request that has left it.                                     *)
EXTENDS FocusPhone

VARIABLE late  \* requests given up on that may still be served

GivenUp == IF NoAnswer /\ OnWire("sent", {"write"}) THEN {wire.req} ELSE {}

ServeLate(q) ==
  /\ Serve(q)
  /\ late' = late \ {q}
  /\ UNCHANGED <<screenVars, queueVars, synced, acts>>

LateInit == Init /\ late = {}

\* Without reloads, so that the order in which writes land is all that differs.
LateNext ==
  \/ Next /\ ~Reload /\ late' = late \cup GivenUp
  \/ \E q \in late : ServeLate(q)

LateSpec == LateInit /\ [][LateNext]_<<vars, late>>
=============================================================================
