---------------------------- MODULE MCFocusPhone ----------------------------
(* One block on two days, a phone and whoever else writes the table.  The days *)
(* differ in nothing, so that the page may open on either.                     *)
EXTENDS FocusPhone

CONSTANT FirstDay

OpenedInit == Init /\ day = FirstDay

OpenedSpec == OpenedInit /\ [][Next]_vars /\ Fairness
=============================================================================
