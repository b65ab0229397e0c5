------------------------------ MODULE FocusDay ------------------------------
(* What the Focus session promises, whatever holds it: one clock at most, on   *)
(* one task's block of one day, and at most one booking per block.             *)
EXTENDS Naturals

CONSTANTS Days, Tasks, None,
          Readings,  \* what a clock can be set to
          Lengths    \* what a block can be booked at

VARIABLES clock,    \* the running or paused clock, or None
          booked,   \* the minutes each block was finished in, or None
          now       \* the server's time

Blocks == Days \X Tasks
Clock == [block : Blocks, leg : Nat \cup {None}, banked : Nat]

DayTypeOK ==
  /\ clock \in Clock \cup {None}
  /\ booked \in [Blocks -> Nat \cup {None}]
  /\ now \in Nat

DayInit ==
  /\ clock = None
  /\ booked = [b \in Blocks |-> None]
  /\ now = 0

Times(b) == clock # None /\ clock.block = b

\* The one clock now times b, from ms on: whatever it timed before is over.
Time(b, running, ms) ==
  /\ clock' = [block |-> b, leg |-> IF running THEN now ELSE None, banked |-> ms]
  /\ UNCHANGED <<booked, now>>

Untime(b) ==
  /\ Times(b)
  /\ clock' = None
  /\ UNCHANGED <<booked, now>>

\* A finish stops the block's own clock and no other.
Book(b, minutes) ==
  /\ booked' = [booked EXCEPT ![b] = minutes]
  /\ clock' = IF Times(b) THEN None ELSE clock
  /\ UNCHANGED now

Unbook(b) ==
  /\ booked' = [booked EXCEPT ![b] = None]
  /\ UNCHANGED <<clock, now>>

\* A destroyed task takes its blocks along.
Forget(t) ==
  /\ booked' = [b \in Blocks |-> IF b[2] = t THEN None ELSE booked[b]]
  /\ clock' = IF clock # None /\ clock.block[2] = t THEN None ELSE clock
  /\ UNCHANGED now

Pass == now' = now + 1 /\ UNCHANGED <<clock, booked>>

DayNext ==
  \/ \E b \in Blocks, running \in BOOLEAN, ms \in Readings : Time(b, running, ms)
  \/ \E b \in Blocks : Untime(b) \/ Unbook(b)
  \/ \E b \in Blocks, minutes \in Lengths : Book(b, minutes)
  \/ \E t \in Tasks : Forget(t)
  \/ Pass

DaySpec == DayInit /\ [][DayNext]_<<clock, booked, now>>
=============================================================================
