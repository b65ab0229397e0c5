--------------------------- MODULE FocusSessions ---------------------------
(* The focus_sessions table and the routes that write it. A row is the one    *)
(* clock (no minutes yet) or a finished block. Rows that a soft delete took   *)
(* out are read by nothing but the purge and are left out.                    *)
EXTENDS Naturals, FiniteSets

CONSTANTS Days, Tasks,
          None,
          MaxMs,       \* the longest clock a request may carry
          MaxMinutes   \* the longest booking a request may carry

ASSUME SessionsAssumption ==
  /\ None \notin Nat
  /\ None \notin [day : Days, task : Tasks, leg : Nat \cup {None}, banked : Nat,
                  minutes : Nat \cup {None}]
  /\ None \notin [block : Days \X Tasks, leg : Nat \cup {None}, banked : Nat]
  /\ MaxMs \in Nat
  /\ MaxMinutes \in Nat

VARIABLES rows,    \* the live rows
          tasks,   \* what became of each task
          now      \* the server's time, in the clock's units

sessionVars == <<rows, tasks, now>>

Row == [day : Days, task : Tasks, leg : Nat \cup {None}, banked : Nat,
        minutes : Nat \cup {None}]

IsClock(r) == r.minutes = None
Names(r, day, t) == r.day = day /\ r.task = t

ClockRow(day, t, leg, ms) ==
  [day |-> day, task |-> t, leg |-> leg, banked |-> ms, minutes |-> None]
BlockRow(day, t, minutes) ==
  [day |-> day, task |-> t, leg |-> None, banked |-> 0, minutes |-> minutes]

GetClock(R) ==
  IF \E r \in R : IsClock(r) THEN CHOOSE r \in R : IsClock(r) ELSE None

LiveBlock(R, day, t) == {r \in R : ~IsClock(r) /\ Names(r, day, t)}

ElapsedMs(c, at) == c.banked + IF c.leg = None \/ at < c.leg THEN 0 ELSE at - c.leg

\* Mutant of SetClock: the clock of another block is not cleared first.
SetClockBeside(R, day, t, running, ms) ==
  LET own == {r \in R : IsClock(r) /\ Names(r, day, t)}
  IN  (R \ own) \cup {ClockRow(day, t, IF running THEN now ELSE None, ms)}

\* Start, pause, resume or restore. The live clock is this block's and is set
\* anew, or another's and is cleared first.
SetClock(R, day, t, running, ms) ==
  LET live == GetClock(R)
      leg == IF running THEN now ELSE None
  IN  IF /\ live # None
         /\ Names(live, day, t)
         /\ live.leg = None /\ ~running /\ live.banked = ms
      THEN R
      ELSE (R \ {live}) \cup {ClockRow(day, t, leg, ms)}

\* Mutant of ClearClock: it clears whatever clock there is.
ClearAnyClock(R, day, t) == R \ {GetClock(R)}

\* A clear names its block: another block's clock is left alone.
ClearClock(R, day, t) ==
  LET live == GetClock(R)
  IN  IF live # None /\ Names(live, day, t) THEN R \ {live} ELSE R

\* Booking stops the block's own clock; booking again replaces the minutes.
FinishBlock(R, day, t, minutes) ==
  (ClearClock(R, day, t) \ LiveBlock(R, day, t)) \cup {BlockRow(day, t, minutes)}

RemoveBlock(R, day, t) == R \ LiveBlock(R, day, t)

PurgeForTasks(R, T) == {r \in R : r.task \notin T}

-----------------------------------------------------------------------------
(* The routes. Each is one BEGIN IMMEDIATE transaction. A start, a pause or a *)
(* finish on a task that is not there, or out of bounds, is refused and       *)
(* changes nothing; a clear or a removal that finds nothing does neither.     *)

Active(t) == tasks[t] = "active"

PutClock(day, t, running, ms) ==
  /\ Active(t) /\ ms <= MaxMs
  /\ rows' = SetClock(rows, day, t, running, ms)
  /\ UNCHANGED <<tasks, now>>

DeleteClock(day, t) ==
  /\ rows' = ClearClock(rows, day, t)
  /\ UNCHANGED <<tasks, now>>

PutBlock(day, t, minutes) ==
  /\ Active(t) /\ minutes <= MaxMinutes
  /\ rows' = FinishBlock(rows, day, t, minutes)
  /\ UNCHANGED <<tasks, now>>

DeleteBlock(day, t) ==
  /\ rows' = RemoveBlock(rows, day, t)
  /\ UNCHANGED <<tasks, now>>

\* What the task routes do beside it.
TrashTask(t) ==
  /\ Active(t)
  /\ tasks' = [tasks EXCEPT ![t] = "trashed"]
  /\ UNCHANGED <<rows, now>>

RestoreTask(t) ==
  /\ tasks[t] = "trashed"
  /\ tasks' = [tasks EXCEPT ![t] = "active"]
  /\ UNCHANGED <<rows, now>>

PurgeTask(t) ==
  /\ tasks[t] = "trashed"
  /\ tasks' = [tasks EXCEPT ![t] = "gone"]
  /\ rows' = PurgeForTasks(rows, {t})
  /\ UNCHANGED now

Tick == now' = now + 1 /\ UNCHANGED <<rows, tasks>>

SessionsInit ==
  /\ rows = {}
  /\ tasks = [t \in Tasks |-> "active"]
  /\ now = 0

SessionsNext ==
  \/ \E day \in Days, t \in Tasks :
       \/ \E running \in BOOLEAN, ms \in 0..MaxMs : PutClock(day, t, running, ms)
       \/ DeleteClock(day, t)
       \/ \E minutes \in 0..MaxMinutes : PutBlock(day, t, minutes)
       \/ DeleteBlock(day, t)
  \/ \E t \in Tasks : TrashTask(t) \/ RestoreTask(t) \/ PurgeTask(t)
  \/ Tick

SessionsSpec == SessionsInit /\ [][SessionsNext]_sessionVars

-----------------------------------------------------------------------------

SessionsTypeOK ==
  /\ rows \in SUBSET Row
  /\ tasks \in [Tasks -> {"active", "trashed", "gone"}]
  /\ now \in Nat

\* At most one live clock in the whole table, and one live booking per block:
\* no write of this service ever runs into the table's two unique indexes, and
\* get_clock and _live_block never find two rows where they expect one.
OneRowPerClaim ==
  \A r, s \in rows :
     \/ r = s
     \/ IsClock(r) # IsClock(s)
     \/ ~IsClock(r) /\ ~Names(s, r.day, r.task)

\* A row names a task that is still there: the session log asserts so when it
\* reads the task's title, and a purge takes the rows of its task along.
RowsNameTasks == \A r \in rows : tasks[r.task] # "gone"

\* The table implements the day it stands for: no write ever touches a clock or
\* a booking it does not name, except that setting a clock ends the one before.
ClockOf(R) ==
  LET c == GetClock(R)
  IN  IF c = None THEN None
      ELSE [block |-> <<c.day, c.task>>, leg |-> c.leg, banked |-> c.banked]

Booking(live) == IF live = {} THEN None ELSE (CHOOSE r \in live : TRUE).minutes
BookedOf(R) == [b \in Days \X Tasks |-> Booking(LiveBlock(R, b[1], b[2]))]

Day == INSTANCE FocusDay WITH clock <- ClockOf(rows), booked <- BookedOf(rows),
                              Readings <- 0..MaxMs, Lengths <- 0..MaxMinutes

KeepsTheDay == Day!DaySpec
=============================================================================
