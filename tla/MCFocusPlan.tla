---------------------------- MODULE MCFocusPlan ----------------------------
(* A small day plan: a checklist of three, one more task, a fortnight with short *)
(* weeks and months, and the commitments that tell the cadences apart.           *)
EXTENDS FocusPacker

Checklist == <<None, None, 1, 1, 1>>

Task(minutes, due, priority) ==
  [life |-> "active", status |-> "open", until |-> 0, blocked |-> FALSE,
   minutes |-> minutes, due |-> due, priority |-> priority]

\* The second is free, or blocked and put off at once: blocked on day 5, off on day 3.
TaskLives ==
  <<{Task(None, None, 1), [Task(None, None, 1) EXCEPT !.life = "trashed"]},
    {Task(2, 3, 2), [Task(2, 3, 2) EXCEPT !.blocked = TRUE, !.until = 4]},
    {[Task(2, None, 0) EXCEPT !.status = "done"]},
    {Task(None, None, 3)}, {Task(1, None, 2)}>>

\* Eight days in months of three, two and three, and in weeks of two.
Months == <<1, 1, 1, 2, 2, 3, 3, 3>>
DaysOfMonth == <<1, 2, 3, 1, 2, 1, 2, 3>>
MonthLengths == <<3, 2, 3>>
Weeks == <<1, 1, 2, 2, 3, 3, 4, 4>>
Weekdays == <<0, 1, 0, 1, 0, 1, 0, 1>>

Cadence(unit, every, days) == [unit |-> unit, every |-> every, days |-> days]
Meetings ==
  {[day |-> 5, start |-> 1, length |-> 3, cadence |-> None],
   [day |-> 3, start |-> 2, length |-> 1, cadence |-> Cadence("month", 1, {})],
   [day |-> 2, start |-> 1, length |-> 1, cadence |-> Cadence("week", 2, {0, 1})]}

Changes == {[start |-> 3], [start |-> None]}

\* A window from the earliest commitment on, and one that opens in its middle.
Plans == {<<5, 1, 4>>, <<5, 2, 2>>, <<3, 1, 4>>}
=============================================================================
