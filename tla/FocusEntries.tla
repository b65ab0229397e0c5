---------------------------- MODULE FocusEntries ----------------------------
(* The stored day plan: one table of pins, commitments, series and the skips  *)
(* and one-day edits of a series, told apart by the columns that are set, and *)
(* the routes that write it. Every removal is a soft delete that a restore     *)
(* takes back. The tasks it names live their own life beside it.              *)
EXTENDS Integers, Sequences, FiniteSets, FiniteSetsExt, SequencesExt

CONSTANTS Days,        \* the dates, 1..n
          Tasks, Parent,         \* the tasks by id, and whose subtask each is
          None,
          Lives,       \* bound: the rows each task goes through
          PinDays, PinTimes,     \* bounds: what pins are asked for
          TouchedDays, \* bound: the days of a series skipped, edited or ended on
          Bookings,    \* bound: the commitments asked for: day, start, length, cadence
          Edits,       \* bound: the fields edits set, a None start floats a pin
          MaxRows,     \* bound: rows ever stored
          MaxWrites,   \* bound: how many rows and tasks are changed afterwards
          WeekLength, WeekOf, WeekdayOf,          \* the calendar
          MonthOf, DayOfMonth, MonthLength

\* A cadence: the unit, every how many of it, and a weekly one's weekdays.
Cadences ==
  [unit : {"day", "week", "month"}, every : Nat \ {0}, days : SUBSET (0..WeekLength - 1)]

TaskRow ==
  [life : {"active", "trashed", "gone"}, status : {"open", "in_progress", "done"},
   until : Nat, blocked : BOOLEAN, minutes : (Nat \ {0}) \cup {None},
   due : Nat \cup {None}, priority : Nat]

Ids == 1..MaxRows

\* A row: a pin's task, a commitment's title, block and cadence, a series and its day.
Entries ==
  [day : Days, task : Tasks \cup {None}, series : Ids \cup {None}, titled : BOOLEAN,
   start : Nat \cup {None}, length : Nat \cup {None}, position : Nat,
   cadence : Cadences \cup {None}, stop : Days \cup {None}, live : BOOLEAN]

ASSUME EntriesAssumption ==
  /\ Days \subseteq Nat \ {0} /\ PinDays \subseteq Days /\ TouchedDays \subseteq Days
  /\ MaxRows \in Nat /\ MaxWrites \in Nat
  /\ None \notin Int \cup Entries
  /\ Tasks \subseteq Nat /\ Parent \in [Tasks -> Tasks \cup {None}]
  /\ \A t \in Tasks : Parent[t] # None => Parent[Parent[t]] = None   \* bound: two levels
  /\ Lives \in [Tasks -> SUBSET TaskRow]
  /\ PinTimes \subseteq Nat \cup {None}
  /\ \A b \in Bookings :
       b.day \in Days /\ b.start \in Nat /\ b.length \in Nat \ {0} /\ b.cadence \in Cadences \cup {None}
  /\ \A f \in Edits :
       /\ DOMAIN f \subseteq {"start", "length"}
       /\ "start" \in DOMAIN f => f.start \in Nat \cup {None}
       /\ "length" \in DOMAIN f => f.length \in Nat \ {0}

\* Months are whole, and their days follow one another.
ASSUME CalendarAssumption ==
  /\ MonthOf \in [Days -> Int] /\ DayOfMonth \in [Days -> Nat]
  /\ \A d \in Days : MonthLength[MonthOf[d]] \in Nat /\ DayOfMonth[d] \in 1..MonthLength[MonthOf[d]]
  /\ \A d, e \in Days : d < e =>
       MonthOf[d] < MonthOf[e] \/ (MonthOf[d] = MonthOf[e] /\ DayOfMonth[d] < DayOfMonth[e])
  /\ \A d \in Days : \A n \in 1..MonthLength[MonthOf[d]] :
       \E e \in Days : MonthOf[e] = MonthOf[d] /\ DayOfMonth[e] = n

VARIABLES rows,    \* the entries by id, None where there is none
          tasks,   \* what the task service says of each task
          writes   \* bound: changes made so far

vars == <<rows, tasks, writes>>

Stored == {i \in Ids : rows[i] # None}
LiveRows == {i \in Stored : rows[i].live}
NextId == 1 + Max(Stored \cup {0})

-----------------------------------------------------------------------------
(* What a row is, and when a commitment happens.                              *)

IsPin(e) == e.task # None
IsSkip(e) == e.series # None /\ ~e.titled
IsOverride(e) == e.series # None /\ e.titled
IsSeries(e) == e.task = None /\ e.cadence # None
IsOneOff(e) == e.task = None /\ e.series = None /\ e.cadence = None

\* Mutant of OnMonthDay: a short month is passed over.
OnSameMonthDay(e, day) == DayOfMonth[day] = DayOfMonth[e.day]

\* The day of the month the series began on, or the month's last if it is shorter.
OnMonthDay(e, day) == DayOfMonth[day] = Min({DayOfMonth[e.day], MonthLength[MonthOf[day]]})

\* A series counts from its first day, not from the occurrence before.
OccursOn(e, day) ==
  IF e.cadence = None THEN e.day = day
  ELSE LET every == e.cadence.every
       IN  /\ day >= e.day
           /\ e.stop # None => day < e.stop
           /\ CASE e.cadence.unit = "day" -> (day - e.day) % every = 0
                [] e.cadence.unit = "week" /\ e.cadence.days = {} ->
                     (day - e.day) % (WeekLength * every) = 0
                [] e.cadence.unit = "week" /\ e.cadence.days # {} ->
                     /\ (WeekOf[day] - WeekOf[e.day]) % every = 0
                     /\ WeekdayOf[day] \in e.cadence.days
                [] e.cadence.unit = "month" ->
                     /\ (MonthOf[day] - MonthOf[e.day]) % every = 0
                     /\ OnMonthDay(e, day)

\* Mutant of LiveExceptions: an exception of any day.
LiveExceptionsAnyDay(s, day) == {i \in LiveRows : rows[i].series = s}

\* The day's live skip or edit of a series.
LiveExceptions(s, day) == {i \in LiveRows : rows[i].series = s /\ rows[i].day = day}

\* The commitments that happen on a day, each as it is shown that day: a one-off,
\* or a series with no skip that day, edited if the day has an edit.
DaySeries(day) == {s \in LiveRows : IsSeries(rows[s]) /\ OccursOn(rows[s], day)}
DayCommitments(day) ==
  LET series == DaySeries(day)
  IN  {[id |-> i, shown |-> i] : i \in {j \in LiveRows : IsOneOff(rows[j]) /\ rows[j].day = day}}
      \cup {[id |-> s, shown |-> s] : s \in {s \in series : LiveExceptions(s, day) = {}}}
      \cup UNION {{[id |-> s, shown |-> x] : x \in {x \in LiveExceptions(s, day) : IsOverride(rows[x])}}
                    : s \in series}
SkippedCommitments(day) ==
  {s \in DaySeries(day) : \E x \in LiveExceptions(s, day) : IsSkip(rows[x])}

\* A day's pins, in position order first-come.
LivePins(day) == {i \in LiveRows : rows[i].day = day /\ IsPin(rows[i])}
EntryOrder(i, j) ==
  rows[i].position < rows[j].position \/ (rows[i].position = rows[j].position /\ i < j)
PinsInOrder(day) ==
  CHOOSE pins \in SetToSeqs(LivePins(day)) :
    \A k, l \in DOMAIN pins : k < l => EntryOrder(pins[k], pins[l])

NextPosition(day) ==
  LET used == {rows[i].position : i \in {j \in LiveRows : rows[j].day = day}}
  IN  IF used = {} THEN 0 ELSE Max(used) + 1

-----------------------------------------------------------------------------
(* What the plan asks of a task.                                              *)

Active(t) == tasks[t].life = "active"
Subtasks(t) == {c \in Tasks : Parent[c] = t /\ Active(c)}
TopLevel(t) == Active(t) /\ (Parent[t] # None => ~Active(Parent[t]))

\* An unfinished blocker keeps a done task under way.
Capped(t, status) == IF status = "done" /\ tasks[t].blocked THEN "in_progress" ELSE status

\* The subtasks decide done and under way; while all are open the task's own
\* status counts, as a floor.
StatusOf(t) ==
  LET kids == {Capped(c, tasks[c].status) : c \in Subtasks(t)}
  IN  Capped(t, CASE kids = {}       -> tasks[t].status
                  [] kids = {"done"} -> "done"
                  [] kids = {"open"} -> IF tasks[t].status = "open" THEN "open" ELSE "in_progress"
                  [] OTHER           -> "in_progress")

Pinnable(t) == TopLevel(t) /\ StatusOf(t) # "done"

-----------------------------------------------------------------------------
(* The writes, each one transaction.                                          *)

Write == writes < MaxWrites /\ writes' = writes + 1

Entry(day) ==
  [day |-> day, task |-> None, series |-> None, titled |-> FALSE, start |-> None,
   length |-> None, position |-> 0, cadence |-> None, stop |-> None, live |-> TRUE]

Insert(e) ==
  /\ NextId \in Ids
  /\ rows' = [rows EXCEPT ![NextId] = e]
  /\ UNCHANGED <<tasks, writes>>

\* Pinning again moves the pin there is; a pin at the same time is left as it is.
LivePin(day, t) == {i \in LiveRows : rows[i].day = day /\ rows[i].task = t}
PinTask(day, t, start) ==
  /\ Pinnable(t)
  /\ \/ /\ LivePin(day, t) = {}
        /\ Insert([Entry(day) EXCEPT !.task = t, !.start = start, !.position = NextPosition(day)])
     \/ /\ Write
        /\ \E i \in LivePin(day, t) :
             rows[i].start # start /\ rows' = [rows EXCEPT ![i].start = start]
        /\ UNCHANGED tasks

AddCommitment(b) ==
  Insert([Entry(b.day) EXCEPT !.titled = TRUE, !.start = b.start, !.length = b.length,
                              !.position = NextPosition(b.day), !.cadence = b.cadence])

Occurrence(s, day) ==
  s \in LiveRows /\ rows[s].series = None /\ IsSeries(rows[s]) /\ OccursOn(rows[s], day)

\* A day already skipped returns its skip; an edited day is refused.
SkipOccurrence(s, day) ==
  /\ Occurrence(s, day)
  /\ LiveExceptions(s, day) = {}
  /\ Insert([Entry(day) EXCEPT !.series = s])

\* A partial edit. A skip has nothing to edit, a pin has only a time, and a
\* commitment keeps all three.
Editable(e, fields) ==
  /\ ~IsSkip(e)
  /\ IsPin(e) => DOMAIN fields = {"start"}
  /\ ~IsPin(e) => \A f \in DOMAIN fields : fields[f] # None
Patched(e, fields) ==
  [e EXCEPT !.start = IF "start" \in DOMAIN fields THEN fields.start ELSE @,
            !.length = IF "length" \in DOMAIN fields THEN fields.length ELSE @]

UpdateEntry(i, fields) ==
  /\ Write
  /\ i \in LiveRows /\ Editable(rows[i], fields)
  /\ rows' = [rows EXCEPT ![i] = Patched(@, fields)]
  /\ UNCHANGED tasks

\* One day of a series: a new edit starts from the series as it stands, an edit
\* there is gets edited, a skip is refused.
EditOccurrence(s, day, fields) ==
  /\ Occurrence(s, day)
  /\ \A f \in DOMAIN fields : fields[f] # None
  /\ \/ /\ LiveExceptions(s, day) = {}
        /\ Insert(Patched([Entry(day) EXCEPT !.series = s, !.titled = TRUE,
                             !.start = rows[s].start, !.length = rows[s].length], fields))
     \/ \E x \in LiveExceptions(s, day) : IsOverride(rows[x]) /\ UpdateEntry(x, fields)

\* An end, or None to lift it; never on or before the first day. Skips and edits
\* beyond it stay, inert.
StopSeries(s, stop) ==
  /\ Write
  /\ s \in LiveRows /\ rows[s].series = None /\ IsSeries(rows[s])
  /\ stop # None => stop > rows[s].day
  /\ stop # rows[s].stop
  /\ rows' = [rows EXCEPT ![s].stop = stop]
  /\ UNCHANGED tasks

\* Mutant of Reordered: the named pins move to the front.
NamedFirst(day, ids) ==
  ids \o SelectSeq(PinsInOrder(day), LAMBDA i : ~Contains(ids, i))

\* The named pins trade the slots they hold; then the day's pins are renumbered.
Reordered(day, ids) ==
  LET pins == PinsInOrder(day)
      named(upTo) == {k \in 1..upTo : pins[k] \in ToSet(ids)}
  IN  [k \in DOMAIN pins |->
         IF k \in named(k) THEN ids[Cardinality(named(k))] ELSE pins[k]]
ReorderPins(day, ids) ==
  /\ Write
  /\ ids # <<>> /\ IsInjective(ids) /\ ToSet(ids) \subseteq LivePins(day)
  /\ LET order == Reordered(day, ids)
     IN  rows' = [i \in Ids |->
                    IF i \in ToSet(order)
                    THEN [rows[i] EXCEPT !.position = (CHOOSE k \in DOMAIN order : order[k] = i) - 1]
                    ELSE rows[i]]
  /\ rows' # rows
  /\ UNCHANGED tasks

RemoveEntry(i) ==
  /\ Write
  /\ i \in LiveRows
  /\ rows' = [rows EXCEPT ![i].live = FALSE]
  /\ UNCHANGED tasks

\* Mutant of RestoreEntry: what took its place meanwhile is not looked at.
RestoreEntryBlindly(i) ==
  /\ Write
  /\ i \in Stored \ LiveRows
  /\ rows' = [rows EXCEPT ![i].live = TRUE]
  /\ UNCHANGED tasks

\* Refused where the day has been skipped, edited or pinned since, and for a
\* task in the trash.
RestoreEntry(i) ==
  /\ Write
  /\ i \in Stored \ LiveRows
  /\ LET e == rows[i]
     IN  /\ e.series # None => LiveExceptions(e.series, e.day) = {}
         /\ e.task # None => LivePin(e.day, e.task) = {} /\ Active(e.task)
  /\ rows' = [rows EXCEPT ![i].live = TRUE]
  /\ UNCHANGED tasks

\* What the task routes do: complete, defer, block, trash, restore a task.
ChangeTask(t, row) ==
  /\ Write
  /\ tasks[t].life # "gone" /\ row # tasks[t] /\ row.life # "gone"
  /\ tasks' = [tasks EXCEPT ![t] = row]
  /\ UNCHANGED rows

\* A purge takes the task's entries with it.
PurgeTask(t) ==
  /\ Write
  /\ tasks[t].life = "trashed"
  /\ tasks' = [tasks EXCEPT ![t].life = "gone"]
  /\ rows' = [i \in Ids |-> IF rows[i] # None /\ rows[i].task = t THEN None ELSE rows[i]]

Init ==
  /\ rows = [i \in Ids |-> None]
  /\ tasks \in [Tasks -> UNION {Lives[t] : t \in Tasks}]
  /\ \A t \in Tasks : tasks[t] \in Lives[t] /\ Active(t)
  /\ writes = 0

Next ==
  \/ \E day \in PinDays, t \in Tasks, start \in PinTimes : PinTask(day, t, start)
  \/ \E b \in Bookings : AddCommitment(b)
  \/ \E s \in Ids, day \in TouchedDays :
       \/ SkipOccurrence(s, day)
       \/ \E fields \in Edits : EditOccurrence(s, day, fields)
  \/ \E s \in Ids, stop \in TouchedDays \cup {None} : StopSeries(s, stop)
  \/ \E i \in Ids : \/ RemoveEntry(i) \/ RestoreEntry(i)
                    \/ \E fields \in Edits : UpdateEntry(i, fields)
  \/ \E day \in PinDays :
       \E ids \in UNION {SetToSeqs(S) : S \in SUBSET LivePins(day)} : ReorderPins(day, ids)
  \/ \E t \in Tasks : PurgeTask(t) \/ \E row \in Lives[t] : ChangeTask(t, row)

Spec == Init /\ [][Next]_vars
-----------------------------------------------------------------------------
(* What the table promises.                                                   *)

\* Every column holds a value of its type.
EntriesTypeOK ==
  /\ rows \in [Ids -> Entries \cup {None}]
  /\ tasks \in [Tasks -> TaskRow]
  /\ writes \in 0..MaxWrites

\* No sequence of pins, skips, edits, removals and restores asks the table for a
\* row its constraints refuse: at most one live pin of a task a day and one live
\* skip or edit of an occurrence (the two unique indexes), each row one of the
\* five kinds, an exception of a series, an end only on a series and after its
\* first day, and no row naming a task that was purged.
TableAccepts ==
  /\ \A i, j \in LiveRows : rows[i].day = rows[j].day /\ i # j =>
       /\ rows[i].task = rows[j].task => rows[i].task = None
       /\ rows[i].series = rows[j].series => rows[i].series = None
  /\ \A i \in Stored :
       LET e == rows[i]
           block == e.titled /\ e.start # None /\ e.length # None
           bare  == ~e.titled /\ e.length = None /\ e.cadence = None
       IN  /\ \/ e.task # None /\ e.series = None /\ bare
              \/ e.task = None /\ e.series = None /\ block
              \/ e.series # None /\ e.task = None /\ bare /\ e.start = None
              \/ e.series # None /\ e.task = None /\ block /\ e.cadence = None
           /\ e.stop # None => e.cadence # None /\ e.stop > e.day
           /\ e.series # None => e.series \in Stored /\ IsSeries(rows[e.series])
           /\ e.task # None => tasks[e.task].life # "gone"

\* What a day shows.
Shown(day) ==
  {<<c.id, rows[c.shown].start, rows[c.shown].length>> : c \in DayCommitments(day)}

\* A write changes the commitments of the days it is about. An edit, a skip, an
\* un-skip or a reset of one day changes that day; an end moves no day before it;
\* and an edit of a series reaches no day that was edited or skipped by hand.
WritesReachTheirDay ==
  [][\A i \in Stored' : rows'[i] # rows[i] =>
       \A day \in Days : Shown(day)' # Shown(day) =>
         IF ~IsSeries(rows'[i]) THEN day = rows'[i].day
         ELSE IF i \in LiveRows /\ i \in LiveRows'
              THEN IF rows'[i].stop # rows[i].stop
                   THEN day >= Min({rows[i].stop, rows'[i].stop} \ {None})
                   ELSE LiveExceptions(i, day) = {}
              ELSE day >= rows'[i].day]_vars

\* Naming some of a day's pins reorders those and no other: the day keeps its
\* pins, each one left out keeps its place, and the named come in the order given.
ReorderTradesSlots ==
  \A day \in PinDays :
    \A ids \in UNION {SetToSeqs(S) : S \in SUBSET LivePins(day)} :
      LET before == PinsInOrder(day)
          after  == Reordered(day, ids)
      IN  /\ ToSet(after) = LivePins(day) /\ IsInjective(after)
          /\ \A k \in DOMAIN before : ~Contains(ids, before[k]) => after[k] = before[k]
          /\ \A m, n \in DOMAIN ids, k, l \in DOMAIN after :
               m < n /\ after[k] = ids[m] /\ after[l] = ids[n] => k < l

\* A monthly series misses no month it is due in and visits no other, however
\* short the months between: it is on the last day of the month that is not past
\* the day of the month it began on.
MonthlyNeverDrifts ==
  \A s \in LiveRows : IsSeries(rows[s]) /\ rows[s].cadence.unit = "month" /\ rows[s].stop = None =>
    \A m \in {MonthOf[d] : d \in Days} : m > MonthOf[rows[s].day] =>
      LET upTo == {d \in Days : MonthOf[d] = m /\ DayOfMonth[d] <= DayOfMonth[rows[s].day]}
          on   == {d \in Days : MonthOf[d] = m /\ OccursOn(rows[s], d)}
      IN  on = IF (m - MonthOf[rows[s].day]) % rows[s].cadence.every = 0 THEN {Max(upTo)} ELSE {}
=============================================================================
