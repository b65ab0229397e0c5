---------------------------- MODULE FocusPacker ----------------------------
(* The day plan worked out on every read: the fixed blocks of a day, then the  *)
(* floating pins, then the ranked tasks, each into the first gap that holds it. *)
(* Nothing here is stored: the plan is a function of FocusEntries' state, the   *)
(* day asked for and the window it is given.                                    *)
EXTENDS FocusEntries

CONSTANTS DefaultEstimate,      \* the length of a task nobody sized
          DueSoonDays,
          Asked                 \* bound: the <<day, start, minutes>> plans are asked for

ASSUME PackerAssumption ==
  /\ IsFiniteSet(Tasks)
  /\ DefaultEstimate \in Nat \ {0} /\ DueSoonDays \in Nat
  /\ Asked \subseteq Days \X Nat \X Nat

-----------------------------------------------------------------------------
(* The rank of a task on a day.                                               *)

\* A checklist takes as long as its sized subtasks, the done ones included.
Minutes(t) ==
  LET sized == {c \in Subtasks(t) : tasks[c].minutes # None}
      own == CASE Subtasks(t) = {} -> tasks[t].minutes
               [] sized = {}       -> None
               [] OTHER            -> MapThenSumSet(LAMBDA c : tasks[c].minutes, sized)
  IN  IF own = None THEN DefaultEstimate ELSE own

DueRank(t, day) ==
  LET due == tasks[t].due
  IN  CASE due = None               -> 3
        [] due < day                -> 0
        [] due = day                -> 1
        [] due <= day + DueSoonDays -> 2
        [] OTHER                    -> 3

RankKey(t, day) ==
  <<IF StatusOf(t) = "in_progress" THEN 0 ELSE 1, DueRank(t, day), tasks[t].priority, Minutes(t), t>>

Precedes(k, l) ==
  \E n \in DOMAIN k : k[n] < l[n] /\ \A m \in 1..(n - 1) : k[m] = l[m]

Deferred(t, day) == tasks[t].until > day

-----------------------------------------------------------------------------
(* Intervals, <<start, end>>: the gaps, a list in time order in the code, are  *)
(* the set of them here, and the first of some is the one that starts first.   *)

\* Mutant of Resumes: a block inside an earlier, longer one gives time back.
ResumesAfterLast(from, B) ==
  IF B = {} THEN from ELSE (CHOOSE b \in B : \A c \in B \ {b} : Precedes(c, b))[2]

\* Where free time goes on once the blocks of B have been seen.
Resumes(from, B) == Max({from} \cup {b[2] : b \in B})

\* The window less the fixed blocks, seen in order of start; blocks that overlap
\* take their time once.
FreeGaps(from, to, busy) ==
  LET before == {<<Resumes(from, {c \in busy : Precedes(c, b)}), Min({b[1], to})>> : b \in busy}
  IN  {g \in before \cup {<<Resumes(from, busy), to>>} : g[1] < g[2]}

\* First fit: of the gaps that hold it, the first is taken from the front.
Fits(minutes, gaps) == {g \in gaps : g[2] - g[1] >= minutes}
FirstFit(minutes, gaps) ==
  CHOOSE g \in Fits(minutes, gaps) : \A h \in Fits(minutes, gaps) : g[1] <= h[1]
Shrunk(gaps, g, minutes) == (gaps \ {g}) \cup {<<g[1] + minutes, g[2]>>}

-----------------------------------------------------------------------------
(* Packing. A plan in the making: the gaps left, where the next pin that fits  *)
(* none goes, the blocks placed and the tasks that overflowed, in rank order.  *)

\* S as a list in the order of Before.
InOrder(S, Before(_, _)) ==
  CHOOSE seq \in SetToSeqs(S) : \A k, l \in DOMAIN seq : k < l => Before(seq[k], seq[l])

\* Each of a list of tasks goes into the plan that the one before it left.
InTurn(Place(_, _), plan, seq) ==
  LET so[n \in 0..Len(seq)] == IF n = 0 THEN plan ELSE Place(so[n - 1], seq[n])
  IN  so[Len(seq)]

Block(t, start, kind) ==
  [task |-> t, start |-> start, end |-> start + Minutes(t), kind |-> kind]

PlaceIn(plan, t, kind) ==
  LET g == FirstFit(Minutes(t), plan.gaps)
  IN  [plan EXCEPT !.blocks = @ \cup {Block(t, g[1], kind)},
                   !.gaps = Shrunk(@, g, Minutes(t))]

\* Mutant of Float: a pin that fits no gap overflows.
FloatOrOverflow(plan, t) ==
  IF Fits(Minutes(t), plan.gaps) # {} THEN PlaceIn(plan, t, "floating")
  ELSE [plan EXCEPT !.overflow = Append(@, t)]

\* A floating pin is asked for: it never overflows.
Float(plan, t) ==
  IF Fits(Minutes(t), plan.gaps) # {} THEN PlaceIn(plan, t, "floating")
  ELSE [plan EXCEPT !.blocks = @ \cup {Block(t, plan.late, "late")}, !.late = @ + Minutes(t)]

StandIns(t, day) ==
  {c \in Subtasks(t) : /\ Capped(c, tasks[c].status) # "done"
                       /\ ~Deferred(c, day) /\ ~tasks[c].blocked}
StandInList(t, day) == InOrder(StandIns(t, day), <)

StandIn(plan, c) == IF Fits(Minutes(c), plan.gaps) # {} THEN PlaceIn(plan, c, "standin") ELSE plan

\* Mutant of Rank: the day ends at the first task that does not fit.
RankUntilFull(plan, t, day) ==
  IF plan.overflow = <<>> /\ Fits(Minutes(t), plan.gaps) # {} THEN PlaceIn(plan, t, "ranked")
  ELSE [InTurn(StandIn, plan, StandInList(t, day)) EXCEPT !.overflow = Append(@, t)]

\* A ranked task that fits no gap overflows, after its subtasks tried its place.
Rank(plan, t, day) ==
  IF Fits(Minutes(t), plan.gaps) # {} THEN PlaceIn(plan, t, "ranked")
  ELSE [InTurn(StandIn, plan, StandInList(t, day)) EXCEPT !.overflow = Append(@, t)]

-----------------------------------------------------------------------------
(* The plan of a day.                                                         *)

\* Open work that is nobody's subtask and not put off past the day.
OpenOn(t, day) == TopLevel(t) /\ ~Deferred(t, day) /\ StatusOf(t) # "done"
CanSchedule(t, day) == OpenOn(t, day) /\ ~tasks[t].blocked

Source(day) == {t \in Tasks : OpenOn(t, day)}
Schedulable(day) == {t \in Tasks : CanSchedule(t, day)}

\* What of the day is not over when the window opens.
Ends(i) == rows[i].start + rows[i].length
Commitments(day, from) == {c \in DayCommitments(day) : Ends(c.shown) > from}
Skipped(day, from) == {s \in SkippedCommitments(day) : Ends(s) > from}

\* A pin counts while its task is schedulable; one whose time is over floats.
HonouredPins(day) == {i \in LivePins(day) : CanSchedule(rows[i].task, day)}
IsTimed(i, from) == rows[i].start # None /\ rows[i].start + Minutes(rows[i].task) > from

\* The fixed part of a day: the pins at a time of their own, and what meets.
Timed(day, from) == {i \in HonouredPins(day) : IsTimed(i, from)}
Fixed(day, from) == {Block(rows[i].task, rows[i].start, "timed") : i \in Timed(day, from)}
Busy(day, from) ==
  {<<b.start, b.end>> : b \in Fixed(day, from)}
  \cup {<<rows[c.shown].start, Ends(c.shown)>> : c \in Commitments(day, from)}

\* What is packed around it: the other pins as they were put, then the rest by rank.
Floating(day, from) == InOrder(HonouredPins(day) \ Timed(day, from), EntryOrder)
Ranked(day) ==
  InOrder(Schedulable(day) \ {rows[i].task : i \in HonouredPins(day)},
          LAMBDA t, u : Precedes(RankKey(t, day), RankKey(u, day)))

Unpacked(day, from, to) ==
  LET busy == Busy(day, from)
  IN  [gaps   |-> FreeGaps(from, to, busy), late     |-> Max({to} \cup {b[2] : b \in busy}),
       blocks |-> Fixed(day, from),         overflow |-> <<>>]
Pinned(day, from, to) ==
  InTurn(LAMBDA plan, i : Float(plan, rows[i].task), Unpacked(day, from, to), Floating(day, from))
Packed(day, from, to) ==
  InTurn(LAMBDA plan, t : Rank(plan, t, day), Pinned(day, from, to), Ranked(day))

FocusPlan(day, from, minutes) ==
  LET packed == Packed(day, from, from + minutes)
  IN  [scheduled |-> packed.blocks, overflow |-> packed.overflow, busy |-> Busy(day, from),
       commitments |-> Commitments(day, from), skipped |-> Skipped(day, from),
       blocked |-> {t \in Source(day) : tasks[t].blocked}]
-----------------------------------------------------------------------------
(* What the plan promises.                                                    *)

\* No work disappears from a day and none is on it twice. Every open top-level
\* task not put off past the day is in exactly one of the schedule, the overflow
\* and the blocked list; a subtask is scheduled only in the place of a parent that
\* overflowed; a pin that counts is scheduled; and every occurrence of a series
\* that its day has not seen out is shown or listed as skipped, never both.
LosesNothing(plan, day, opens) ==
  LET own   == {b \in plan.scheduled : b.kind # "standin"}
      shown == {c.id : c \in plan.commitments}
  IN  /\ \A b, c \in plan.scheduled : b.task = c.task => b = c
      /\ IsInjective(plan.overflow)
      /\ {b.task : b \in own} \cup ToSet(plan.overflow) \cup plan.blocked = Source(day)
      /\ {b.task : b \in own} \cap ToSet(plan.overflow) = {}
      /\ plan.blocked \cap {b.task : b \in plan.scheduled} = {}
      /\ \A b \in plan.scheduled \ own : Parent[b.task] \in ToSet(plan.overflow)
      /\ \A i \in LivePins(day) : rows[i].task \notin ToSet(plan.overflow)
      /\ shown \cap plan.skipped = {}
      /\ \A s \in DaySeries(day) :
           LiveExceptions(s, day) = {} /\ Ends(s) > opens => s \in shown

NothingLost ==
  \A asked \in Asked :
    LosesNothing(FocusPlan(asked[1], asked[2], asked[3]), asked[1], asked[2])

\* Time is given out once. Two blocks overlap only where the user fixed both; any
\* other block lies inside the window, but for a pin that fitted nowhere, which
\* comes after the window and everything fixed.
BooksOnce(plan, opens, to) ==
  LET moved == {b \in plan.scheduled : b.kind # "timed"}
  IN  \A b \in moved :
        /\ \A c \in moved \ {b} : b.end <= c.start \/ c.end <= b.start
        /\ \A c \in plan.busy : b.end <= c[1] \/ c[2] <= b.start
        /\ IF b.kind = "late"
           THEN b.start >= to /\ \A c \in plan.busy : c[2] <= b.start
           ELSE opens <= b.start /\ b.end <= to

NoDoubleBooking ==
  \A asked \in Asked :
    BooksOnce(FocusPlan(asked[1], asked[2], asked[3]), asked[2], asked[2] + asked[3])

\* The day is filled in rank order. A task that overflows is never passed by a
\* lower-ranked one at least as long, and no stretch of the window left free
\* would have held it or a subtask that could have stood in for it.
HonoursRank(plan, day, opens, to) ==
  LET out  == ToSet(plan.overflow)
      left == out \cup ((UNION {StandIns(t, day) : t \in out}) \ {b.task : b \in plan.scheduled})
      free(from, till) ==
        /\ \A b \in plan.scheduled : b.end <= from \/ till <= b.start
        /\ \A b \in plan.busy : b[2] <= from \/ till <= b[1]
  IN  /\ \A t \in out, b \in plan.scheduled :
           b.kind = "ranked" /\ Precedes(RankKey(t, day), RankKey(b.task, day))
             => Minutes(b.task) < Minutes(t)
      /\ \A t \in left, from \in opens..to :
           from + Minutes(t) <= to => ~free(from, from + Minutes(t))

RankIsHonoured ==
  \A asked \in Asked :
    HonoursRank(FocusPlan(asked[1], asked[2], asked[3]), asked[1], asked[2], asked[2] + asked[3])
=============================================================================
