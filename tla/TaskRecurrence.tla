--------------------------- MODULE TaskRecurrence ---------------------------
(***************************************************************************)
(* services/task_recurrence.py: when a series has a next occurrence, on      *)
(* which date it lands, what the successor copies, and reconcile, the single *)
(* entry point through which every write rolls series forward.               *)
(*                                                                          *)
(* reconcile walks the rows its seeds lead to and inserts successors as it   *)
(* meets effectively done series heads.  A successor is open, top-level and  *)
(* nothing waits on it, so inserting one changes no other row's effective    *)
(* status and no other head's date: the walk's outcome is the set of heads   *)
(* it reaches, judged on the store it starts from.                           *)
(***************************************************************************)
EXTENDS TaskRows

IsSeriesHead(S, t) == S.task[t].repeat # 0 /\ S.task[t].due # None

\* next_due_date: a day/week/month interval is a fixed number of dates ahead, and
\* past date.max there is none.
HasNextDue(due, every) == due + every <= MaxDate

Occurrences(S, series, due) ==
  {t \in Live(S) : series # None /\ S.task[t].series = series /\ S.task[t].due = due}

LiveOccurrenceOn(S, series, due, exclude) == Occurrences(S, series, due) \ {exclude} # {}

SkippedOccurrenceOn(S, series, due) ==
  \E t \in Rows(S) : /\ S.task[t].series = series /\ S.task[t].due = due
                     /\ S.task[t].skipped

\* Mutant of LandingDates: a skipped date is landed on like any other.
AllLaterDates(S, t) ==
  {d \in Date : \E k \in Date : d = S.task[t].due + k * S.task[t].repeat}

\* The dates a roll-forward from t may stop on: one interval or more ahead, and
\* either a live occurrence is there already or no skip holds the date.
LandingDates(S, t) ==
  {d \in Date :
     /\ \E k \in Date : d = S.task[t].due + k * S.task[t].repeat
     /\ \/ Occurrences(S, S.task[t].series, d) # {}
        \/ ~SkippedOccurrenceOn(S, S.task[t].series, d)}

Lands(S, t, d) == d \in LandingDates(S, t) /\ \A e \in LandingDates(S, t) : d <= e

\* Past date.max the write is refused with a RecurrenceError and rolled back.
RollsOffCalendar(S, t) == LandingDates(S, t) = {}

\* Mutant of Inserting: completion is taken for a once-only event.
InsertingAlways(S, H) == H

\* The heads of H that insert a successor: a live row on the date is reused, and
\* of two heads that land on one vacant slot the first inserts for both.
Inserting(S, H) ==
  {h \in H : \E d \in Date :
     /\ Lands(S, h, d)
     /\ Occurrences(S, S.task[h].series, d) = {}
     /\ \A g \in H : S.task[g].series = S.task[h].series /\ Lands(S, g, d) => h <= g}

-----------------------------------------------------------------------------
(* Successors: <<h, r>> stands for the copy of r in the successor of h.      *)

Copies(S, H) == {c \in H \X TaskId : c[2] \in LiveSubtree(S, c[1])}

\* A head is inserted before its checklist, and the ids follow one another.
CopiedBefore(c, e) ==
  \/ c[1] < e[1]
  \/ c[1] = e[1] /\ c[2] # e[2] /\ (c[2] = c[1] \/ (e[2] # e[1] /\ c[2] < e[2]))

TakesId(S, H, c, n) ==
  /\ n \in FreeIds(S)
  /\ Cardinality({m \in FreeIds(S) : m < n})
       = Cardinality({e \in Copies(S, H) : CopiedBefore(e, c)})

CopyId(S, H, c) == CHOOSE n \in TaskId : TakesId(S, H, c, n)

\* Bound: the run has ids left for every copy.
HasRoom(S, H) == \A c \in Copies(S, H) : \E n \in TaskId : TakesId(S, H, c, n)

\* A copy starts open and unmarked on the new date; only the head stays in the
\* series, and the checklist hangs together below it.
CopyRow(S, H, c) ==
  LET head  == S.task[c[1]]
      row   == S.task[c[2]]
      isTop == c[1] = c[2]
  IN  [NoRow EXCEPT
         !.state   = "live",
         !.project = row.project,
         !.parent  = IF isTop THEN None ELSE CopyId(S, H, <<c[1], row.parent>>),
         !.due     = CHOOSE d \in Date : Lands(S, c[1], d),
         !.repeat  = IF isTop THEN row.repeat ELSE 0,
         !.series  = IF isTop THEN row.series ELSE None]

\* Mutant of CopiedEdges: a clone takes over what its source waits on.
CopiedOutgoingEdges(S, H) ==
  LET own(h) == [u \in LiveSubtree(S, h) |-> CopyId(S, H, <<h, u>>)]
  IN  UNION {{<<own(h)[e[1]], IF e[2] \in DOMAIN own(h) THEN own(h)[e[2]] ELSE e[2]>> :
                e \in {d \in S.dep : d[1] \in LiveSubtree(S, h) /\ d[2] \in Live(S)}} : h \in H}

\* Edges with both ends inside the checklist are copied; the head's own edges and
\* edges that leave the tree are not.
CopiedEdges(S, H) ==
  UNION {{<<CopyId(S, H, <<h, e[1]>>), CopyId(S, H, <<h, e[2]>>)>> :
            e \in {d \in S.dep : {d[1], d[2]} \subseteq LiveSubtree(S, h) \ {h}}} : h \in H}

InsertOccurrences(S, H) ==
  [S EXCEPT
     !.task = [n \in TaskId |->
                 IF \E c \in Copies(S, H) : TakesId(S, H, c, n)
                 THEN CopyRow(S, H, CHOOSE c \in Copies(S, H) : TakesId(S, H, c, n))
                 ELSE S.task[n]],
     !.dep  = S.dep \cup CopiedEdges(S, H)]

\* create_next_occurrence for each of the heads H.
CanRollForward(S, H) ==
  (\A h \in H : ~RollsOffCalendar(S, h)) /\ HasRoom(S, Inserting(S, H))

RollForward(S, H) == InsertOccurrences(S, Inserting(S, H))

-----------------------------------------------------------------------------
(* reconcile *)

\* Mutant of WalkEdges: only the parent chain is climbed.
ClimbEdges(S) ==
  {<<t, S.task[t].parent>> : t \in {r \in Live(S) : S.task[r].parent # None /\ ~IsSeriesHead(S, r)}}

\* From a row to its parent, unless the row is a series head itself, and from an
\* effectively done row to whatever waits on it.
WalkEdges(S) ==
  LET done == EffectivelyDone(S)
  IN  {<<t, S.task[t].parent>> : t \in {r \in Live(S) : S.task[r].parent # None /\ ~IsSeriesHead(S, r)}}
      \cup {<<e[2], e[1]>> : e \in {d \in S.dep : d[2] \in done}}

Reconciled(S, seeds) ==
  Reach(LiveEdges(S, WalkEdges(S)), seeds \cap Live(S))

\* The series heads a reconcile from seeds rolls forward.
DueHeads(S, seeds) ==
  {t \in Reconciled(S, seeds) \cap EffectivelyDone(S) : IsSeriesHead(S, t)}

CanReconcile(S, seeds) == CanRollForward(S, DueHeads(S, seeds))

Reconcile(S, seeds) == RollForward(S, DueHeads(S, seeds))
=============================================================================
