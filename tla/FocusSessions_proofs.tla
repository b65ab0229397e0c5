------------------------ MODULE FocusSessions_proofs ------------------------
(* What holds of the session table for any days, tasks and bounds, and that   *)
(* it implements the abstract day. The phone module's steps are steps of the  *)
(* table, so all of it holds under every phone, outbox and retry; and what    *)
(* the phone shows is what its outbox leaves in the table.                    *)
EXTENDS FocusPhone, WellFoundedInduction, TLAPS

TableInv == SessionsTypeOK /\ OneRowPerClaim /\ RowsNameTasks

\* get_clock finds a live clock exactly when there is one.
LEMMA GetClockFinds ==
  ASSUME NEW R \in SUBSET Row
  PROVE  /\ GetClock(R) = None => \A r \in R : ~IsClock(r)
         /\ GetClock(R) # None => GetClock(R) \in R /\ IsClock(GetClock(R))
<1>1. CASE \E r \in R : IsClock(r)
  <2>1. GetClock(R) \in R /\ IsClock(GetClock(R))
    BY <1>1 DEF GetClock
  <2>2. GetClock(R) # None
    BY <2>1, SessionsAssumption DEF Row
  <2> QED
    BY <2>1, <2>2
<1>2. CASE ~\E r \in R : IsClock(r)
  BY <1>2 DEF GetClock
<1> QED
  BY <1>1, <1>2

Unique(R) ==
  \A r, s \in R : r = s \/ IsClock(r) # IsClock(s) \/ (~IsClock(r) /\ ~Names(s, r.day, r.task))

\* The four writes keep a table of rows that claim nothing twice, and keep to
\* the rows there were and the task they name.
LEMMA SetClockKeeps ==
  ASSUME NEW R \in SUBSET Row, Unique(R), now \in Nat,
         NEW day_ \in Days, NEW t \in Tasks, NEW running \in BOOLEAN, NEW ms \in Nat
  PROVE  LET S == SetClock(R, day_, t, running, ms)
         IN  S \in SUBSET Row /\ Unique(S) /\ \A r \in S : r \in R \/ r.task = t
<1> DEFINE live == GetClock(R)
           c == ClockRow(day_, t, IF running THEN now ELSE None, ms)
<1>1. c \in Row /\ IsClock(c) /\ c.task = t
  BY DEF ClockRow, Row, IsClock
<1>2. \A r \in R \ {live} : ~IsClock(r)
  <2>1. CASE live = None
    BY <2>1, GetClockFinds
  <2>2. CASE live # None
    BY <2>2, GetClockFinds DEF Unique
  <2> QED
    BY <2>1, <2>2
<1>3. Unique((R \ {live}) \cup {c})
  BY <1>1, <1>2 DEF Unique
<1> QED
  BY <1>1, <1>3 DEF SetClock

LEMMA ClearClockKeeps ==
  ASSUME NEW R \in SUBSET Row, Unique(R), NEW day_ \in Days, NEW t \in Tasks
  PROVE  ClearClock(R, day_, t) \subseteq R /\ Unique(ClearClock(R, day_, t))
BY DEF ClearClock, Unique

LEMMA FinishBlockKeeps ==
  ASSUME NEW R \in SUBSET Row, Unique(R),
         NEW day_ \in Days, NEW t \in Tasks, NEW minutes \in Nat
  PROVE  LET S == FinishBlock(R, day_, t, minutes)
         IN  S \in SUBSET Row /\ Unique(S) /\ \A r \in S : r \in R \/ r.task = t
<1> DEFINE K == ClearClock(R, day_, t)
           kept == K \ LiveBlock(K, day_, t)
           b == BlockRow(day_, t, minutes)
<1>1. b \in Row /\ ~IsClock(b) /\ b.task = t /\ b.day = day_
  BY SessionsAssumption DEF BlockRow, Row, IsClock
<1>2. K \subseteq R /\ Unique(K)
  BY ClearClockKeeps
<1>3. LiveBlock(R, day_, t) \cap K = LiveBlock(K, day_, t)
  BY <1>2 DEF LiveBlock
<1>4. FinishBlock(R, day_, t, minutes) = kept \cup {b}
  BY <1>2, <1>3 DEF FinishBlock
<1>5. \A r \in kept : IsClock(r) \/ ~Names(r, day_, t)
  BY DEF LiveBlock
<1>6. Unique(kept \cup {b})
  BY <1>1, <1>2, <1>5 DEF Unique, Names
<1> QED
  BY <1>1, <1>2, <1>4, <1>6

LEMMA FewerRowsKeep ==
  ASSUME NEW R, NEW S \in SUBSET R, Unique(R)
  PROVE  Unique(S)
BY DEF Unique

-----------------------------------------------------------------------------

LEMMA TableInit == SessionsInit => TableInv
BY DEF SessionsInit, TableInv, SessionsTypeOK, OneRowPerClaim, RowsNameTasks

LEMMA TableStep == TableInv /\ [SessionsNext]_sessionVars => TableInv'
<1> SUFFICES ASSUME TableInv, [SessionsNext]_sessionVars PROVE TableInv'
  OBVIOUS
<1> USE DEF TableInv
<1>u. Unique(rows) /\ rows \in SUBSET Row /\ now \in Nat
  BY DEF OneRowPerClaim, Unique, SessionsTypeOK
<1>v. ASSUME rows' \in SUBSET Row, Unique(rows'), UNCHANGED <<tasks, now>>,
             \A r \in rows' : r \in rows \/ tasks[r.task] = "active"
      PROVE  TableInv'
  BY <1>v DEF SessionsTypeOK, OneRowPerClaim, RowsNameTasks, Unique
<1>1. ASSUME NEW d \in Days, NEW t \in Tasks, NEW running \in BOOLEAN, NEW ms \in 0..MaxMs,
             PutClock(d, t, running, ms)
      PROVE  TableInv'
  <2>0. ms \in Nat
    BY SessionsAssumption
  <2>1. rows' = SetClock(rows, d, t, running, ms) /\ UNCHANGED <<tasks, now>> /\ tasks[t] = "active"
    BY <1>1 DEF PutClock, Active
  <2>2. rows' \in SUBSET Row /\ Unique(rows') /\ \A r \in rows' : r \in rows \/ r.task = t
    BY <2>0, <2>1, <1>u, SetClockKeeps
  <2> QED
    BY <2>1, <2>2, <1>v
<1>2. ASSUME NEW d \in Days, NEW t \in Tasks, DeleteClock(d, t) PROVE TableInv'
  <2>1. rows' = ClearClock(rows, d, t) /\ UNCHANGED <<tasks, now>>
    BY <1>2 DEF DeleteClock
  <2>2. rows' \subseteq rows /\ Unique(rows')
    BY <2>1, <1>u, ClearClockKeeps
  <2> QED
    BY <2>1, <2>2, <1>u, <1>v
<1>3. ASSUME NEW d \in Days, NEW t \in Tasks, NEW minutes \in 0..MaxMinutes, PutBlock(d, t, minutes)
      PROVE  TableInv'
  <2>0. minutes \in Nat
    BY SessionsAssumption
  <2>1. rows' = FinishBlock(rows, d, t, minutes) /\ UNCHANGED <<tasks, now>> /\ tasks[t] = "active"
    BY <1>3 DEF PutBlock, Active
  <2>2. rows' \in SUBSET Row /\ Unique(rows') /\ \A r \in rows' : r \in rows \/ r.task = t
    BY <2>0, <2>1, <1>u, FinishBlockKeeps
  <2> QED
    BY <2>1, <2>2, <1>v
<1>4. ASSUME NEW d \in Days, NEW t \in Tasks, DeleteBlock(d, t) PROVE TableInv'
  <2>1. rows' \subseteq rows /\ UNCHANGED <<tasks, now>>
    BY <1>4 DEF DeleteBlock, RemoveBlock
  <2>2. Unique(rows')
    BY <2>1, <1>u, FewerRowsKeep
  <2> QED
    BY <2>1, <2>2, <1>u, <1>v
<1>5. ASSUME NEW t \in Tasks, TrashTask(t) PROVE TableInv'
  BY <1>5 DEF TrashTask, Active, SessionsTypeOK, OneRowPerClaim, RowsNameTasks, Row
<1>6. ASSUME NEW t \in Tasks, RestoreTask(t) PROVE TableInv'
  BY <1>6 DEF RestoreTask, SessionsTypeOK, OneRowPerClaim, RowsNameTasks, Row
<1>7. ASSUME NEW t \in Tasks, PurgeTask(t) PROVE TableInv'
  <2>1. rows' \subseteq rows /\ \A r \in rows' : r.task # t
    BY <1>7 DEF PurgeTask, PurgeForTasks
  <2>2. Unique(rows')
    BY <2>1, <1>u, FewerRowsKeep
  <2>3. SessionsTypeOK'
    BY <1>7, <2>1 DEF PurgeTask, SessionsTypeOK
  <2>4. RowsNameTasks'
    BY <1>7, <2>1, <1>u DEF PurgeTask, RowsNameTasks, SessionsTypeOK, Row
  <2> QED
    BY <2>2, <2>3, <2>4 DEF OneRowPerClaim, Unique
<1>8. CASE Tick
  BY <1>8 DEF Tick, SessionsTypeOK, OneRowPerClaim, RowsNameTasks
<1>9. CASE UNCHANGED sessionVars
  BY <1>9 DEF sessionVars, SessionsTypeOK, OneRowPerClaim, RowsNameTasks
<1> QED
  BY <1>1, <1>2, <1>3, <1>4, <1>5, <1>6, <1>7, <1>8, <1>9 DEF SessionsNext

\* Whatever requests arrive, in whatever order and however often: one live
\* clock, one booking per block, and no row of a task that is gone.
THEOREM TableSafe == SessionsSpec => [](SessionsTypeOK /\ OneRowPerClaim /\ RowsNameTasks)
BY TableInit, TableStep, PTL DEF SessionsSpec, TableInv

-----------------------------------------------------------------------------
(* The refinement: what a table of unique rows stands for.                    *)

LEMMA ClockFound ==
  ASSUME NEW R \in SUBSET Row, Unique(R), NEW c \in R, IsClock(c)
  PROVE  /\ GetClock(R) = c
         /\ ClockOf(R) = [block |-> <<c.day, c.task>>, leg |-> c.leg, banked |-> c.banked]
         /\ ClockOf(R) # None
<1>1. GetClock(R) # None
  BY GetClockFinds
<1>2. GetClock(R) \in R /\ IsClock(GetClock(R))
  BY <1>1, GetClockFinds
<1>3. GetClock(R) = c
  BY <1>2 DEF Unique
<1>4. ClockOf(R) = [block |-> <<c.day, c.task>>, leg |-> c.leg, banked |-> c.banked]
  BY <1>1, <1>3 DEF ClockOf
<1>5. [block |-> <<c.day, c.task>>, leg |-> c.leg, banked |-> c.banked]
        \in [block : Days \X Tasks, leg : Nat \cup {None}, banked : Nat]
  BY DEF Row
<1> QED
  BY <1>3, <1>4, <1>5, SessionsAssumption

LEMMA NoClockFound ==
  ASSUME NEW R \in SUBSET Row, \A r \in R : ~IsClock(r)
  PROVE  ClockOf(R) = None
BY DEF ClockOf, GetClock

\* Rows that are clocks, or of another block, do not enter into a booking.
LEMMA SameBlocksSameBookings ==
  ASSUME NEW R, NEW S, \A r \in (R \ S) \cup (S \ R) : IsClock(r)
  PROVE  BookedOf(R) = BookedOf(S)
<1>1. \A d \in Days, t \in Tasks : LiveBlock(R, d, t) = LiveBlock(S, d, t)
  BY DEF LiveBlock
<1> QED
  BY <1>1 DEF BookedOf

LEMMA SetClockSets ==
  ASSUME TableInv, NEW d \in Days, NEW t \in Tasks, NEW running \in BOOLEAN, NEW ms \in 0..MaxMs,
         PutClock(d, t, running, ms)
  PROVE  Day!Time(<<d, t>>, running, ms)
<1> DEFINE live == GetClock(rows)
           c == ClockRow(d, t, IF running THEN now ELSE None, ms)
<1>1. rows \in SUBSET Row /\ Unique(rows) /\ now \in Nat /\ ms \in Nat
  BY SessionsAssumption DEF TableInv, SessionsTypeOK, OneRowPerClaim, Unique
<1>2. rows' = SetClock(rows, d, t, running, ms) /\ now' = now
  BY DEF PutClock
<1>3. rows' \in SUBSET Row /\ Unique(rows')
  BY <1>1, <1>2, SetClockKeeps
<1>4. CASE live # None /\ Names(live, d, t) /\ live.leg = None /\ ~running /\ live.banked = ms
  <2>1. rows' = rows /\ live \in rows /\ IsClock(live)
    BY <1>1, <1>2, <1>4, GetClockFinds DEF SetClock
  <2>2. ClockOf(rows) = [block |-> <<d, t>>, leg |-> None, banked |-> ms]
    BY <1>1, <1>4, <2>1, ClockFound DEF Names
  <2> QED
    BY <1>2, <1>4, <2>1, <2>2 DEF Day!Time
<1>5. CASE ~(live # None /\ Names(live, d, t) /\ live.leg = None /\ ~running /\ live.banked = ms)
  <2>1. rows' = (rows \ {live}) \cup {c}
    BY <1>2, <1>5 DEF SetClock
  <2>2. c \in rows' /\ IsClock(c)
    BY <2>1 DEF IsClock, ClockRow
  <2>3. ClockOf(rows') = [block |-> <<d, t>>, leg |-> IF running THEN now ELSE None, banked |-> ms]
    BY <1>3, <2>2, ClockFound DEF ClockRow
  <2>4. \A r \in (rows \ rows') \cup (rows' \ rows) : IsClock(r)
    <3>1. \A r \in rows \ rows' : r = live /\ live \in rows
      BY <2>1
    <3>2. \A r \in rows' \ rows : r = c
      BY <2>1
    <3>3. live \in rows => live # None
      BY <1>1, SessionsAssumption DEF Row
    <3>4. live \in rows => IsClock(live)
      BY <1>1, <3>3, GetClockFinds
    <3> QED
      BY <3>1, <3>2, <3>4, <2>2
  <2>5. BookedOf(rows) = BookedOf(rows')
    BY <2>4, SameBlocksSameBookings
  <2> QED
    BY <1>2, <2>3, <2>5 DEF Day!Time
<1> QED
  BY <1>4, <1>5

\* A clear of the block the clock times ends it; any other clear is a stutter.
LEMMA ClearClockClears ==
  ASSUME NEW R \in SUBSET Row, Unique(R), NEW d \in Days, NEW t \in Tasks
  PROVE  LET S == ClearClock(R, d, t)
         IN  /\ BookedOf(S) = BookedOf(R)
             /\ \/ ClockOf(R) # None /\ ClockOf(R).block = <<d, t>> /\ ClockOf(S) = None
                \/ ~(ClockOf(R) # None /\ ClockOf(R).block = <<d, t>>) /\ S = R
<1> DEFINE live == GetClock(R)
           S == ClearClock(R, d, t)
<1>1. CASE live # None /\ Names(live, d, t)
  <2>1. S = R \ {live} /\ live \in R /\ IsClock(live)
    BY <1>1, GetClockFinds DEF ClearClock
  <2>2. \A r \in S : ~IsClock(r)
    BY <2>1 DEF Unique
  <2>3. ClockOf(S) = None
    BY <2>1, <2>2, NoClockFound
  <2>4. ClockOf(R) # None /\ ClockOf(R).block = <<d, t>>
    BY <1>1, <2>1, ClockFound DEF Names
  <2>5. BookedOf(S) = BookedOf(R)
    BY <2>1, SameBlocksSameBookings
  <2> QED
    BY <2>3, <2>4, <2>5
<1>2. CASE live # None /\ ~Names(live, d, t)
  <2>1. S = R /\ live \in R /\ IsClock(live) /\ live \in Row
    BY <1>2, GetClockFinds DEF ClearClock
  <2>2. ClockOf(R).block = <<live.day, live.task>>
    BY <2>1, ClockFound
  <2>3. ClockOf(R).block # <<d, t>>
    BY <1>2, <2>2 DEF Names
  <2> QED
    BY <2>1, <2>3
<1>3. CASE live = None
  BY <1>3 DEF ClearClock, ClockOf
<1> QED
  BY <1>1, <1>2, <1>3

\* A finish books its block and ends no clock but the block's own.
LEMMA FinishBooks ==
  ASSUME TableInv, NEW d \in Days, NEW t \in Tasks, NEW minutes \in 0..MaxMinutes,
         PutBlock(d, t, minutes)
  PROVE  Day!Book(<<d, t>>, minutes)
<1> DEFINE K == ClearClock(rows, d, t)
           b == BlockRow(d, t, minutes)
<1>1. rows \in SUBSET Row /\ Unique(rows) /\ now \in Nat /\ minutes \in Nat
  BY SessionsAssumption DEF TableInv, SessionsTypeOK, OneRowPerClaim, Unique
<1>2. rows' = FinishBlock(rows, d, t, minutes) /\ now' = now
  BY DEF PutBlock
<1>3. K \subseteq rows /\ Unique(K)
  BY <1>1, ClearClockKeeps
<1>4. rows' = (K \ LiveBlock(rows, d, t)) \cup {b}
  BY <1>2 DEF FinishBlock
<1>5. ~IsClock(b) /\ Names(b, d, t) /\ b.minutes = minutes
  BY <1>1, SessionsAssumption DEF IsClock, Names, BlockRow
<1>6. rows' \in SUBSET Row
  BY <1>1, <1>2, FinishBlockKeeps
<1>7. ClockOf(rows') = ClockOf(K)
  <2>1. \A r \in rows' \cup K : IsClock(r) => r \in rows' /\ r \in K
    BY <1>4, <1>5 DEF LiveBlock
  <2>2. (\E r \in rows' : IsClock(r)) <=> (\E r \in K : IsClock(r))
    BY <2>1
  <2>3. GetClock(rows') = GetClock(K)
    <3>1. CASE \E r \in K : IsClock(r)
      <4>1. PICK r \in K : IsClock(r)
        BY <3>1
      <4>2. GetClock(K) = r
        BY <4>1, <1>1, <1>3, ClockFound
      <4>3. Unique(rows')
        BY <1>1, <1>2, FinishBlockKeeps
      <4>4. GetClock(rows') = r
        BY <4>1, <4>3, <1>6, <2>1, ClockFound
      <4> QED
        BY <4>2, <4>4
    <3>2. CASE ~\E r \in K : IsClock(r)
      BY <3>2, <2>2 DEF GetClock
    <3> QED
      BY <3>1, <3>2
  <2> QED
    BY <2>3 DEF ClockOf
<1>8. ClockOf(rows') = IF ClockOf(rows) # None /\ ClockOf(rows).block = <<d, t>> THEN None ELSE ClockOf(rows)
  BY <1>1, <1>7, ClearClockClears
<1>9. BookedOf(rows') = [BookedOf(rows) EXCEPT ![<<d, t>>] = minutes]
  <2>1. BookedOf(K) = BookedOf(rows)
    BY <1>1, ClearClockClears
  <2>2. LiveBlock(rows', d, t) = {b}
    BY <1>3, <1>4, <1>5 DEF LiveBlock
  <2>3. ASSUME NEW e \in Days, NEW u \in Tasks, <<e, u>> # <<d, t>>
        PROVE  LiveBlock(rows', e, u) = LiveBlock(K, e, u)
    BY <1>4, <1>5, <2>3 DEF LiveBlock, Names
  <2>4. ASSUME NEW x \in Days \X Tasks
        PROVE  BookedOf(rows')[x] = [BookedOf(K) EXCEPT ![<<d, t>>] = minutes][x]
    <3>1. x = <<x[1], x[2]>> /\ x[1] \in Days /\ x[2] \in Tasks
      OBVIOUS
    <3>2. CASE x = <<d, t>>
      <4>1. Booking({b}) = minutes
        BY <1>5 DEF Booking
      <4> QED
        BY <3>2, <2>2, <4>1 DEF BookedOf
    <3>3. CASE x # <<d, t>>
      <4>1. LiveBlock(rows', x[1], x[2]) = LiveBlock(K, x[1], x[2])
        BY <3>1, <3>3, <2>3
      <4>2. BookedOf(rows')[x] = BookedOf(K)[x]
        BY <4>1 DEF BookedOf
      <4> QED
        BY <4>2, <3>3 DEF BookedOf
    <3> QED
      BY <3>2, <3>3
  <2> QED
    BY <2>1, <2>4 DEF BookedOf
<1> QED
  BY <1>2, <1>8, <1>9 DEF Day!Book, Day!Times

LEMMA GoneBlocksKeepClock ==
  ASSUME NEW R \in SUBSET Row, Unique(R), NEW S \in SUBSET R,
         \A r \in R \ S : ~IsClock(r)
  PROVE  ClockOf(S) = ClockOf(R)
<1>1. Unique(S)
  BY FewerRowsKeep
<1>2. CASE \E r \in R : IsClock(r)
  <2>1. PICK r \in R : IsClock(r)
    BY <1>2
  <2> QED
    BY <2>1, <1>1, ClockFound
<1>3. CASE ~\E r \in R : IsClock(r)
  BY <1>3, NoClockFound
<1> QED
  BY <1>2, <1>3

LEMMA RemoveUnbooks ==
  ASSUME TableInv, NEW d \in Days, NEW t \in Tasks, DeleteBlock(d, t)
  PROVE  Day!Unbook(<<d, t>>)
<1>1. rows \in SUBSET Row /\ Unique(rows)
  BY DEF TableInv, SessionsTypeOK, OneRowPerClaim, Unique
<1>2. rows' = rows \ LiveBlock(rows, d, t) /\ now' = now
  BY DEF DeleteBlock, RemoveBlock
<1>3. ClockOf(rows') = ClockOf(rows)
  <2>1. \A r \in rows \ rows' : ~IsClock(r)
    BY <1>2 DEF LiveBlock
  <2> QED
    BY <1>1, <1>2, <2>1, GoneBlocksKeepClock
<1>4. LiveBlock(rows', d, t) = {}
  BY <1>2 DEF LiveBlock
<1>n. Booking({}) = None
  BY DEF Booking
<1>5. \A e \in Days, u \in Tasks : <<e, u>> # <<d, t>> => LiveBlock(rows', e, u) = LiveBlock(rows, e, u)
  BY <1>2 DEF LiveBlock, Names
<1>6. BookedOf(rows') = [BookedOf(rows) EXCEPT ![<<d, t>>] = None]
  <2>1. ASSUME NEW x \in Days \X Tasks
        PROVE  BookedOf(rows')[x] = [BookedOf(rows) EXCEPT ![<<d, t>>] = None][x]
    <3>1. x = <<x[1], x[2]>> /\ x[1] \in Days /\ x[2] \in Tasks
      OBVIOUS
    <3>2. CASE x = <<d, t>>
      BY <3>2, <1>4, <1>n DEF BookedOf
    <3>3. CASE x # <<d, t>>
      <4>1. LiveBlock(rows', x[1], x[2]) = LiveBlock(rows, x[1], x[2])
        BY <3>1, <3>3, <1>5
      <4> QED
        BY <4>1, <3>3 DEF BookedOf
    <3> QED
      BY <3>2, <3>3
  <2> QED
    BY <2>1 DEF BookedOf
<1> QED
  BY <1>2, <1>3, <1>6 DEF Day!Unbook

LEMMA PurgeForgets ==
  ASSUME TableInv, NEW t \in Tasks, PurgeTask(t)
  PROVE  Day!Forget(t)
<1>1. rows \in SUBSET Row /\ Unique(rows)
  BY DEF TableInv, SessionsTypeOK, OneRowPerClaim, Unique
<1>2. rows' = {r \in rows : r.task # t} /\ now' = now
  BY DEF PurgeTask, PurgeForTasks
<1>3. BookedOf(rows') = [b \in Days \X Tasks |-> IF b[2] = t THEN None ELSE BookedOf(rows)[b]]
  <2>1. \A e \in Days : LiveBlock(rows', e, t) = {}
    BY <1>2 DEF LiveBlock, Names
  <2>2. \A e \in Days, u \in Tasks : u # t => LiveBlock(rows', e, u) = LiveBlock(rows, e, u)
    BY <1>2 DEF LiveBlock, Names
  <2>3. Booking({}) = None
    BY DEF Booking
  <2>4. ASSUME NEW x \in Days \X Tasks
        PROVE  BookedOf(rows')[x] = IF x[2] = t THEN None ELSE BookedOf(rows)[x]
    <3>1. x[1] \in Days /\ x[2] \in Tasks
      OBVIOUS
    <3> QED
      BY <3>1, <2>1, <2>2, <2>3 DEF BookedOf
  <2> QED
    BY <2>4 DEF BookedOf
<1>4. ClockOf(rows') = IF ClockOf(rows) # None /\ ClockOf(rows).block[2] = t THEN None ELSE ClockOf(rows)
  <2>0. rows' \in SUBSET Row /\ Unique(rows')
    BY <1>1, <1>2, FewerRowsKeep
  <2>1. CASE \E r \in rows : IsClock(r)
    <3>1. PICK r \in rows : IsClock(r)
      BY <2>1
    <3>2. ClockOf(rows) # None /\ ClockOf(rows).block[2] = r.task
      BY <1>1, <3>1, ClockFound
    <3>3. CASE r.task = t
      <4>1. \A s \in rows' : ~IsClock(s)
        BY <1>1, <1>2, <3>1, <3>3 DEF Unique
      <4> QED
        BY <4>1, <2>0, <3>2, <3>3, NoClockFound
    <3>4. CASE r.task # t
      <4>1. r \in rows'
        BY <1>2, <3>1, <3>4
      <4> QED
        BY <1>1, <2>0, <3>1, <3>2, <3>4, <4>1, ClockFound
    <3> QED
      BY <3>3, <3>4
  <2>2. CASE ~\E r \in rows : IsClock(r)
    BY <2>2, <1>1, <1>2, NoClockFound
  <2> QED
    BY <2>1, <2>2
<1> QED
  BY <1>2, <1>3, <1>4 DEF Day!Forget, Day!Blocks

LEMMA DayInitial == SessionsInit => Day!DayInit
<1> SUFFICES ASSUME SessionsInit PROVE Day!DayInit
  OBVIOUS
<1>1. rows = {} /\ now = 0
  BY DEF SessionsInit
<1>2. ClockOf(rows) = None
  BY <1>1, NoClockFound
<1>3. \A d \in Days, t \in Tasks : LiveBlock(rows, d, t) = {}
  BY <1>1 DEF LiveBlock
<1> QED
  <2>1. Booking({}) = None
    BY DEF Booking
  <2>2. \A b \in Days \X Tasks : Booking(LiveBlock(rows, b[1], b[2])) = None
    BY <1>3, <2>1
  <2>3. BookedOf(rows) = [b \in Days \X Tasks |-> None]
    BY <2>2 DEF BookedOf
  <2> QED
    BY <1>1, <1>2, <2>3 DEF Day!DayInit, Day!Blocks

DayVars == <<ClockOf(rows), BookedOf(rows), now>>

LEMMA DayStep == TableInv /\ [SessionsNext]_sessionVars => [Day!DayNext]_DayVars
<1> SUFFICES ASSUME TableInv, [SessionsNext]_sessionVars
             PROVE  Day!DayNext \/ UNCHANGED DayVars
  OBVIOUS
<1>0. rows \in SUBSET Row /\ Unique(rows)
  BY DEF TableInv, SessionsTypeOK, OneRowPerClaim, Unique
<1>1. ASSUME NEW d \in Days, NEW t \in Tasks, NEW running \in BOOLEAN, NEW ms \in 0..MaxMs,
             PutClock(d, t, running, ms)
      PROVE  Day!DayNext
  <2>1. Day!Time(<<d, t>>, running, ms)
    BY <1>1, SetClockSets
  <2> QED
    BY <2>1 DEF Day!DayNext, Day!Blocks
<1>2. ASSUME NEW d \in Days, NEW t \in Tasks, DeleteClock(d, t)
      PROVE  Day!DayNext \/ UNCHANGED DayVars
  <2>1. rows' = ClearClock(rows, d, t) /\ now' = now
    BY <1>2 DEF DeleteClock
  <2>2. CASE ClockOf(rows) # None /\ ClockOf(rows).block = <<d, t>>
    <3>1. Day!Untime(<<d, t>>)
      BY <1>0, <2>1, <2>2, ClearClockClears DEF Day!Untime, Day!Times
    <3> QED
      BY <3>1 DEF Day!DayNext, Day!Blocks
  <2>3. CASE ~(ClockOf(rows) # None /\ ClockOf(rows).block = <<d, t>>)
    <3>1. rows' = rows
      BY <1>0, <2>1, <2>3, ClearClockClears
    <3> QED
      BY <2>1, <3>1 DEF DayVars
  <2> QED
    BY <2>2, <2>3
<1>3. ASSUME NEW d \in Days, NEW t \in Tasks, NEW minutes \in 0..MaxMinutes, PutBlock(d, t, minutes)
      PROVE  Day!DayNext
  <2>1. Day!Book(<<d, t>>, minutes)
    BY <1>3, FinishBooks
  <2> QED
    BY <2>1 DEF Day!DayNext, Day!Blocks
<1>4. ASSUME NEW d \in Days, NEW t \in Tasks, DeleteBlock(d, t) PROVE Day!DayNext
  <2>1. Day!Unbook(<<d, t>>)
    BY <1>4, RemoveUnbooks
  <2> QED
    BY <2>1 DEF Day!DayNext, Day!Blocks
<1>5. ASSUME NEW t \in Tasks, TrashTask(t) \/ RestoreTask(t) PROVE UNCHANGED DayVars
  BY <1>5 DEF TrashTask, RestoreTask, DayVars
<1>6. ASSUME NEW t \in Tasks, PurgeTask(t) PROVE Day!DayNext
  <2>1. Day!Forget(t)
    BY <1>6, PurgeForgets
  <2> QED
    BY <2>1 DEF Day!DayNext
<1>7. CASE Tick
  <2>1. Day!Pass
    BY <1>7 DEF Tick, Day!Pass
  <2> QED
    BY <2>1 DEF Day!DayNext
<1>8. CASE UNCHANGED sessionVars
  BY <1>8 DEF sessionVars, DayVars
<1> QED
  BY <1>1, <1>2, <1>3, <1>4, <1>5, <1>6, <1>7, <1>8 DEF SessionsNext

\* Every request of the table is one step of the abstract day or none at all: a
\* write reaches no clock and no booking but the ones it names.
THEOREM TableKeepsTheDay == SessionsSpec => KeepsTheDay
<1>1. TableInv /\ [SessionsNext]_sessionVars => [Day!DayNext]_<<ClockOf(rows), BookedOf(rows), now>>
  BY DayStep DEF DayVars
<1> QED
  BY <1>1, DayInitial, TableInit, TableStep, PTL DEF SessionsSpec, KeepsTheDay, Day!DaySpec

-----------------------------------------------------------------------------
(* The phone. Its requests are well formed, so each is one of the table's.    *)

LEMMA ElapsedIsNat ==
  ASSUME NEW c \in Records, now \in Nat
  PROVE  Elapsed(c) \in Nat
BY DEF Records, Elapsed, ElapsedMs

LEMMA RequestsAreRoutes ==
  ASSUME PhoneTypeOK, NEW q \in Sent, Serve(q)
  PROVE  [SessionsNext]_sessionVars
<1> DEFINE anyPut == \E d \in Days, t \in Tasks, running \in BOOLEAN, ms \in 0..MaxMs :
                       PutClock(d, t, running, ms)
<1>0. q.day \in Days /\ q.task \in Tasks
  BY DEF Sent, Plain
<1>1. CASE ~Accepts(q) /\ UNCHANGED sessionVars
  BY <1>1
<1>2. CASE q.op = "put" /\ PutClock(q.day, q.task, q.running, q.ms)
  <2>1. q \in [op : {"put"}, day : Days, task : Tasks, running : BOOLEAN, ms : Nat]
    BY <1>2 DEF Sent, Plain
  <2>2. q.running \in BOOLEAN /\ q.ms \in Nat /\ q.ms <= MaxMs
    BY <1>2, <2>1 DEF PutClock
  <2>3. q.ms \in 0..MaxMs
    BY <2>2, SessionsAssumption
  <2> QED
    BY <1>0, <1>2, <2>2, <2>3 DEF SessionsNext
<1>3. CASE q.op = "clear" /\ DeleteClock(q.day, q.task)
  BY <1>0, <1>3 DEF SessionsNext
<1>4. CASE q.op = "finish" /\ PutBlock(q.day, q.task, q.minutes)
  <2>1. q \in [op : {"finish"}, day : Days, task : Tasks, minutes : Nat]
    BY <1>4 DEF Sent, Plain
  <2>2. q.minutes \in 0..MaxMinutes
    BY <1>4, <2>1, SessionsAssumption DEF PutBlock
  <2> QED
    BY <1>0, <1>4, <2>2 DEF SessionsNext
<1>5. CASE q.op = "remove" /\ DeleteBlock(q.day, q.task)
  BY <1>0, <1>5 DEF SessionsNext
<1> QED
  BY <1>1, <1>2, <1>3, <1>4, <1>5 DEF Serve

\* Whatever the phone and the rest of the world do is one request of the table,
\* one task route beside it, time passing, or nothing the table sees.
LEMMA PhoneStepsTheTable == PhoneTypeOK /\ [Next]_vars => [SessionsNext]_sessionVars
<1> SUFFICES ASSUME PhoneTypeOK, [Next]_vars PROVE [SessionsNext]_sessionVars
  OBVIOUS
<1>1. ASSUME NEW t \in Tasks, StartClock(t) \/ PauseClock(t) \/ Reopen(t) PROVE UNCHANGED sessionVars
  BY <1>1 DEF StartClock, PauseClock, Reopen, Tap, Act
<1>2. ASSUME NEW t \in Tasks, NEW cur \in Tasks, MarkDone(cur, t) \/ Defer(cur, t)
      PROVE  UNCHANGED sessionVars
  BY <1>2 DEF MarkDone, Defer, Tap, Act
<1>9. ASSUME TaskAnswers PROVE UNCHANGED sessionVars
  BY <1>9 DEF TaskAnswers, DoneTaken, DeferTaken, UndoneTaken, UndeferredTaken, ReopenTaken,
              TaskRefuses, TaskTakes
<1>3. ASSUME Undo \/ Reload \/ Visible \/ \E d \in Days : TurnTo(d) PROVE UNCHANGED sessionVars
  BY <1>3 DEF Undo, Reload, Visible, TurnTo, Act
<1>4. ASSUME SendHead \/ SendRead \/ WriteAnswered \/ NoAnswer \/ \E kind \in Reads : ReadAnswered(kind)
      PROVE  UNCHANGED sessionVars
  BY <1>4 DEF SendHead, SendRead, WriteAnswered, NoAnswer, ReadAnswered
<1>5. ASSUME ServeWrite PROVE [SessionsNext]_sessionVars
  <2>1. wire # None /\ wire.at = "sent" /\ wire.kind = "write" /\ Serve(wire.req)
    BY <1>5 DEF ServeWrite, OnWire
  <2>2. wire.req \in Sent
    BY <2>1 DEF PhoneTypeOK, Reads
  <2> QED
    BY <2>1, <2>2, RequestsAreRoutes
<1>6. ASSUME NEW t \in Tasks, Elsewhere(t) PROVE [SessionsNext]_sessionVars
  <2>1. 0 \in 0..MaxMs
    BY SessionsAssumption
  <2>2. ASSUME NEW d \in Days, NEW running \in BOOLEAN, PutClock(d, t, running, 0)
        PROVE  SessionsNext
    BY <2>1, <2>2 DEF SessionsNext
  <2>3. ASSUME NEW d \in Days, PutBlock(d, t, Planned) PROVE SessionsNext
    <3>1. Planned \in 0..MaxMinutes
      BY <2>3, SessionsAssumption, PhoneAssumption DEF PutBlock
    <3> QED
      BY <2>3, <3>1 DEF SessionsNext
  <2>4. ASSUME NEW d \in Days, DeleteClock(d, t) \/ DeleteBlock(d, t) PROVE SessionsNext
    BY <2>4 DEF SessionsNext
  <2>5. ASSUME TrashTask(t) \/ RestoreTask(t) \/ PurgeTask(t) PROVE SessionsNext
    BY <2>5 DEF SessionsNext
  <2> QED
    BY <1>6, <2>2, <2>3, <2>4, <2>5 DEF Elsewhere
<1>7. ASSUME TimePasses PROVE [SessionsNext]_sessionVars
  BY <1>7 DEF TimePasses, SessionsNext
<1>8. ASSUME UNCHANGED vars PROVE UNCHANGED sessionVars
  BY <1>8 DEF vars
<1> QED
  BY <1>1, <1>2, <1>3, <1>4, <1>5, <1>6, <1>7, <1>8, <1>9 DEF Next

\* The page's own part of the type invariant, name by name.
ScreenOK ==
  /\ day \in Days
  /\ clock \in Records \cup {None}
  /\ log.day \in Days /\ log.blocks \in SUBSET [task : Tasks, minutes : Nat]
  /\ undo \in Taps \cup {None} /\ doing \in Taps \cup {None}
SyncOK == synced \in SUBSET Reads
LoadsOK == loads \in Seq(Reads)
OutboxOK == outbox \in Seq(Writes)
WireOK ==
  /\ wire \in {None} \cup [at : {"sent"}, kind : {"write"}, req : Sent, fresh : BOOLEAN]
                    \cup [at : {"answered"}, kind : {"write"}, fresh : BOOLEAN, answer : BOOLEAN]
                    \cup [at : {"sent"}, kind : Reads, req : Days, fresh : BOOLEAN]
  /\ wire # None /\ wire.kind = "write" => outbox # <<>>

LEMMA PhoneTypeParts ==
  PhoneTypeOK <=> SessionsTypeOK /\ ScreenOK /\ SyncOK /\ LoadsOK /\ OutboxOK /\ WireOK
BY DEF PhoneTypeOK, ScreenOK, SyncOK, LoadsOK, OutboxOK, WireOK

LEMMA LoadKeeps ==
  ASSUME LoadsOK, NEW kinds
  PROVE  Load(kinds) \in Seq(Reads)
<1>1. ASSUME NEW k \in Reads PROVE Wait(kinds, k) \in Seq(Reads)
  BY <1>1 DEF Wait
<1>2. Wait(kinds, "clock") \in Seq(Reads) /\ Wait(kinds, "log") \in Seq(Reads)
  BY <1>1 DEF Reads
<1> QED
  BY <1>2 DEF Load, LoadsOK

LEMMA DropKeeps ==
  ASSUME LoadsOK, NEW kinds
  PROVE  Drop(kinds) \in Seq(Reads)
<1>1. ToSet(loads) \subseteq Reads
  BY DEF LoadsOK, ToSet
<1>2. ASSUME NEW left \in SUBSET Reads, left # {} PROVE <<CHOOSE k \in left : TRUE>> \in Seq(Reads)
  BY <1>2
<1> QED
  BY <1>1, <1>2 DEF Drop

\* What Send puts in the outbox keeps the queue's three parts well formed.
LEMMA SendKeeps ==
  ASSUME OutboxOK, WireOK, LoadsOK, NEW writes \in Seq(Writes), writes # <<>>, Send(writes)
  PROVE  OutboxOK' /\ WireOK' /\ LoadsOK'
<1> DEFINE hooks == {HookOf(writes[i]) : i \in DOMAIN writes}
<1>1. /\ outbox' = outbox \o writes
      /\ loads' = Drop(hooks)
      /\ wire' = IF wire # None /\ wire.kind \in hooks THEN [wire EXCEPT !.fresh = FALSE] ELSE wire
  BY DEF Send
<1>2. OutboxOK' /\ outbox' # <<>>
  BY <1>1 DEF OutboxOK
<1>3. LoadsOK'
  BY <1>1, DropKeeps DEF LoadsOK
<1>4. WireOK'
  <2> DEFINE h == hooks
  <2> HIDE DEF h
  <2>1. wire' = IF wire # None /\ wire.kind \in h THEN [wire EXCEPT !.fresh = FALSE] ELSE wire
    BY <1>1 DEF h
  <2> QED
    BY <1>2, <2>1 DEF WireOK
<1> QED
  BY <1>2, <1>3, <1>4

LEMMA WritesAreWrites ==
  ASSUME NEW d \in Days, NEW t \in Tasks, NEW m \in Nat, NEW c \in Records
  PROVE  /\ Run(c) \in Writes /\ Pause(c) \in Writes
         /\ Clear(d, t) \in Writes /\ Finish(d, t, m) \in Writes /\ TakeOut(d, t) \in Writes
BY DEF Run, Pause, Clear, Finish, TakeOut, Writes, Plain

LEMMA ShownIsRecord ==
  ASSUME ScreenOK, NEW t
  PROVE  Shown(t) \in Records \cup {None} /\ ShownLog \in SUBSET [task : Tasks, minutes : Nat]
BY DEF ScreenOK, Shown, ShownLog, HeldLog

\* What a tap goes by, and the log of its day, are well formed.
LEMMA TapIsTap ==
  ASSUME ScreenOK, doing # None
  PROVE  /\ doing.day \in Days /\ doing.task \in Tasks /\ doing.cur \in Tasks
         /\ doing.minutes \in Nat /\ doing.snapshot \in Records \cup {None}
         /\ HeldLog(doing.day) \in SUBSET [task : Tasks, minutes : Nat]
         /\ \A op \in {"undone", "undeferred"} : ArmUndo(op) => undo' \in Taps
<1>1. doing \in Taps
  BY DEF ScreenOK
<1>2. \A op \in {"undone", "undeferred"} : [doing EXCEPT !.op = op, !.minutes = 0] \in Taps
  BY <1>1 DEF Taps
<1> QED
  BY <1>1, <1>2 DEF Taps, ArmUndo, HeldLog, ScreenOK

\* What brings the clock of a tap back is a write of the clock.
LEMMA RestoreIsWrite ==
  ASSUME ScreenOK, doing # None
  PROVE  /\ RestoreClock \in Writes /\ RestoreClock.op \in {"clear", "pause", "run"}
         /\ doing.snapshot # None =>
              /\ RestoreClock.op \in {"pause", "run"} /\ RestoreClock.record = doing.snapshot
              /\ (RestoreClock.op = "run") <=> (doing.snapshot.since # None)
<1>1. doing.day \in Days /\ doing.cur \in Tasks /\ doing.snapshot \in Records \cup {None}
  BY TapIsTap
<1>2. CASE doing.snapshot = None
  <2>1. RestoreClock = [op |-> "clear", day |-> doing.day, task |-> doing.cur]
    BY <1>2 DEF RestoreClock, Clear
  <2> QED
    BY <1>1, <1>2, <2>1 DEF Writes, Plain
<1>3. CASE doing.snapshot # None /\ doing.snapshot.since = None
  <2>1. RestoreClock = [op |-> "pause", record |-> doing.snapshot]
    BY <1>3 DEF RestoreClock, Pause
  <2> QED
    BY <1>1, <1>3, <2>1 DEF Writes
<1>4. CASE doing.snapshot # None /\ doing.snapshot.since # None
  <2>1. RestoreClock = [op |-> "run", record |-> doing.snapshot]
    BY <1>4 DEF RestoreClock, Run
  <2> QED
    BY <1>1, <1>4, <2>1 DEF Writes
<1> QED
  BY <1>2, <1>3, <1>4

LEMMA RecordIsRecord ==
  ASSUME NEW d \in Days, NEW t \in Tasks, NEW since \in Nat \cup {None}, NEW banked \in Nat
  PROVE  Record(d, t, since, banked) \in Records
BY DEF Record, Records

PhoneOK == ScreenOK /\ SyncOK /\ LoadsOK /\ OutboxOK /\ WireOK

LEMMA UserSteps ==
  ASSUME SessionsTypeOK, PhoneOK,
         \/ \E t \in Tasks : StartClock(t) \/ PauseClock(t) \/ Reopen(t)
         \/ \E t \in Tasks, cur \in Tasks : MarkDone(cur, t) \/ Defer(cur, t)
         \/ Undo \/ TaskAnswers \/ Reload \/ Visible
         \/ \E d \in Days : TurnTo(d)
  PROVE  PhoneOK'
<1> USE DEF PhoneOK
<1>n. now \in Nat /\ day \in Days
  BY DEF SessionsTypeOK, ScreenOK
<1>1. ASSUME NEW t \in Tasks, StartClock(t) PROVE PhoneOK'
  <2> DEFINE own == Shown(t)
             c == Record(day, t, now, IF own = None THEN 0 ELSE Elapsed(own))
  <2>1. own \in Records \cup {None}
    BY ShownIsRecord
  <2>2. (IF own = None THEN 0 ELSE Elapsed(own)) \in Nat
    BY <2>1, <1>n, ElapsedIsNat
  <2>3. c \in Records
    BY <2>2, <1>n, RecordIsRecord
  <2>4. clock' = c /\ Send(<<Run(c)>>) /\ UNCHANGED <<day, log, undo, doing, synced>>
    BY <1>1 DEF StartClock
  <2>5. <<Run(c)>> \in Seq(Writes) /\ <<Run(c)>> # <<>>
    BY <2>3, <1>n, WritesAreWrites
  <2>6. OutboxOK' /\ WireOK' /\ LoadsOK'
    BY <2>4, <2>5, SendKeeps
  <2> QED
    BY <2>3, <2>4, <2>6 DEF ScreenOK, SyncOK
<1>2. ASSUME NEW t \in Tasks, PauseClock(t) PROVE PhoneOK'
  <2> DEFINE c == Record(day, t, None, Elapsed(clock))
  <2>1. clock \in Records
    BY <1>2 DEF PauseClock, Shown, ScreenOK
  <2>3. c \in Records
    BY <2>1, <1>n, ElapsedIsNat, RecordIsRecord
  <2>4. clock' = c /\ Send(<<Pause(c)>>) /\ UNCHANGED <<day, log, undo, doing, synced>>
    BY <1>2 DEF PauseClock
  <2>5. <<Pause(c)>> \in Seq(Writes) /\ <<Pause(c)>> # <<>>
    BY <2>3, <1>n, WritesAreWrites
  <2>6. OutboxOK' /\ WireOK' /\ LoadsOK'
    BY <2>4, <2>5, SendKeeps
  <2> QED
    BY <2>3, <2>4, <2>6 DEF ScreenOK, SyncOK
<1>t. ASSUME NEW op \in {"done", "defer", "reopen"}, NEW cur \in Tasks, NEW t \in Tasks,
             NEW m \in Nat, NEW c \in Records \cup {None}, Tap(op, cur, t, m, c)
      PROVE  PhoneOK'
  <2>1. doing' = [op |-> op, day |-> day, task |-> t, cur |-> cur, minutes |-> m, snapshot |-> c]
        /\ UNCHANGED <<day, clock, log, undo, queueVars, synced>>
    BY <1>t DEF Tap
  <2>2. doing' \in Taps
    BY <2>1, <1>n DEF Taps
  <2> QED
    BY <2>1, <2>2 DEF ScreenOK, SyncOK, LoadsOK, OutboxOK, WireOK, queueVars
<1>3. ASSUME NEW t \in Tasks, Reopen(t) PROVE PhoneOK'
  BY <1>3, <1>t DEF Reopen
<1>4. ASSUME NEW t \in Tasks, NEW cur \in Tasks, MarkDone(cur, t) \/ Defer(cur, t) PROVE PhoneOK'
  <2> DEFINE live == Shown(cur)
             minutes == IF t # cur \/ live = None THEN Planned
                        ELSE IF Elapsed(live) > 1 THEN Elapsed(live) ELSE 1
  <2>1. live \in Records \cup {None}
    BY ShownIsRecord
  <2>2. minutes \in Nat
    BY <2>1, <1>n, ElapsedIsNat, PhoneAssumption
  <2>3. Tap("done", cur, t, minutes, live) \/ Tap("defer", cur, t, 0, live)
    BY <1>4 DEF MarkDone, Defer
  <2> HIDE DEF live, minutes
  <2> QED
    BY <2>1, <2>2, <2>3, <1>t
<1>5. ASSUME Undo PROVE PhoneOK'
  <2>1. undo' = None /\ (doing' = undo \/ doing' = doing) /\ undo # None
        /\ UNCHANGED <<day, clock, log, queueVars, synced>>
    BY <1>5 DEF Undo
  <2> QED
    BY <2>1 DEF ScreenOK, SyncOK, LoadsOK, OutboxOK, WireOK, queueVars
<1>a. ASSUME doing # None, doing' = None, UNCHANGED <<sessionVars, day, acts>>,
             clock' \in Records \cup {None}, undo' \in Taps \cup {None},
             log'.day \in Days, log'.blocks \in SUBSET [task : Tasks, minutes : Nat],
             synced' \subseteq synced,
             UNCHANGED queueVars
               \/ \E ws \in Seq(Writes) : ws # <<>> /\ Send(ws)
      PROVE  PhoneOK'
  <2>1. OutboxOK' /\ WireOK' /\ LoadsOK'
    <3>1. CASE UNCHANGED queueVars
      BY <3>1 DEF LoadsOK, OutboxOK, WireOK, queueVars
    <3>2. CASE \E ws \in Seq(Writes) : ws # <<>> /\ Send(ws)
      BY <3>2, SendKeeps
    <3> QED
      BY <1>a, <3>1, <3>2
  <2> QED
    BY <1>a, <1>n, <2>1 DEF ScreenOK, SyncOK
<1>9. ASSUME DoneTaken PROVE PhoneOK'
  <2> DEFINE d == doing.day
             t == doing.task
             ws == <<Finish(d, t, doing.minutes)>> \o IF Ends THEN <<Clear(d, t)>> ELSE <<>>
  <2>1. /\ doing # None /\ doing' = None /\ UNCHANGED <<sessionVars, day, acts>>
        /\ log' = [day |-> d, blocks |-> {b \in HeldLog(d) : b.task # t}
                                           \cup {[task |-> t, minutes |-> doing.minutes]}]
        /\ Send(ws) /\ synced' \subseteq synced /\ clock' \in {None, clock} /\ ArmUndo("undone")
    BY <1>9 DEF DoneTaken, TaskTakes, SetLog, Without, HeldFor
  <2>2. d \in Days /\ t \in Tasks /\ doing.minutes \in Nat /\ undo' \in Taps
        /\ HeldLog(d) \in SUBSET [task : Tasks, minutes : Nat]
    BY <2>1, TapIsTap
  <2>3. Finish(d, t, doing.minutes) \in Writes /\ Clear(d, t) \in Writes
    BY <2>2 DEF Finish, Clear, Writes, Plain
  <2>4. ws \in Seq(Writes) /\ ws # <<>>
    BY <2>3
  <2>5. log'.day \in Days /\ log'.blocks \in SUBSET [task : Tasks, minutes : Nat]
    BY <2>1, <2>2
  <2>6. clock' \in Records \cup {None}
    BY <2>1 DEF ScreenOK
  <2> HIDE DEF ws
  <2> QED
    BY <2>1, <2>2, <2>4, <2>5, <2>6, <1>a
<1>10. ASSUME DeferTaken PROVE PhoneOK'
  <2> DEFINE ws == <<Clear(doing.day, doing.task)>>
  <2>1. /\ doing # None /\ doing' = None /\ UNCHANGED <<sessionVars, day, acts, log, synced>>
        /\ Send(ws) \/ UNCHANGED queueVars
        /\ clock' \in {None, clock} /\ ArmUndo("undeferred")
    BY <1>10 DEF DeferTaken, TaskTakes
  <2>2. doing.day \in Days /\ doing.task \in Tasks /\ undo' \in Taps
    BY <2>1, TapIsTap
  <2>3. Clear(doing.day, doing.task) \in Writes
    BY <2>2 DEF Clear, Writes, Plain
  <2>4. ws \in Seq(Writes) /\ ws # <<>>
    BY <2>3
  <2>5. clock' \in Records \cup {None} /\ log'.day \in Days
        /\ log'.blocks \in SUBSET [task : Tasks, minutes : Nat]
    BY <2>1 DEF ScreenOK
  <2> HIDE DEF ws
  <2> QED
    BY <2>1, <2>2, <2>4, <2>5, <1>a
<1>11. ASSUME UndoneTaken PROVE PhoneOK'
  <2> DEFINE ws == <<TakeOut(doing.day, doing.task), RestoreClock>>
  <2>1. /\ doing # None /\ doing' = None /\ UNCHANGED <<sessionVars, day, acts, undo>>
        /\ log' = [day |-> doing.day, blocks |-> {b \in HeldLog(doing.day) : b.task # doing.task}]
        /\ Send(ws) /\ synced' \subseteq synced /\ clock' = doing.snapshot
    BY <1>11 DEF UndoneTaken, TaskTakes, SetLog, Without, HeldFor
  <2>2. doing.day \in Days /\ doing.task \in Tasks /\ doing.snapshot \in Records \cup {None}
        /\ HeldLog(doing.day) \in SUBSET [task : Tasks, minutes : Nat]
    BY <2>1, TapIsTap
  <2>3. TakeOut(doing.day, doing.task) \in Writes /\ RestoreClock \in Writes
    BY <2>1, <2>2, RestoreIsWrite DEF TakeOut, Writes, Plain
  <2>4. ws \in Seq(Writes) /\ ws # <<>>
    BY <2>3
  <2>5. log'.day \in Days /\ log'.blocks \in SUBSET [task : Tasks, minutes : Nat]
        /\ undo' \in Taps \cup {None}
    BY <2>1, <2>2 DEF ScreenOK
  <2> HIDE DEF ws
  <2> QED
    BY <2>1, <2>2, <2>4, <2>5, <1>a
<1>12. ASSUME UndeferredTaken PROVE PhoneOK'
  <2> DEFINE ws == <<RestoreClock>>
  <2>1. /\ doing # None /\ doing' = None /\ UNCHANGED <<sessionVars, day, acts, log, undo, synced>>
        /\ Send(ws) /\ clock' = doing.snapshot
    BY <1>12 DEF UndeferredTaken, TaskTakes
  <2>2. doing.snapshot \in Records \cup {None} /\ RestoreClock \in Writes
    BY <2>1, TapIsTap, RestoreIsWrite
  <2>4. ws \in Seq(Writes) /\ ws # <<>>
    BY <2>2
  <2>5. log'.day \in Days /\ log'.blocks \in SUBSET [task : Tasks, minutes : Nat]
        /\ undo' \in Taps \cup {None}
    BY <2>1 DEF ScreenOK
  <2> HIDE DEF ws
  <2> QED
    BY <2>1, <2>2, <2>4, <2>5, <1>a
<1>13. ASSUME ReopenTaken PROVE PhoneOK'
  <2> DEFINE ws == <<TakeOut(doing.day, doing.task)>>
  <2>1. /\ doing # None /\ doing' = None /\ UNCHANGED <<sessionVars, day, acts, clock, undo>>
        /\ log' = [day |-> doing.day, blocks |-> {b \in HeldLog(doing.day) : b.task # doing.task}]
        /\ Send(ws) /\ synced' \subseteq synced
    BY <1>13 DEF ReopenTaken, TaskTakes, SetLog, Without, HeldFor
  <2>2. doing.day \in Days /\ doing.task \in Tasks
        /\ HeldLog(doing.day) \in SUBSET [task : Tasks, minutes : Nat]
    BY <2>1, TapIsTap
  <2>3. TakeOut(doing.day, doing.task) \in Writes
    BY <2>2 DEF TakeOut, Writes, Plain
  <2>4. ws \in Seq(Writes) /\ ws # <<>>
    BY <2>3
  <2>5. log'.day \in Days /\ log'.blocks \in SUBSET [task : Tasks, minutes : Nat]
        /\ undo' \in Taps \cup {None} /\ clock' \in Records \cup {None}
    BY <2>1, <2>2 DEF ScreenOK
  <2> HIDE DEF ws
  <2> QED
    BY <2>1, <2>2, <2>4, <2>5, <1>a
<1>14. ASSUME TaskRefuses PROVE PhoneOK'
  BY <1>14 DEF TaskRefuses, ScreenOK, SyncOK, LoadsOK, OutboxOK, WireOK, queueVars
<1>6. ASSUME Reload PROVE PhoneOK'
  <2>1. /\ clock' = None /\ log' = [day |-> day, blocks |-> {}] /\ undo' = None /\ doing' = None
        /\ outbox' = <<>> /\ wire' = None /\ loads' = <<"clock", "log">> /\ synced' = {} /\ day' = day
    BY <1>6 DEF Reload
  <2>2. LoadsOK' /\ OutboxOK' /\ WireOK'
    BY <2>1 DEF LoadsOK, OutboxOK, WireOK, Reads
  <2> QED
    BY <2>1, <2>2 DEF ScreenOK, SyncOK
<1>7. ASSUME Visible PROVE PhoneOK'
  BY <1>7, LoadKeeps DEF Visible, LoadsOK, ScreenOK, SyncOK, OutboxOK, WireOK, screenVars
<1>8. ASSUME NEW d \in Days, TurnTo(d) PROVE PhoneOK'
  BY <1>8, LoadKeeps DEF TurnTo, LoadsOK, ScreenOK, SyncOK, OutboxOK, WireOK
<1> QED
  BY <1>1, <1>2, <1>3, <1>4, <1>5, <1>6, <1>7, <1>8, <1>9, <1>10, <1>11, <1>12, <1>13, <1>14
     DEF TaskAnswers

LEMMA SampleIsSent ==
  ASSUME NEW w \in Writes, now \in Nat
  PROVE  Sample(w) \in Sent
<1>1. CASE w \in Plain
  BY <1>1 DEF Sample, Plain, Sent
<1>2. CASE w \in [op : {"run", "pause"}, record : Records]
  <2>1. w.record \in Records /\ Elapsed(w.record) \in Nat
    BY <1>2, ElapsedIsNat
  <2>2. w.record.day \in Days /\ w.record.task \in Tasks
    BY <2>1 DEF Records
  <2> QED
    BY <1>2, <2>1, <2>2 DEF Sample, Sent
<1> QED
  BY <1>1, <1>2 DEF Writes

LEMMA QueueSteps ==
  ASSUME SessionsTypeOK, PhoneOK,
         SendHead \/ SendRead \/ ServeWrite \/ WriteAnswered \/ NoAnswer
  PROVE  PhoneOK'
<1> USE DEF PhoneOK
<1>n. now \in Nat /\ day \in Days
  BY DEF SessionsTypeOK, ScreenOK
<1>1. ASSUME SendHead PROVE PhoneOK'
  <2>1. Head(outbox) \in Writes
    BY <1>1 DEF SendHead, OutboxOK
  <2>2. Sample(Head(outbox)) \in Sent
    BY <2>1, <1>n, SampleIsSent
  <2>3. wire' = [at |-> "sent", kind |-> "write", req |-> Sample(Head(outbox)), fresh |-> TRUE]
        /\ outbox # <<>> /\ UNCHANGED <<screenVars, outbox, loads, synced>>
    BY <1>1 DEF SendHead, Request
  <2>4. WireOK'
    BY <2>2, <2>3 DEF WireOK
  <2> QED
    BY <2>3, <2>4 DEF LoadsOK, ScreenOK, SyncOK, OutboxOK, screenVars
<1>2. ASSUME SendRead PROVE PhoneOK'
  <2>1. Head(loads) \in Reads /\ Tail(loads) \in Seq(Reads)
    BY <1>2 DEF SendRead, LoadsOK
  <2>2. wire' = [at |-> "sent", kind |-> Head(loads), req |-> day, fresh |-> TRUE]
        /\ loads' = Tail(loads) /\ UNCHANGED <<screenVars, outbox, synced>>
    BY <1>2 DEF SendRead, Request
  <2>3. WireOK'
    BY <2>1, <2>2, <1>n DEF WireOK, Reads
  <2> QED
    BY <2>1, <2>2, <2>3 DEF LoadsOK, ScreenOK, SyncOK, OutboxOK, screenVars
<1>3. ASSUME ServeWrite PROVE PhoneOK'
  <2>1. /\ wire' = [at |-> "answered", kind |-> "write", fresh |-> TRUE, answer |-> Accepts(wire.req)]
        /\ wire # None /\ wire.at = "sent" /\ wire.kind = "write"
        /\ UNCHANGED <<screenVars, outbox, loads, synced>>
    BY <1>3 DEF ServeWrite, OnWire
  <2>2. wire.req \in Sent
    BY <2>1 DEF WireOK, Reads
  <2>3. Accepts(wire.req) \in BOOLEAN
    BY <2>2 DEF Accepts, Active, Sent, Plain
  <2>4. WireOK'
    BY <2>1, <2>3 DEF WireOK
  <2> QED
    BY <2>1, <2>4 DEF LoadsOK, ScreenOK, SyncOK, OutboxOK, screenVars
<1>4. ASSUME WriteAnswered PROVE PhoneOK'
  <2>1. outbox # <<>> /\ wire' = None /\ outbox' = Tail(outbox) /\ UNCHANGED screenVars
    BY <1>4 DEF WriteAnswered, OnWire, WireOK
  <2>2. \E refused : loads' = Load(refused) /\ synced' = synced \ refused
    BY <1>4 DEF WriteAnswered
  <2>3. LoadsOK' /\ SyncOK'
    BY <2>2, LoadKeeps DEF LoadsOK, SyncOK
  <2>4. OutboxOK' /\ WireOK'
    BY <2>1 DEF OutboxOK, WireOK
  <2> QED
    BY <2>1, <2>3, <2>4 DEF ScreenOK, screenVars
<1>5. ASSUME NoAnswer PROVE PhoneOK'
  BY <1>5 DEF NoAnswer, LoadsOK, ScreenOK, SyncOK, OutboxOK, WireOK, screenVars
<1> QED
  BY <1>1, <1>2, <1>3, <1>4, <1>5

\* A read's answer is a row of the table, so the record it paints is one.
LEMMA ReadSteps ==
  ASSUME SessionsTypeOK, PhoneOK, NEW kind \in Reads, ReadAnswered(kind)
  PROVE  PhoneOK'
<1> USE DEF PhoneOK
<1> DEFINE c == IF kind = "log" THEN LogOf(wire.req) ELSE GetClock(rows)
           paint == wire.fresh /\ (kind = "log" => wire.req = day)
<1>n. now \in Nat /\ day \in Days /\ rows \in SUBSET Row
  BY DEF SessionsTypeOK, ScreenOK
<1>1. /\ wire' = None /\ UNCHANGED <<day, undo, doing, outbox, loads>>
      /\ clock' = CASE ~paint \/ kind = "log" -> clock
                    [] c = None               -> None
                    [] OTHER -> Record(c.day, c.task, IF c.leg = None THEN None ELSE now,
                                       ElapsedMs(c, now))
      /\ IF paint /\ kind = "log" THEN log' = [day |-> day, blocks |-> c] ELSE log' = log
      /\ synced' = IF ~paint THEN synced
                   ELSE IF kind = "clock" /\ \E i \in DOMAIN outbox : outbox[i].op = "finish"
                   THEN synced \ {kind} ELSE synced \cup {kind}
  BY DEF ReadAnswered, SetLog
<1>2. SyncOK'
  BY <1>1 DEF SyncOK
<1>3. LoadsOK' /\ OutboxOK' /\ WireOK'
  BY <1>1 DEF LoadsOK, OutboxOK, WireOK
<1>4. clock' \in Records \cup {None}
  <2>1. CASE ~paint \/ kind = "log"
    BY <1>1, <2>1 DEF ScreenOK
  <2>2. CASE paint /\ kind # "log" /\ GetClock(rows) = None
    BY <1>1, <2>2
  <2>3. CASE paint /\ kind # "log" /\ GetClock(rows) # None
    <3>1. GetClock(rows) \in Row
      BY <2>3, <1>n, GetClockFinds
    <3>2. ElapsedMs(GetClock(rows), now) \in Nat
      BY <3>1, <1>n DEF ElapsedMs, Row
    <3>3. Record(GetClock(rows).day, GetClock(rows).task,
                 IF GetClock(rows).leg = None THEN None ELSE now,
                 ElapsedMs(GetClock(rows), now)) \in Records
      BY <3>1, <3>2, <1>n, RecordIsRecord DEF Row
    <3> QED
      BY <1>1, <2>3, <3>3
  <2> QED
    BY <2>1, <2>2, <2>3
<1>5. log'.day \in Days /\ log'.blocks \in SUBSET [task : Tasks, minutes : Nat]
  <2>1. CASE paint /\ kind = "log"
    <3>1. LogOf(wire.req) \in SUBSET [task : Tasks, minutes : Nat]
      BY <1>n DEF LogOf, Row, IsClock
    <3> QED
      BY <1>1, <1>n, <2>1, <3>1
  <2>2. CASE ~(paint /\ kind = "log")
    BY <1>1, <2>2 DEF ScreenOK
  <2> QED
    BY <2>1, <2>2
<1> QED
  BY <1>1, <1>2, <1>3, <1>4, <1>5 DEF ScreenOK

LEMMA PhoneStep == TableInv /\ PhoneTypeOK /\ [Next]_vars => (TableInv /\ PhoneTypeOK)'
<1> SUFFICES ASSUME TableInv, PhoneTypeOK, [Next]_vars PROVE (TableInv /\ PhoneTypeOK)'
  OBVIOUS
<1>0. SessionsTypeOK /\ PhoneOK
  BY PhoneTypeParts DEF PhoneOK
<1>1. TableInv'
  BY PhoneStepsTheTable, TableStep
<1>2. ASSUME (\E t \in Tasks : Elsewhere(t)) \/ TimePasses \/ UNCHANGED vars PROVE PhoneOK'
  <2>1. UNCHANGED <<screenVars, queueVars>> /\ (synced' = synced \/ synced' = {})
    BY <1>2 DEF Elsewhere, TimePasses, vars
  <2> QED
    BY <1>0, <2>1 DEF PhoneOK, ScreenOK, SyncOK, LoadsOK, OutboxOK, WireOK, screenVars, queueVars
<1>3. PhoneOK'
  <2>1. CASE \/ \E t \in Tasks : StartClock(t) \/ PauseClock(t) \/ Reopen(t)
             \/ \E t \in Tasks, cur \in Tasks : MarkDone(cur, t) \/ Defer(cur, t)
             \/ Undo \/ TaskAnswers \/ Reload \/ Visible
             \/ \E d \in Days : TurnTo(d)
    BY <1>0, <2>1, UserSteps
  <2>2. CASE SendHead \/ SendRead \/ ServeWrite \/ WriteAnswered \/ NoAnswer
    BY <1>0, <2>2, QueueSteps
  <2>3. CASE \E kind \in Reads : ReadAnswered(kind)
    BY <1>0, <2>3, ReadSteps
  <2> QED
    BY <1>2, <2>1, <2>2, <2>3 DEF Next
<1>4. PhoneTypeOK'
  BY <1>1, <1>3 DEF TableInv, PhoneTypeOK, PhoneOK, ScreenOK, SyncOK, LoadsOK, OutboxOK, WireOK
<1> QED
  BY <1>1, <1>4

LEMMA PhoneInit == Init => TableInv /\ PhoneTypeOK
<1> SUFFICES ASSUME Init PROVE TableInv /\ PhoneTypeOK
  OBVIOUS
<1>1. TableInv
  BY TableInit DEF Init
<1>2. loads \in Seq(Reads) /\ outbox \in Seq(Writes)
  BY DEF Init, Reads
<1> QED
  BY <1>1, <1>2 DEF Init, TableInv, PhoneTypeOK

\* The phone's queue, its retries and everyone else together only ever do what
\* the table's routes do, one at a time.
THEOREM PhoneRunsTheTable == Spec => SessionsSpec
<1>1. Init => SessionsInit
  BY DEF Init
<1> QED
  BY <1>1, PhoneInit, PhoneStep, PhoneStepsTheTable, PTL DEF Spec, SessionsSpec

\* So under every phone, outbox, retry and reload the table is sound and keeps
\* the abstract day, and what the phone holds and sends is well formed.
THEOREM PhoneSafe ==
  Spec => [](PhoneTypeOK /\ OneRowPerClaim /\ RowsNameTasks) /\ KeepsTheDay
<1>1. Spec => [](TableInv /\ PhoneTypeOK)
  BY PhoneInit, PhoneStep, PTL DEF Spec
<1> QED
  BY <1>1, PhoneRunsTheTable, TableKeepsTheDay, PTL DEF TableInv

-----------------------------------------------------------------------------
(* What the page shows is what the outbox leaves in the table. Of a block the *)
(* last write about it counts, and the row where no write waits; of the clock *)
(* the last write of the clock.                                               *)

NotesBlock(w, d, t) == w.op \in {"finish", "remove"} /\ w.day = d /\ w.task = t
NotesClock(w) == w.op \in {"run", "pause", "clear"}
Times(w) == w.op \in {"run", "pause"}
Stops(w, c) == w.op = "finish" /\ Names(c, w.day, w.task)

\* The lengths a block is booked at: by a write, on screen, in the table.
Books(w) == IF w.op = "finish" THEN {w.minutes} ELSE {}
OnScreen(t) == {b.minutes : b \in {b \in ShownLog : b.task = t}}
Booked(R, d, t) == {r.minutes : r \in LiveBlock(R, d, t)}

LEMMA SameClocks ==
  ASSUME NEW R \in SUBSET Row, Unique(R), NEW S \in SUBSET Row, Unique(S),
         \A r \in R \cup S : IsClock(r) => r \in R /\ r \in S
  PROVE  GetClock(S) = GetClock(R)
<1>1. CASE GetClock(R) = None
  <2>1. \A r \in S : ~IsClock(r)
    BY <1>1, GetClockFinds
  <2>2. GetClock(S) = None
    BY <2>1 DEF GetClock
  <2> QED
    BY <1>1, <2>2
<1>2. CASE GetClock(R) # None
  <2>1. GetClock(R) \in S /\ IsClock(GetClock(R))
    BY <1>2, GetClockFinds
  <2> QED
    BY <2>1, ClockFound
<1> QED
  BY <1>1, <1>2

LEMMA SameBlocks ==
  ASSUME NEW R, NEW S, NEW d, NEW t,
         \A r \in (R \ S) \cup (S \ R) : IsClock(r) \/ ~Names(r, d, t)
  PROVE  Booked(S, d, t) = Booked(R, d, t)
<1>1. LiveBlock(R, d, t) = LiveBlock(S, d, t)
  BY DEF LiveBlock
<1> QED
  BY <1>1 DEF Booked

LEMMA ClearedClock ==
  ASSUME NEW R \in SUBSET Row, Unique(R), NEW d \in Days, NEW t \in Tasks
  PROVE  /\ \A r \in R \ ClearClock(R, d, t) : IsClock(r)
         /\ GetClock(R) = None \/ ~Names(GetClock(R), d, t) => ClearClock(R, d, t) = R
BY GetClockFinds DEF ClearClock

\* The write w leaves the table S of R.
Leaves(R, w, S) ==
  /\ S \in SUBSET Row /\ Unique(S)
  /\ \A d \in Days, t \in Tasks :
       Booked(S, d, t) = IF NotesBlock(w, d, t) THEN Books(w) ELSE Booked(R, d, t)
  /\ Times(w) => SameClock(w.record, GetClock(S))
  /\ ~NotesClock(w) /\ (GetClock(R) # None => ~Stops(w, GetClock(R))) => GetClock(S) = GetClock(R)

LEMMA TimingLeaves ==
  ASSUME NEW R \in SUBSET Row, Unique(R), now \in Nat,
         NEW w \in [op : {"run", "pause"}, record : Records],
         (w.op = "run") <=> (w.record.since # None)
  PROVE  Leaves(R, w, Served(R, Sample(w)))
<1> DEFINE c == w.record
           live == GetClock(R)
           new == ClockRow(c.day, c.task, IF w.op = "run" THEN now ELSE None, Elapsed(c))
           S == SetClock(R, c.day, c.task, w.op = "run", Elapsed(c))
<1>0. c \in Records /\ c.day \in Days /\ c.task \in Tasks /\ Elapsed(c) \in Nat
      /\ (w.op = "run") \in BOOLEAN /\ w.op \in {"run", "pause"}
  BY ElapsedIsNat DEF Records
<1>1. Served(R, Sample(w)) = S
  BY DEF Served, Sample
<1>2. S \in SUBSET Row /\ Unique(S)
  <2> HIDE DEF c
  <2> QED
    BY <1>0, SetClockKeeps
<1>3. CASE /\ live # None
           /\ Names(live, c.day, c.task)
           /\ live.leg = None /\ ~(w.op = "run") /\ live.banked = Elapsed(c)
  <2>1. S = R
    BY <1>3 DEF SetClock
  <2>2. live \in Row
    BY <1>3, GetClockFinds
  <2>3. ElapsedMs(live, now) = live.banked
    BY <1>3, <2>2 DEF ElapsedMs, Row
  <2>4. SameClock(c, live)
    BY <1>3, <2>3 DEF SameClock
  <2> QED
    BY <1>0, <1>1, <1>2, <2>1, <2>4 DEF Leaves, NotesBlock, NotesClock, Times
<1>4. CASE ~(/\ live # None
             /\ Names(live, c.day, c.task)
             /\ live.leg = None /\ ~(w.op = "run") /\ live.banked = Elapsed(c))
  <2>1. S = (R \ {live}) \cup {new}
    BY <1>4 DEF SetClock
  <2>2. new \in S /\ IsClock(new)
    BY <2>1 DEF IsClock, ClockRow
  <2>3. GetClock(S) = new
    BY <1>2, <2>2, ClockFound
  <2>4. new \in Row /\ None \notin Nat
    BY <1>0, SessionsAssumption DEF ClockRow, Row
  <2>5. new # None
    BY <2>4, SessionsAssumption DEF Row
  <2>6. (c.since = None) = (new.leg = None)
    BY <1>0, <2>4 DEF ClockRow
  <2>7. ElapsedMs(new, now) = Elapsed(c)
    BY <1>0, <2>4 DEF ElapsedMs, ClockRow
  <2>8. SameClock(c, new)
    BY <2>5, <2>6, <2>7 DEF SameClock, Names, ClockRow
  <2>9. live \in R => IsClock(live)
    BY GetClockFinds, SessionsAssumption DEF Row
  <2>10. \A d \in Days, t \in Tasks : Booked(S, d, t) = Booked(R, d, t)
    BY <2>1, <2>2, <2>9, SameBlocks
  <2> QED
    BY <1>0, <1>1, <1>2, <2>3, <2>8, <2>10 DEF Leaves, NotesBlock, NotesClock, Times
<1> QED
  BY <1>3, <1>4

LEMMA PlainLeaves ==
  ASSUME NEW R \in SUBSET Row, Unique(R), NEW w \in Plain
  PROVE  Leaves(R, w, Served(R, Sample(w)))
<1>0. w.day \in Days /\ w.task \in Tasks /\ w.op \in {"clear", "finish", "remove"}
  BY DEF Plain
<1>1. Sample(w) = w /\ ~Times(w)
  BY <1>0 DEF Sample, Times
<1>2. CASE w.op = "clear"
  <2> DEFINE S == ClearClock(R, w.day, w.task)
  <2>1. Served(R, Sample(w)) = S
    BY <1>1, <1>2 DEF Served
  <2>2. S \subseteq R /\ Unique(S) /\ \A r \in R \ S : IsClock(r)
    BY <1>0, ClearClockKeeps, ClearedClock
  <2>3. \A d \in Days, t \in Tasks : Booked(S, d, t) = Booked(R, d, t)
    BY <2>2, SameBlocks
  <2> QED
    BY <1>1, <1>2, <2>1, <2>2, <2>3 DEF Leaves, NotesBlock, NotesClock
<1>3. CASE w.op = "finish"
  <2> DEFINE K == ClearClock(R, w.day, w.task)
             b == BlockRow(w.day, w.task, w.minutes)
             S == (K \ LiveBlock(R, w.day, w.task)) \cup {b}
  <2>0. w.minutes \in Nat
    BY <1>3 DEF Plain
  <2>1. Served(R, Sample(w)) = S /\ S = FinishBlock(R, w.day, w.task, w.minutes)
    BY <1>1, <1>3 DEF Served, FinishBlock
  <2>2. S \in SUBSET Row /\ Unique(S)
    <3> DEFINE F == FinishBlock(R, w.day, w.task, w.minutes)
    <3>1. F \in SUBSET Row /\ Unique(F)
      BY <1>0, <2>0, FinishBlockKeeps
    <3> HIDE DEF F, S
    <3> QED
      BY <2>1, <3>1 DEF F
  <2>3. K \subseteq R /\ Unique(K) /\ \A r \in R \ K : IsClock(r)
    BY <1>0, ClearClockKeeps, ClearedClock
  <2>4. ~IsClock(b) /\ Names(b, w.day, w.task) /\ b.minutes = w.minutes
    BY <2>0, SessionsAssumption DEF IsClock, Names, BlockRow
  <2>5. LiveBlock(S, w.day, w.task) = {b}
    BY <2>3, <2>4 DEF LiveBlock
  <2>6. Booked(S, w.day, w.task) = Books(w)
    BY <1>3, <2>4, <2>5 DEF Booked, Books
  <2>7. ASSUME NEW d \in Days, NEW t \in Tasks, ~NotesBlock(w, d, t)
        PROVE  Booked(S, d, t) = Booked(R, d, t)
    <3>1. \A r : Names(r, w.day, w.task) => ~Names(r, d, t)
      BY <1>3, <2>7 DEF NotesBlock, Names
    <3>2. \A r \in (R \ S) \cup (S \ R) : IsClock(r) \/ ~Names(r, d, t)
      BY <2>3, <2>4, <3>1 DEF LiveBlock
    <3> QED
      BY <3>2, SameBlocks
  <2>8. ASSUME GetClock(R) # None => ~Stops(w, GetClock(R))
        PROVE  GetClock(S) = GetClock(R)
    <3>1. K = R
      BY <1>0, <1>3, <2>8, ClearedClock DEF Stops
    <3>2. \A r \in R \cup S : IsClock(r) => r \in R /\ r \in S
      BY <2>4, <3>1 DEF LiveBlock
    <3> QED
      BY <2>2, <3>2, SameClocks
  <2> HIDE DEF S
  <2>9. \A d \in Days, t \in Tasks : NotesBlock(w, d, t) => d = w.day /\ t = w.task
    BY DEF NotesBlock
  <2> QED
    BY <1>1, <2>1, <2>2, <2>6, <2>7, <2>8, <2>9 DEF Leaves
<1>4. CASE w.op = "remove"
  <2> DEFINE S == R \ LiveBlock(R, w.day, w.task)
  <2>1. Served(R, Sample(w)) = S
    BY <1>1, <1>4 DEF Served, RemoveBlock
  <2>2. S \in SUBSET Row /\ Unique(S)
    BY FewerRowsKeep
  <2>3. Booked(S, w.day, w.task) = Books(w)
    BY <1>4 DEF Booked, Books, LiveBlock
  <2>4. ASSUME NEW d \in Days, NEW t \in Tasks, ~NotesBlock(w, d, t)
        PROVE  Booked(S, d, t) = Booked(R, d, t)
    <3>1. \A r : Names(r, w.day, w.task) => ~Names(r, d, t)
      BY <1>4, <2>4 DEF NotesBlock, Names
    <3>2. \A r \in (R \ S) \cup (S \ R) : IsClock(r) \/ ~Names(r, d, t)
      BY <3>1 DEF LiveBlock
    <3> QED
      BY <3>2, SameBlocks
  <2>5. \A r \in R \cup S : IsClock(r) => r \in R /\ r \in S
    BY DEF LiveBlock
  <2>6. GetClock(S) = GetClock(R)
    BY <2>2, <2>5, SameClocks
  <2> HIDE DEF S
  <2>9. \A d \in Days, t \in Tasks : NotesBlock(w, d, t) => d = w.day /\ t = w.task
    BY DEF NotesBlock
  <2> QED
    BY <1>1, <2>1, <2>2, <2>3, <2>4, <2>6, <2>9 DEF Leaves
<1> QED
  BY <1>0, <1>2, <1>3, <1>4

\* What a write says of its clock, it says in its verb.
PlainSpoken(w) == Times(w) => ((w.op = "run") <=> (w.record.since # None))

LEMMA WritesLeave ==
  ASSUME NEW R \in SUBSET Row, Unique(R), now \in Nat, NEW w \in Writes, PlainSpoken(w)
  PROVE  Leaves(R, w, Served(R, Sample(w)))
<1>1. CASE w \in Plain
  BY <1>1, PlainLeaves
<1>2. CASE w \in [op : {"run", "pause"}, record : Records]
  BY <1>2, TimingLeaves DEF PlainSpoken, Times
<1> QED
  BY <1>1, <1>2 DEF Writes

-----------------------------------------------------------------------------
(* The writes that wait, and which of them has the last word.                 *)

BlockNotes(o, d, t) == {i \in DOMAIN o : NotesBlock(o[i], d, t)}
ClockNotes(o) == {i \in DOMAIN o : NotesClock(o[i])}
IsLast(i, I) == i \in I /\ \A j \in I : j <= i

\* shown is what the writes of o leave of a block, when the table R has it now.
LogSays(o, R, d, t, shown) ==
  /\ \A i \in DOMAIN o : IsLast(i, BlockNotes(o, d, t)) => shown = Books(o[i])
  /\ BlockNotes(o, d, t) = {} => shown = Booked(R, d, t)

\* The record is what the page would make of the row at that time.
SameAt(held, row, at) ==
  /\ row # None
  /\ Names(row, held.day, held.task)
  /\ (held.since = None) = (row.leg = None)
  /\ ElapsedMs([leg |-> held.since, banked |-> held.banked], at) = ElapsedMs(row, at)

LEMMA SameNow == \A c, row : SameClock(c, row) <=> SameAt(c, row, now)
BY DEF SameClock, SameAt, Elapsed

\* c is the clock they leave, and no booking among them ends it.
ClockSays(o, R, c, at) ==
  /\ \A i \in DOMAIN o : IsLast(i, ClockNotes(o)) => Times(o[i]) /\ o[i].record = c
  /\ ClockNotes(o) = {} => SameAt(c, GetClock(R), at)
  /\ \A i \in DOMAIN o : Stops(o[i], c) => \E j \in ClockNotes(o) : i < j

LEMMA Appended ==
  ASSUME NEW o \in Seq(Writes), NEW ws \in Seq(Writes)
  PROVE  LET p == o \o ws
         IN  /\ p \in Seq(Writes) /\ Len(p) = Len(o) + Len(ws)
             /\ \A i \in DOMAIN o : i \in DOMAIN p /\ p[i] = o[i]
             /\ \A i \in DOMAIN ws : Len(o) + i \in DOMAIN p /\ p[Len(o) + i] = ws[i]
             /\ \A i \in DOMAIN p : i \in DOMAIN o \/ i - Len(o) \in DOMAIN ws
OBVIOUS

\* Writes that say nothing of a block leave the last word on it where it was, ...
LEMMA AppendKeepsLog ==
  ASSUME NEW o \in Seq(Writes), NEW ws \in Seq(Writes), NEW R, NEW d, NEW t, NEW shown,
         LogSays(o, R, d, t, shown), \A i \in DOMAIN ws : ~NotesBlock(ws[i], d, t)
  PROVE  LogSays(o \o ws, R, d, t, shown)
<1> DEFINE p == o \o ws
<1>1. /\ \A i \in DOMAIN o : i \in DOMAIN p /\ p[i] = o[i]
      /\ \A i \in DOMAIN ws : Len(o) + i \in DOMAIN p /\ p[Len(o) + i] = ws[i]
      /\ \A i \in DOMAIN p : i \in DOMAIN o \/ (i - Len(o) \in DOMAIN ws /\ i \in Nat)
  BY Appended
<1> HIDE DEF p
<1>2. BlockNotes(p, d, t) = BlockNotes(o, d, t)
  <2>1. \A i \in DOMAIN p : NotesBlock(p[i], d, t) => i \in DOMAIN o
    <3> SUFFICES ASSUME NEW i \in DOMAIN p, i \notin DOMAIN o PROVE ~NotesBlock(p[i], d, t)
      OBVIOUS
    <3>1. i - Len(o) \in DOMAIN ws /\ Len(o) + (i - Len(o)) = i
      BY <1>1
    <3> QED
      BY <1>1, <3>1
  <2> QED
    BY <1>1, <2>1 DEF BlockNotes
<1>3. \A i \in DOMAIN p : IsLast(i, BlockNotes(p, d, t)) => i \in DOMAIN o /\ p[i] = o[i]
  BY <1>1, <1>2 DEF IsLast, BlockNotes
<1>4. LogSays(p, R, d, t, shown)
  BY <1>2, <1>3 DEF LogSays
<1> QED
  BY <1>4 DEF p

\* ... and the last of them about it has it.
LEMMA AppendSetsLog ==
  ASSUME NEW o \in Seq(Writes), NEW ws \in Seq(Writes), NEW R, NEW d, NEW t,
         NEW k \in DOMAIN ws, IsLast(k, BlockNotes(ws, d, t))
  PROVE  LogSays(o \o ws, R, d, t, Books(ws[k]))
<1> DEFINE p == o \o ws
           m == Len(o) + k
<1>1. /\ \A i \in DOMAIN o : i \in DOMAIN p /\ p[i] = o[i]
      /\ \A i \in DOMAIN ws : Len(o) + i \in DOMAIN p /\ p[Len(o) + i] = ws[i]
      /\ \A i \in DOMAIN p : i \in DOMAIN o \/ (i - Len(o) \in DOMAIN ws /\ i \in Nat)
      /\ \A i \in DOMAIN o : i \in Nat /\ i <= Len(o)
      /\ Len(o) \in Nat /\ k \in Nat /\ k > 0
  BY Appended
<1> HIDE DEF p
<1>2. m \in BlockNotes(p, d, t) /\ p[m] = ws[k]
  BY <1>1 DEF BlockNotes, IsLast
<1>3. ASSUME NEW i \in BlockNotes(p, d, t) PROVE i <= m
  <2>1. CASE i \in DOMAIN o
    BY <1>1, <2>1
  <2>2. CASE i \notin DOMAIN o
    <3>1. i \in Nat /\ i - Len(o) \in DOMAIN ws /\ Len(o) + (i - Len(o)) = i
      BY <1>1, <2>2 DEF BlockNotes
    <3>2. i - Len(o) \in BlockNotes(ws, d, t)
      BY <1>1, <3>1 DEF BlockNotes
    <3> QED
      BY <1>1, <3>1, <3>2 DEF IsLast
  <2> QED
    BY <2>1, <2>2
<1>4. \A i \in DOMAIN p : IsLast(i, BlockNotes(p, d, t)) => i = m
  <2> SUFFICES ASSUME NEW i \in DOMAIN p, IsLast(i, BlockNotes(p, d, t)) PROVE i = m
    OBVIOUS
  <2>1. i <= m /\ m <= i /\ i \in Nat /\ m \in Nat
    BY <1>1, <1>2, <1>3 DEF IsLast
  <2> QED
    BY <2>1
<1>5. LogSays(p, R, d, t, Books(ws[k]))
  BY <1>2, <1>4 DEF LogSays
<1> QED
  BY <1>5 DEF p

\* Likewise for the clock: writes that leave c alone, ...
LEMMA AppendKeepsClock ==
  ASSUME NEW o \in Seq(Writes), NEW ws \in Seq(Writes), NEW R, NEW c, NEW at,
         ClockSays(o, R, c, at), \A i \in DOMAIN ws : ~NotesClock(ws[i]) /\ ~Stops(ws[i], c)
  PROVE  ClockSays(o \o ws, R, c, at)
<1> DEFINE p == o \o ws
<1>1. /\ \A i \in DOMAIN o : i \in DOMAIN p /\ p[i] = o[i]
      /\ \A i \in DOMAIN ws : Len(o) + i \in DOMAIN p /\ p[Len(o) + i] = ws[i]
      /\ \A i \in DOMAIN p : i \in DOMAIN o \/ (i - Len(o) \in DOMAIN ws /\ i \in Nat)
  BY Appended
<1> HIDE DEF p
<1>2. \A i \in DOMAIN p : NotesClock(p[i]) \/ Stops(p[i], c) => i \in DOMAIN o
  <2> SUFFICES ASSUME NEW i \in DOMAIN p, i \notin DOMAIN o
               PROVE  ~NotesClock(p[i]) /\ ~Stops(p[i], c)
    OBVIOUS
  <2>1. i - Len(o) \in DOMAIN ws /\ Len(o) + (i - Len(o)) = i
    BY <1>1
  <2> QED
    BY <1>1, <2>1
<1>3. ClockNotes(p) = ClockNotes(o)
  BY <1>1, <1>2 DEF ClockNotes
<1>4. \A i \in DOMAIN p : IsLast(i, ClockNotes(p)) => i \in DOMAIN o /\ p[i] = o[i]
  BY <1>1, <1>3 DEF IsLast, ClockNotes
<1>5. ClockSays(p, R, c, at)
  BY <1>1, <1>2, <1>3, <1>4 DEF ClockSays
<1> QED
  BY <1>5 DEF p

\* ... and a last one that sets it.
LEMMA AppendSetsClock ==
  ASSUME NEW o \in Seq(Writes), NEW ws \in Seq(Writes), NEW R, NEW c, NEW at,
         ws # <<>>, Times(ws[Len(ws)]), ws[Len(ws)].record = c
  PROVE  ClockSays(o \o ws, R, c, at)
<1> DEFINE p == o \o ws
           m == Len(o) + Len(ws)
<1>1. m \in DOMAIN p /\ p[m] = ws[Len(ws)] /\ \A i \in DOMAIN p : i \in Nat /\ i <= m
  BY Appended
<1> HIDE DEF p, m
<1>2. m \in ClockNotes(p) /\ m \in Nat /\ ~Stops(p[m], c)
  BY <1>1 DEF ClockNotes, NotesClock, Times, Stops
<1>3. \A i \in DOMAIN p : IsLast(i, ClockNotes(p)) => i = m
  <2> SUFFICES ASSUME NEW i \in DOMAIN p, IsLast(i, ClockNotes(p)) PROVE i = m
    OBVIOUS
  <2>1. m <= i /\ i <= m /\ i \in Nat
    BY <1>1, <1>2 DEF IsLast
  <2> QED
    BY <1>2, <2>1
<1>4. \A i \in DOMAIN p : i # m => i < m
  BY <1>1, <1>2
<1>5. ClockSays(p, R, c, at)
  BY <1>1, <1>2, <1>3, <1>4 DEF ClockSays
<1> QED
  BY <1>5 DEF p

-----------------------------------------------------------------------------
(* The head of the outbox is served and leaves.                               *)

LEMMA TailShifts ==
  ASSUME NEW o \in Seq(Writes), o # <<>>
  PROVE  /\ Tail(o) \in Seq(Writes) /\ Head(o) = o[1] /\ 1 \in DOMAIN o
         /\ \A i \in DOMAIN Tail(o) : i \in Nat /\ i + 1 \in DOMAIN o /\ Tail(o)[i] = o[i + 1]
         /\ \A i \in DOMAIN o : i \in Nat /\ (i = 1 \/ (i > 1 /\ i - 1 \in DOMAIN Tail(o) /\ (i - 1) + 1 = i))
OBVIOUS

\* Where the table has what the head says of a block, or the head says nothing
\* of it, the rest of the outbox leaves what all of it did.
LEMMA TailKeepsLog ==
  ASSUME NEW o \in Seq(Writes), o # <<>>, NEW R, NEW d, NEW t, NEW shown,
         LogSays(o, R, d, t, shown),
         NotesBlock(Head(o), d, t) => Booked(R, d, t) = Books(Head(o))
  PROVE  LogSays(Tail(o), R, d, t, shown)
<1> DEFINE p == Tail(o)
<1>1. /\ Head(o) = o[1] /\ 1 \in DOMAIN o
      /\ \A i \in DOMAIN p : i \in Nat /\ i + 1 \in DOMAIN o /\ p[i] = o[i + 1]
      /\ \A i \in DOMAIN o : i \in Nat /\ (i = 1 \/ (i > 1 /\ i - 1 \in DOMAIN p /\ (i - 1) + 1 = i))
  BY TailShifts
<1> HIDE DEF p
<1>2. ASSUME NEW i \in DOMAIN p, IsLast(i, BlockNotes(p, d, t))
      PROVE  shown = Books(p[i])
  <2>1. i + 1 \in BlockNotes(o, d, t)
    BY <1>1, <1>2 DEF BlockNotes, IsLast
  <2>2. ASSUME NEW j \in BlockNotes(o, d, t) PROVE j <= i + 1
    <3>1. CASE j = 1
      BY <1>1, <3>1
    <3>2. CASE j # 1
      <4>1. j \in Nat /\ j - 1 \in DOMAIN p /\ p[j - 1] = o[j]
        BY <1>1, <3>2 DEF BlockNotes
      <4>2. j - 1 \in BlockNotes(p, d, t)
        BY <4>1 DEF BlockNotes
      <4> QED
        BY <1>1, <1>2, <4>1, <4>2 DEF IsLast
    <3> QED
      BY <3>1, <3>2
  <2>3. IsLast(i + 1, BlockNotes(o, d, t))
    BY <2>1, <2>2 DEF IsLast
  <2> QED
    BY <1>1, <2>3 DEF LogSays
<1>3. ASSUME BlockNotes(p, d, t) = {} PROVE shown = Booked(R, d, t)
  <2>1. \A j \in DOMAIN o : NotesBlock(o[j], d, t) => j = 1
    <3> SUFFICES ASSUME NEW j \in DOMAIN o, NotesBlock(o[j], d, t), j # 1 PROVE FALSE
      OBVIOUS
    <3>1. j - 1 \in DOMAIN p /\ p[j - 1] = o[j]
      BY <1>1
    <3> QED
      BY <1>3, <3>1 DEF BlockNotes
  <2>2. CASE NotesBlock(o[1], d, t)
    <3>1. IsLast(1, BlockNotes(o, d, t))
      BY <1>1, <2>1, <2>2 DEF IsLast, BlockNotes
    <3> QED
      BY <1>1, <2>2, <3>1 DEF LogSays
  <2>3. CASE ~NotesBlock(o[1], d, t)
    BY <2>1, <2>3 DEF LogSays, BlockNotes
  <2> QED
    BY <2>2, <2>3
<1>4. LogSays(p, R, d, t, shown)
  BY <1>2, <1>3 DEF LogSays
<1> QED
  BY <1>4 DEF p

LEMMA TailKeepsClock ==
  ASSUME NEW o \in Seq(Writes), o # <<>>, NEW R, NEW c, NEW at,
         ClockSays(o, R, c, at),
         Times(Head(o)) /\ Head(o).record = c => SameAt(c, GetClock(R), at)
  PROVE  ClockSays(Tail(o), R, c, at)
<1> DEFINE p == Tail(o)
<1>1. /\ Head(o) = o[1] /\ 1 \in DOMAIN o
      /\ \A i \in DOMAIN p : i \in Nat /\ i + 1 \in DOMAIN o /\ p[i] = o[i + 1]
      /\ \A i \in DOMAIN o : i \in Nat /\ (i = 1 \/ (i > 1 /\ i - 1 \in DOMAIN p /\ (i - 1) + 1 = i))
  BY TailShifts
<1> HIDE DEF p
<1>2. ASSUME NEW i \in DOMAIN p, IsLast(i, ClockNotes(p))
      PROVE  Times(p[i]) /\ p[i].record = c
  <2>1. i + 1 \in ClockNotes(o)
    BY <1>1, <1>2 DEF ClockNotes, IsLast
  <2>2. ASSUME NEW j \in ClockNotes(o) PROVE j <= i + 1
    <3>1. CASE j = 1
      BY <1>1, <3>1
    <3>2. CASE j # 1
      <4>1. j \in Nat /\ j - 1 \in DOMAIN p /\ p[j - 1] = o[j]
        BY <1>1, <3>2 DEF ClockNotes
      <4>2. j - 1 \in ClockNotes(p)
        BY <4>1 DEF ClockNotes
      <4> QED
        BY <1>1, <1>2, <4>1, <4>2 DEF IsLast
    <3> QED
      BY <3>1, <3>2
  <2>3. IsLast(i + 1, ClockNotes(o))
    BY <2>1, <2>2 DEF IsLast
  <2> QED
    BY <1>1, <2>3 DEF ClockSays
<1>3. ASSUME ClockNotes(p) = {} PROVE SameAt(c, GetClock(R), at)
  <2>1. \A j \in DOMAIN o : NotesClock(o[j]) => j = 1
    <3> SUFFICES ASSUME NEW j \in DOMAIN o, NotesClock(o[j]), j # 1 PROVE FALSE
      OBVIOUS
    <3>1. j - 1 \in DOMAIN p /\ p[j - 1] = o[j]
      BY <1>1
    <3> QED
      BY <1>3, <3>1 DEF ClockNotes
  <2>2. CASE NotesClock(o[1])
    <3>1. IsLast(1, ClockNotes(o))
      BY <1>1, <2>1, <2>2 DEF IsLast, ClockNotes
    <3> QED
      BY <1>1, <3>1 DEF ClockSays
  <2>3. CASE ~NotesClock(o[1])
    BY <2>1, <2>3 DEF ClockSays, ClockNotes
  <2> QED
    BY <2>2, <2>3
<1>4. ASSUME NEW i \in DOMAIN p, Stops(p[i], c) PROVE \E j \in ClockNotes(p) : i < j
  <2>1. i + 1 \in DOMAIN o /\ Stops(o[i + 1], c) /\ i \in Nat
    BY <1>1, <1>4
  <2>2. PICK j \in ClockNotes(o) : i + 1 < j
    BY <2>1 DEF ClockSays
  <2>3. j \in Nat /\ j - 1 \in DOMAIN p /\ p[j - 1] = o[j] /\ i < j - 1
    BY <1>1, <2>1, <2>2 DEF ClockNotes
  <2>4. j - 1 \in ClockNotes(p)
    BY <2>2, <2>3 DEF ClockNotes
  <2> QED
    BY <2>3, <2>4
<1>5. ClockSays(p, R, c, at)
  BY <1>2, <1>3, <1>4 DEF ClockSays
<1> QED
  BY <1>5 DEF p

-----------------------------------------------------------------------------
(* Counting up: what is done step after step has a last result.               *)

\* Numbers have a least one among them.
LEMMA LeastNatural ==
  ASSUME NEW N \in SUBSET Nat, N # {}
  PROVE  \E d \in N : \A e \in N : d <= e
<1>1. PICK d \in N : \A e \in N : ~(<<e, d>> \in OpToRel(<, Nat))
  BY NatLessThanWellFounded, WFMin
<1>2. \A e \in N : ~(e < d)
  <2> SUFFICES ASSUME NEW e \in N, e < d
               PROVE  FALSE
    OBVIOUS
  <2>1. <<e, d>> \in Nat \X Nat
    OBVIOUS
  <2> QED
    BY <1>1, <2>1 DEF OpToRel
<1> QED
  BY <1>2

\* A set of numbers that has 0, and n once it has n - 1, has all up to N.
LEMMA CountUp ==
  ASSUME NEW N \in Nat, NEW G, 0 \in G, \A n \in 1..N : n - 1 \in G => n \in G
  PROVE  \A n \in 0..N : n \in G
<1> DEFINE F == {n \in 0..N : n \notin G}
<1> SUFFICES F = {}
  OBVIOUS
<1> SUFFICES ASSUME F # {} PROVE FALSE
  OBVIOUS
<1>1. F \in SUBSET Nat
  OBVIOUS
<1>2. PICK n \in F : \A m \in F : n <= m
  <2> HIDE DEF F
  <2> QED
    BY <1>1, LeastNatural
<1>3. n \in 1..N /\ n - 1 \in 0..N
  BY <1>2
<1> QED
  BY <1>2, <1>3

IsRun(f, N, base, step) ==
  f[0] = base /\ \A n \in 1..N : f[n] = step[<<f[n - 1], n>>]

\* What each step does to what the one before it left is done to a first value, one
\* step after the other.
LEMMA StepsTaken ==
  ASSUME NEW N \in Nat, NEW X, NEW base \in X, NEW step \in [X \X (1..N) -> X]
  PROVE  \E f \in [0..N -> X] : IsRun(f, N, base, step)
<1> DEFINE G == {m \in 0..N : \E f \in [0..m -> X] : IsRun(f, m, base, step)}
<1>1. 0 \in G
  <2> DEFINE f == [n \in 0..0 |-> base]
  <2>1. f \in [0..0 -> X] /\ f[0] = base
    OBVIOUS
  <2>2. IsRun(f, 0, base, step)
    BY <2>1 DEF IsRun
  <2>3. 0 \in 0..N
    OBVIOUS
  <2> HIDE DEF f
  <2> QED
    BY <2>1, <2>2, <2>3
<1>2. ASSUME NEW m \in 1..N, m - 1 \in G
      PROVE  m \in G
  <2>1. PICK f \in [0..m - 1 -> X] : IsRun(f, m - 1, base, step)
    BY <1>2
  <2>2. m - 1 \in 0..m - 1 /\ m \in 0..N
    BY <1>2
  <2> DEFINE last == step[<<f[m - 1], m>>]
             g == [n \in 0..m |-> IF n = m THEN last ELSE f[n]]
  <2>3. last \in X
    BY <1>2, <2>1, <2>2
  <2>4. \A n \in 0..m : n # m => n \in 0..m - 1
    BY <1>2
  <2>5. g \in [0..m -> X]
    BY <2>1, <2>3, <2>4
  <2>6. g[m] = last /\ \A n \in 0..m - 1 : g[n] = f[n]
    BY <1>2
  <2> HIDE DEF g
  <2>7. 0 \in 0..m - 1
    BY <1>2
  <2>8. \A n \in 1..m : g[n] = step[<<g[n - 1], n>>]
    <3> TAKE n \in 1..m
    <3>1. CASE n = m
      BY <2>2, <2>6, <3>1
    <3>2. CASE n # m
      <4>1. n \in 1..m - 1 /\ n \in 0..m - 1 /\ n - 1 \in 0..m - 1
        BY <1>2, <3>2
      <4> QED
        BY <2>1, <2>6, <4>1 DEF IsRun
    <3> QED
      BY <3>1, <3>2
  <2>9. IsRun(g, m, base, step)
    BY <2>1, <2>6, <2>7, <2>8 DEF IsRun
  <2> QED
    BY <2>2, <2>5, <2>9
<1>3. N \in 0..N
  OBVIOUS
<1> HIDE DEF G
<1>4. N \in G
  BY <1>1, <1>2, <1>3, CountUp
<1> QED
  BY <1>4 DEF G

-----------------------------------------------------------------------------
(* The writes go through one after the other.                                 *)

Tables == {R \in SUBSET Row : Unique(R)}
Spoken == \A i \in DOMAIN outbox : PlainSpoken(outbox[i])

\* so[n] is the table once the first n writes are through.
Turns(so) ==
  /\ so[0] = rows
  /\ \A n \in 1..Len(outbox) : so[n] = Served(so[n - 1], Sample(outbox[n]))
  /\ Through = so[Len(outbox)]

LEMMA ThroughTurns ==
  ASSUME rows \in Tables, now \in Nat, OutboxOK, Spoken
  PROVE  \E so : Turns(so)
<1> DEFINE N == Len(outbox)
           step == [p \in Tables \X (1..N) |-> Served(p[1], Sample(outbox[p[2]]))]
           body(f) == [n \in 0..N |-> IF n = 0 THEN rows ELSE Served(f[n - 1], Sample(outbox[n]))]
           so == CHOOSE f : f = body(f)
<1>1. N \in Nat /\ \A n \in 1..N : outbox[n] \in Writes /\ PlainSpoken(outbox[n])
  BY DEF OutboxOK, Spoken
<1>2. \A p \in Tables, n \in 1..N : step[<<p, n>>] = Served(p, Sample(outbox[n]))
  OBVIOUS
<1>3. step \in [Tables \X (1..N) -> Tables]
  <2> SUFFICES ASSUME NEW p \in Tables \X (1..N)
               PROVE  Served(p[1], Sample(outbox[p[2]])) \in Tables
    OBVIOUS
  <2> HIDE DEF N
  <2>1. p[1] \in SUBSET Row /\ Unique(p[1]) /\ p[2] \in 1..N
    BY DEF Tables
  <2>2. Leaves(p[1], outbox[p[2]], Served(p[1], Sample(outbox[p[2]])))
    BY <1>1, <2>1, WritesLeave
  <2> QED
    BY <2>2 DEF Leaves, Tables
<1> HIDE DEF step
<1>4. PICK f \in [0..N -> Tables] : IsRun(f, N, rows, step)
  <2> HIDE DEF N
  <2> QED
    BY ONLY <1>1, <1>3, rows \in Tables, StepsTaken
<1>5. f = body(f)
  <2>1. \A n \in 1..N : f[n] = Served(f[n - 1], Sample(outbox[n]))
    <3> TAKE n \in 1..N
    <3>1. n - 1 \in 0..N
      BY <1>1
    <3> HIDE DEF N
    <3> QED
      BY <1>2, <1>4, <3>1 DEF IsRun
  <2>2. \A n \in 0..N : n # 0 => n \in 1..N
    BY <1>1
  <2> HIDE DEF N
  <2> QED
    BY <1>4, <2>1, <2>2 DEF IsRun
<1>6. so = body(so)
  <2> HIDE DEF body
  <2> QED
    BY <1>5
<1>7. Through = so[N]
  BY DEF Through
<1> HIDE DEF so
<1>8. 0 \in 0..N /\ \A n \in 1..N : n \in 0..N /\ n # 0
  BY <1>1
<1>9. so[0] = rows /\ \A n \in 1..N : so[n] = Served(so[n - 1], Sample(outbox[n]))
  BY <1>6, <1>8
<1> QED
  BY <1>7, <1>9 DEF Turns

\* What the outbox says of a block or of the clock is what its writes do to them.
LEMMA ThroughSays ==
  ASSUME rows \in Tables, now \in Nat, OutboxOK, Spoken
  PROVE  /\ Through \in Tables
         /\ \A d \in Days, t \in Tasks : \A shown :
              LogSays(outbox, rows, d, t, shown) => Booked(Through, d, t) = shown
         /\ \A c \in Records : ClockSays(outbox, rows, c, now) => SameClock(c, GetClock(Through))
<1> DEFINE N == Len(outbox)
<1>1. PICK so : Turns(so)
  BY ThroughTurns
<1>2. /\ so[0] = rows
      /\ \A n \in 1..N : so[n] = Served(so[n - 1], Sample(outbox[n]))
      /\ Through = so[N]
  BY <1>1 DEF Turns
<1>3. /\ N \in Nat /\ DOMAIN outbox = 1..N
      /\ \A n \in 1..N : outbox[n] \in Writes /\ PlainSpoken(outbox[n])
      /\ \A n \in 1..N : n \in 0..N /\ n - 1 \in 0..N /\ n \in Nat
  BY DEF OutboxOK, Spoken
<1> HIDE DEF N
<1>4. \A n \in 0..N : so[n] \in Tables
  <2> DEFINE G == {n \in 0..N : so[n] \in Tables}
  <2>1. 0 \in G
    BY <1>2, <1>3
  <2>2. ASSUME NEW n \in 1..N, n - 1 \in G PROVE n \in G
    <3>1. so[n - 1] \in SUBSET Row /\ Unique(so[n - 1])
      BY <2>2 DEF Tables
    <3>2. Leaves(so[n - 1], outbox[n], so[n])
      BY <1>2, <1>3, <3>1, WritesLeave
    <3> QED
      BY <1>3, <3>2 DEF Leaves, Tables
  <2> HIDE DEF G
  <2>3. \A n \in 0..N : n \in G
    BY <1>3, <2>1, <2>2, CountUp
  <2> QED
    BY <2>3 DEF G
<1>5. \A n \in 1..N : Leaves(so[n - 1], outbox[n], so[n])
  <2> TAKE n \in 1..N
  <2>1. so[n - 1] \in SUBSET Row /\ Unique(so[n - 1])
    BY <1>3, <1>4 DEF Tables
  <2> QED
    BY <1>2, <1>3, <2>1, WritesLeave
<1>6. N \in 0..N
  BY <1>3
<1>7. ASSUME NEW d \in Days, NEW t \in Tasks, NEW shown, LogSays(outbox, rows, d, t, shown)
      PROVE  Booked(Through, d, t) = shown
  <2> DEFINE over(n) == \A j \in 1..N : NotesBlock(outbox[j], d, t) => j <= n
             G == {n \in 0..N : over(n) => Booked(so[n], d, t) = shown}
  <2>1. 0 \in G
    <3> SUFFICES ASSUME over(0) PROVE Booked(rows, d, t) = shown
      BY <1>2, <1>3
    <3>1. BlockNotes(outbox, d, t) = {}
      BY <1>3 DEF BlockNotes
    <3> QED
      BY <1>7, <3>1 DEF LogSays
  <2>2. ASSUME NEW n \in 1..N, n - 1 \in G PROVE n \in G
    <3> SUFFICES ASSUME over(n) PROVE Booked(so[n], d, t) = shown
      BY <1>3
    <3>1. CASE NotesBlock(outbox[n], d, t)
      <4>1. IsLast(n, BlockNotes(outbox, d, t))
        BY <1>3, <3>1 DEF IsLast, BlockNotes
      <4>2. shown = Books(outbox[n])
        BY <1>3, <1>7, <4>1 DEF LogSays
      <4> QED
        BY <1>5, <3>1, <4>2 DEF Leaves
    <3>2. CASE ~NotesBlock(outbox[n], d, t)
      <4>1. over(n - 1)
        <5> SUFFICES ASSUME NEW j \in 1..N, NotesBlock(outbox[j], d, t) PROVE j <= n - 1
          OBVIOUS
        <5>1. j # n /\ j <= n /\ j \in Nat /\ n \in Nat
          BY <1>3, <3>2
        <5> QED
          BY <5>1
      <4>2. Booked(so[n - 1], d, t) = shown
        BY <2>2, <4>1
      <4> QED
        BY <1>5, <3>2, <4>2 DEF Leaves
    <3> QED
      BY <3>1, <3>2
  <2>3. over(N)
    BY <1>3
  <2>4. \A n \in 0..N : n \in G
    <3> HIDE DEF G
    <3> QED
      BY <1>3, <2>1, <2>2, CountUp
  <2> QED
    BY <1>2, <1>6, <2>3, <2>4
<1>8. ASSUME NEW c \in Records, ClockSays(outbox, rows, c, now)
      PROVE  SameClock(c, GetClock(Through))
  <2> DEFINE over(n) == \A j \in 1..N : NotesClock(outbox[j]) => j <= n
             G == {n \in 0..N : over(n) => SameClock(c, GetClock(so[n]))}
  <2>1. 0 \in G
    <3> SUFFICES ASSUME over(0) PROVE SameClock(c, GetClock(rows))
      BY <1>2, <1>3
    <3>1. ClockNotes(outbox) = {}
      BY <1>3 DEF ClockNotes
    <3> QED
      BY <1>8, <3>1, SameNow DEF ClockSays
  <2>2. ASSUME NEW n \in 1..N, n - 1 \in G PROVE n \in G
    <3> SUFFICES ASSUME over(n) PROVE SameClock(c, GetClock(so[n]))
      BY <1>3
    <3>1. CASE NotesClock(outbox[n])
      <4>1. IsLast(n, ClockNotes(outbox))
        BY <1>3, <3>1 DEF IsLast, ClockNotes
      <4>2. Times(outbox[n]) /\ outbox[n].record = c
        BY <1>3, <1>8, <4>1 DEF ClockSays
      <4> QED
        BY <1>5, <4>2 DEF Leaves
    <3>2. CASE ~NotesClock(outbox[n])
      <4>1. over(n - 1)
        <5> SUFFICES ASSUME NEW j \in 1..N, NotesClock(outbox[j]) PROVE j <= n - 1
          OBVIOUS
        <5>1. j # n /\ j <= n /\ j \in Nat /\ n \in Nat
          BY <1>3, <3>2
        <5> QED
          BY <5>1
      <4>2. SameClock(c, GetClock(so[n - 1]))
        BY <2>2, <4>1
      <4>3. ~Stops(outbox[n], c)
        <5> SUFFICES ASSUME Stops(outbox[n], c) PROVE FALSE
          OBVIOUS
        <5>1. PICK j \in ClockNotes(outbox) : n < j
          BY <1>3, <1>8 DEF ClockSays
        <5>2. j \in 1..N /\ NotesClock(outbox[j]) /\ j \in Nat /\ n \in Nat
          BY <1>3, <5>1 DEF ClockNotes
        <5> QED
          BY <5>1, <5>2
      <4>4. ~Stops(outbox[n], GetClock(so[n - 1]))
        BY <4>2, <4>3 DEF Stops, SameClock, Names
      <4>5. GetClock(so[n]) = GetClock(so[n - 1])
        BY <1>5, <3>2, <4>4 DEF Leaves
      <4> QED
        BY <4>2, <4>5
    <3> QED
      BY <3>1, <3>2
  <2>3. over(N)
    BY <1>3
  <2>4. \A n \in 0..N : n \in G
    <3> HIDE DEF G
    <3> QED
      BY <1>3, <2>1, <2>2, CountUp
  <2> QED
    BY <1>2, <1>6, <2>3, <2>4
<1> QED
  BY <1>2, <1>4, <1>6, <1>7, <1>8

-----------------------------------------------------------------------------
(* The inductive invariant of the page.                                       *)

LogShown == "log" \in synced => \A t \in Tasks : LogSays(outbox, rows, day, t, OnScreen(t))
ClockShown == "clock" \in synced /\ clock # None => ClockSays(outbox, rows, clock, now)

\* What the table has of a write it took, until the page knows.
TookIt(w, R, kinds, at) ==
  /\ "log" \in kinds /\ HookOf(w) = "log" => Booked(R, w.day, w.task) = Books(w)
  /\ "clock" \in kinds /\ Times(w) => SameAt(w.record, GetClock(R), at)

\* The request on the network is the head as it is now; no write of a kind waits
\* behind a fresh read of it; a write that was taken is in the table.
WireTells ==
  wire # None =>
    /\ wire.at = "sent" /\ wire.kind = "write" => wire.req = Sample(Head(outbox))
    /\ wire.kind \in Reads /\ wire.fresh => \A i \in DOMAIN outbox : HookOf(outbox[i]) # wire.kind
    /\ wire.at = "answered" /\ wire.answer => TookIt(Head(outbox), rows, synced, now)

\* No clock was started in the future.
Past(stamp, at) == stamp = None \/ stamp <= at
RowsPast == \A r \in rows : Past(r.leg, now)
ScreenPast ==
  /\ clock # None => Past(clock.since, now)
  /\ undo # None /\ undo.snapshot # None => Past(undo.snapshot.since, now)
  /\ doing # None /\ doing.snapshot # None => Past(doing.snapshot.since, now)

ScreenInv == Spoken /\ LogShown /\ ClockShown /\ WireTells /\ RowsPast /\ ScreenPast

LEMMA RowsStayPast ==
  ASSUME TableInv, RowsPast, [SessionsNext]_sessionVars
  PROVE  RowsPast'
<1>1. rows \in SUBSET Row /\ now \in Nat /\ None \notin Nat
  BY SessionsAssumption DEF TableInv, SessionsTypeOK
<1>2. now' \in Nat /\ now <= now'
  <2>1. now' = now \/ now' = now + 1
    BY DEF SessionsNext, PutClock, DeleteClock, PutBlock, DeleteBlock, TrashTask, RestoreTask,
           PurgeTask, Tick, sessionVars
  <2> QED
    BY <1>1, <2>1
<1>3. \A r \in rows' : r \in rows \/ r.leg = None \/ r.leg = now
  BY DEF SessionsNext, PutClock, DeleteClock, PutBlock, DeleteBlock, TrashTask, RestoreTask,
         PurgeTask, Tick, sessionVars, SetClock, ClearClock, FinishBlock, RemoveBlock,
         PurgeForTasks, ClockRow, BlockRow
<1>4. \A r \in rows : r.leg \in Nat \cup {None}
  BY <1>1 DEF Row
<1> QED
  BY <1>1, <1>2, <1>3, <1>4 DEF RowsPast, Past

\* A clock that agrees with its row goes on agreeing.
LEMMA TimeKeeps ==
  ASSUME NEW c \in Records, NEW r \in Row, NEW at \in Nat,
         Past(c.since, at), Past(r.leg, at), SameAt(c, r, at)
  PROVE  SameAt(c, r, at + 1)
<1>1. /\ c.since \in Nat \cup {None} /\ c.banked \in Nat
      /\ r.leg \in Nat \cup {None} /\ r.banked \in Nat /\ None \notin Nat
  BY SessionsAssumption DEF Records, Row
<1> QED
  BY <1>1 DEF SameAt, Past, ElapsedMs

\* What a user's change puts in the outbox leaves the rest of it as it was.
LEMMA SendTells ==
  ASSUME PhoneOK, Spoken, WireTells, NEW ws \in Seq(Writes), ws # <<>>, Send(ws),
         \A i \in DOMAIN ws : PlainSpoken(ws[i]),
         UNCHANGED sessionVars, synced' \subseteq synced
  PROVE  Spoken' /\ WireTells' /\ outbox' = outbox \o ws
<1> DEFINE hooks == {HookOf(ws[i]) : i \in DOMAIN ws}
<1>1. /\ outbox' = outbox \o ws
      /\ wire' = IF wire # None /\ wire.kind \in hooks THEN [wire EXCEPT !.fresh = FALSE] ELSE wire
      /\ outbox \in Seq(Writes)
  BY DEF Send, PhoneOK, OutboxOK
<1>2. \A i \in DOMAIN outbox' : \/ i \in DOMAIN outbox /\ outbox'[i] = outbox[i]
                                \/ \E j \in DOMAIN ws : outbox'[i] = ws[j]
  <2> TAKE i \in DOMAIN outbox'
  <2> DEFINE p == outbox \o ws
  <2>1. /\ \A k \in DOMAIN outbox : p[k] = outbox[k]
        /\ \A k \in DOMAIN ws : p[Len(outbox) + k] = ws[k]
        /\ \A k \in DOMAIN p : k \in DOMAIN outbox \/ (k - Len(outbox) \in DOMAIN ws /\ Len(outbox) + (k - Len(outbox)) = k)
    BY <1>1
  <2>2. i \in DOMAIN p /\ outbox'[i] = p[i]
    BY <1>1
  <2> HIDE DEF p
  <2> QED
    BY <2>1, <2>2
<1>3. Spoken'
  BY <1>2 DEF Spoken, PlainSpoken, Times
<1>4. outbox # <<>> => Head(outbox') = Head(outbox)
  BY <1>1
<1>5. now' = now /\ rows' = rows
  BY DEF sessionVars
<1>6. ASSUME wire' # None PROVE
        /\ wire'.at = "sent" /\ wire'.kind = "write" => wire'.req = Sample(Head(outbox))'
        /\ wire'.kind \in Reads /\ wire'.fresh => \A i \in DOMAIN outbox' : HookOf(outbox'[i]) # wire'.kind
        /\ wire'.at = "answered" /\ wire'.answer => TookIt(Head(outbox'), rows', synced', now')
  <2> DEFINE h == hooks
  <2> HIDE DEF h
  <2>0. wire' = IF wire # None /\ wire.kind \in h THEN [wire EXCEPT !.fresh = FALSE] ELSE wire
    BY <1>1 DEF h
  <2>1. wire # None /\ wire.kind = wire'.kind /\ wire.at = wire'.at
    BY <1>6, <2>0 DEF PhoneOK, WireOK
  <2>2. wire'.kind = "write" /\ wire'.at = "sent" => wire'.req = wire.req
    BY <2>0, <2>1 DEF PhoneOK, WireOK
  <2>3. wire'.at = "answered" => wire'.answer = wire.answer /\ wire'.kind = "write"
    BY <2>0, <2>1 DEF PhoneOK, WireOK
  <2>4. wire'.kind = "write" => outbox # <<>>
    BY <2>1 DEF PhoneOK, WireOK
  <2>5. wire'.kind \in Reads /\ wire'.fresh => wire.fresh /\ wire.kind \notin h
    BY <2>0, <2>1 DEF PhoneOK, WireOK
  <2>6. wire'.at = "sent" /\ wire'.kind = "write" => wire'.req = Sample(Head(outbox))'
    <3> SUFFICES ASSUME wire'.at = "sent", wire'.kind = "write" PROVE wire'.req = Sample(Head(outbox))'
      OBVIOUS
    <3>1. wire'.req = Sample(Head(outbox)) /\ Head(outbox') = Head(outbox)
      BY <1>4, <2>1, <2>2, <2>4 DEF WireTells
    <3> QED
      BY <1>5, <3>1 DEF Sample, Elapsed, ElapsedMs
  <2>7. ASSUME wire'.kind \in Reads, wire'.fresh, NEW i \in DOMAIN outbox'
        PROVE  HookOf(outbox'[i]) # wire'.kind
    <3>1. \A k \in DOMAIN outbox : HookOf(outbox[k]) # wire'.kind
      BY <2>1, <2>5, <2>7 DEF WireTells
    <3>2. \A k \in DOMAIN ws : HookOf(ws[k]) # wire'.kind
      BY <2>1, <2>5, <2>7 DEF h
    <3> QED
      BY <1>2, <3>1, <3>2
  <2>8. wire'.at = "answered" /\ wire'.answer => TookIt(Head(outbox'), rows', synced', now')
    BY <1>4, <1>5, <2>1, <2>3, <2>4 DEF WireTells, TookIt
  <2> QED
    BY <2>6, <2>7, <2>8
<1>7. WireTells'
  BY <1>6 DEF WireTells
<1> QED
  BY <1>1, <1>3, <1>7

\* What the page shows of a block, the writes left aside that are about another.
LEMMA UserShows ==
  ASSUME TableInv, PhoneOK, ScreenInv, PhoneOK',
         \/ \E t \in Tasks : StartClock(t) \/ PauseClock(t) \/ Reopen(t)
         \/ \E t \in Tasks, cur \in Tasks : MarkDone(cur, t) \/ Defer(cur, t)
         \/ Undo \/ TaskAnswers
  PROVE  ScreenInv'
<1>n. /\ now \in Nat /\ day \in Days /\ None \notin Nat /\ rows \in SUBSET Row
      /\ outbox \in Seq(Writes) /\ clock \in Records \cup {None}
      /\ ShownLog \in SUBSET [task : Tasks, minutes : Nat] /\ synced \subseteq Reads
  BY SessionsAssumption, ShownIsRecord
     DEF TableInv, SessionsTypeOK, PhoneOK, ScreenOK, OutboxOK, SyncOK
<1>u. Spoken /\ WireTells /\ LogShown /\ ClockShown /\ RowsPast /\ ScreenPast
  BY DEF ScreenInv
<1>h. ASSUME NEW ws \in Seq(Writes), ws # <<>>, Send(ws), \A i \in DOMAIN ws : PlainSpoken(ws[i]),
             UNCHANGED sessionVars, synced' \subseteq synced, LogShown', ClockShown', ScreenPast'
      PROVE  ScreenInv'
  <2>1. Spoken' /\ WireTells'
    BY <1>h, <1>u, SendTells
  <2>2. RowsPast'
    BY <1>h, <1>u DEF RowsPast, Past, sessionVars
  <2> QED
    BY <1>h, <2>1, <2>2 DEF ScreenInv
\* The blocks on screen and in the table stay, and the writes note none.
<1>l. ASSUME NEW ws \in Seq(Writes), outbox' = outbox \o ws, UNCHANGED <<rows, day, log>>,
             synced' \subseteq synced, \A i \in DOMAIN ws : NotesClock(ws[i])
      PROVE  LogShown'
  <2> SUFFICES ASSUME "log" \in synced', NEW t \in Tasks
               PROVE  LogSays(outbox', rows', day', t, OnScreen(t)')
    BY DEF LogShown
  <2>1. OnScreen(t)' = OnScreen(t)
    BY <1>l DEF OnScreen, ShownLog, HeldLog
  <2>2. LogSays(outbox, rows, day, t, OnScreen(t))
    BY <1>l, <1>u DEF LogShown
  <2>3. \A i \in DOMAIN ws : ~NotesBlock(ws[i], day, t)
    BY <1>l DEF NotesClock, NotesBlock
  <2>4. LogSays(outbox \o ws, rows, day, t, OnScreen(t))
    BY <1>n, <2>2, <2>3, AppendKeepsLog
  <2> QED
    BY <1>l, <2>1, <2>4
\* The last write says of the clock what is on screen.
<1>c. ASSUME NEW ws \in Seq(Writes), ws # <<>>, outbox' = outbox \o ws,
             clock' # None => Times(ws[Len(ws)]) /\ ws[Len(ws)].record = clock'
      PROVE  ClockShown'
  <2> SUFFICES ASSUME clock' # None PROVE ClockSays(outbox', rows', clock', now')
    BY DEF ClockShown
  <2> QED
    BY <1>n, <1>c, AppendSetsClock
\* The block of task t is set on screen, by write k.
<1>b. ASSUME NEW ws \in Seq(Writes), outbox' = outbox \o ws, UNCHANGED <<rows, day>>,
             synced' \subseteq synced, NEW t \in Tasks, NEW k \in DOMAIN ws,
             IsLast(k, BlockNotes(ws, day, t)),
             "log" \in synced' =>
               /\ OnScreen(t)' = Books(ws[k])
               /\ \A s \in Tasks \ {t} : OnScreen(s)' = OnScreen(s),
             \A i \in DOMAIN ws, s \in Tasks \ {t} : ~NotesBlock(ws[i], day, s)
      PROVE  LogShown'
  <2> SUFFICES ASSUME "log" \in synced', NEW s \in Tasks
               PROVE  LogSays(outbox', rows', day', s, OnScreen(s)')
    BY DEF LogShown
  <2>1. CASE s = t
    <3>1. LogSays(outbox \o ws, rows, day, t, Books(ws[k]))
      BY <1>n, <1>b, AppendSetsLog
    <3> QED
      BY <1>b, <2>1, <3>1
  <2>2. CASE s # t
    <3>1. LogSays(outbox, rows, day, s, OnScreen(s))
      BY <1>b, <1>u DEF LogShown
    <3>2. \A i \in DOMAIN ws : ~NotesBlock(ws[i], day, s)
      BY <1>b, <2>2
    <3>3. LogSays(outbox \o ws, rows, day, s, OnScreen(s))
      BY <1>n, <3>1, <3>2, AppendKeepsLog
    <3> QED
      BY <1>b, <2>2, <3>3
  <2> QED
    BY <2>1, <2>2
<1>1. ASSUME NEW t \in Tasks, StartClock(t) PROVE ScreenInv'
  <2> DEFINE own == Shown(t)
             c == Record(day, t, now, IF own = None THEN 0 ELSE Elapsed(own))
  <2>1. own \in Records \cup {None}
    BY ShownIsRecord DEF PhoneOK
  <2>2. (IF own = None THEN 0 ELSE Elapsed(own)) \in Nat
    BY <2>1, <1>n, ElapsedIsNat
  <2>3. c \in Records /\ c.since = now
    BY <2>2, <1>n, RecordIsRecord DEF Record
  <2>4. clock' = c /\ Send(<<Run(c)>>) /\ UNCHANGED <<day, log, undo, doing, synced, sessionVars>>
    BY <1>1 DEF StartClock, Act
  <2> HIDE DEF c
  <2> DEFINE ws == <<Run(c)>>
  <2>5. ws \in Seq(Writes) /\ ws # <<>> /\ Len(ws) = 1 /\ ws[1] = Run(c) /\ DOMAIN ws = {1} /\ Send(ws)
    BY <2>3, <2>4, <1>n, WritesAreWrites
  <2> HIDE DEF ws
  <2>6. Times(ws[1]) /\ NotesClock(ws[1]) /\ ws[1].record = c /\ PlainSpoken(ws[1])
    BY <2>3, <2>5, <1>n DEF Run, Times, NotesClock, PlainSpoken
  <2>7. outbox' = outbox \o ws
    BY <2>5 DEF Send
  <2>8. ScreenPast'
    BY <2>3, <2>4, <1>n, <1>u DEF ScreenPast, Past, sessionVars
  <2>9. LogShown' /\ ClockShown'
    BY <2>4, <2>5, <2>6, <2>7, <1>l, <1>c DEF sessionVars
  <2> QED
    BY <2>4, <2>5, <2>6, <2>8, <2>9, <1>h
<1>2. ASSUME NEW t \in Tasks, PauseClock(t) PROVE ScreenInv'
  <2> DEFINE c == Record(day, t, None, Elapsed(clock))
  <2>1. clock \in Records
    BY <1>2, <1>n DEF PauseClock, Shown
  <2>3. c \in Records /\ c.since = None
    BY <2>1, <1>n, ElapsedIsNat, RecordIsRecord DEF Record
  <2>4. clock' = c /\ Send(<<Pause(c)>>) /\ UNCHANGED <<day, log, undo, doing, synced, sessionVars>>
    BY <1>2 DEF PauseClock, Act
  <2> HIDE DEF c
  <2> DEFINE ws == <<Pause(c)>>
  <2>5. ws \in Seq(Writes) /\ ws # <<>> /\ Len(ws) = 1 /\ ws[1] = Pause(c) /\ DOMAIN ws = {1} /\ Send(ws)
    BY <2>3, <2>4, <1>n, WritesAreWrites
  <2> HIDE DEF ws
  <2>6. Times(ws[1]) /\ NotesClock(ws[1]) /\ ws[1].record = c /\ PlainSpoken(ws[1])
    BY <2>3, <2>5, <1>n DEF Pause, Times, NotesClock, PlainSpoken
  <2>7. outbox' = outbox \o ws
    BY <2>5 DEF Send
  <2>8. ScreenPast'
    BY <2>3, <2>4, <1>n, <1>u DEF ScreenPast, Past, sessionVars
  <2>9. LogShown' /\ ClockShown'
    BY <2>4, <2>5, <2>6, <2>7, <1>l, <1>c DEF sessionVars
  <2> QED
    BY <2>4, <2>5, <2>6, <2>8, <2>9, <1>h
\* Nothing on the screen or in the queue changes but the taps.
<1>s. ASSUME UNCHANGED <<sessionVars, day, clock, log, outbox, wire, synced>>, ScreenPast'
      PROVE  ScreenInv'
  <2>1. now' = now /\ rows' = rows
    BY <1>s DEF sessionVars
  <2>2. Spoken' /\ RowsPast' /\ LogShown' /\ ClockShown'
    BY <1>s, <1>u, <2>1
       DEF Spoken, PlainSpoken, Times, RowsPast, LogShown, OnScreen, ShownLog, HeldLog, ClockShown
  <2>3. Sample(Head(outbox))' = Sample(Head(outbox))
    BY <1>s, <2>1 DEF Sample, Elapsed, ElapsedMs
  <2>4. WireTells'
    BY <1>s, <1>u, <2>1, <2>3 DEF WireTells
  <2> QED
    BY <1>s, <2>2, <2>4 DEF ScreenInv
<1>3. ASSUME NEW t \in Tasks, NEW cur \in Tasks, MarkDone(cur, t) \/ Defer(cur, t) \/ Reopen(t)
      PROVE  ScreenInv'
  <2>1. /\ UNCHANGED <<sessionVars, day, clock, log, undo, outbox, wire, synced>>
        /\ doing' # None => doing'.snapshot \in {Shown(cur), None}
    BY <1>3 DEF MarkDone, Defer, Reopen, Tap, Act, queueVars
  <2>2. doing' # None /\ doing'.snapshot # None => doing'.snapshot = clock /\ clock # None
    BY <2>1 DEF Shown
  <2>3. ScreenPast'
    BY <1>u, <2>1, <2>2 DEF ScreenPast, sessionVars
  <2> QED
    BY <1>s, <2>1, <2>3
<1>4. ASSUME Undo PROVE ScreenInv'
  <2>1. /\ UNCHANGED <<sessionVars, day, clock, log, outbox, wire, synced>>
        /\ undo # None /\ undo' = None /\ doing' \in {undo, doing}
    BY <1>4 DEF Undo, Act, queueVars
  <2>2. ScreenPast'
    BY <1>u, <2>1 DEF ScreenPast, sessionVars
  <2> QED
    BY <1>s, <2>1, <2>2
<1>5. ASSUME TaskRefuses PROVE ScreenInv'
  <2>1. UNCHANGED <<sessionVars, day, clock, log, undo, outbox, wire, synced>> /\ doing' = None
    BY <1>5 DEF TaskRefuses, queueVars
  <2>2. ScreenPast'
    BY <1>u, <2>1 DEF ScreenPast, sessionVars
  <2> QED
    BY <1>s, <2>1, <2>2
\* What the screen shows after the answer to a tap, its undo included.
<1>p. ASSUME doing # None, doing' = None, UNCHANGED sessionVars,
             clock' \in {None, clock, doing.snapshot},
             undo' # None => undo' = undo \/ undo'.snapshot = doing.snapshot
      PROVE  ScreenPast'
  BY <1>p, <1>u DEF ScreenPast, sessionVars
<1>t. ASSUME NEW op, TaskTakes(op)
      PROVE  doing # None /\ doing' = None /\ UNCHANGED <<sessionVars, day>>
  BY <1>t DEF TaskTakes
\* Write 1 books or unbooks task t of the tap's day, the rest leave the blocks alone.
<1>r. ASSUME NEW d \in Days, NEW t \in Tasks, NEW ws \in Seq(Writes), 1 \in DOMAIN ws,
             outbox' = outbox \o ws, UNCHANGED <<rows, day>>,
             synced' \subseteq synced, d # day => "log" \notin synced',
             NotesBlock(ws[1], d, t), \A i \in DOMAIN ws : i # 1 => NotesClock(ws[i]),
             NEW more, log' = [day |-> d, blocks |-> Without(HeldLog(d), t) \cup more],
             \A b \in more : b.task = t, {b.minutes : b \in more} = Books(ws[1])
      PROVE  LogShown'
  <2>1. CASE d # day
    BY <1>r, <2>1 DEF LogShown
  <2>2. CASE d = day
    <3>1. ShownLog' = {b \in ShownLog : b.task # t} \cup more
      BY <1>r, <2>2 DEF ShownLog, HeldLog, Without
    <3>2. OnScreen(t)' = Books(ws[1]) /\ \A s \in Tasks \ {t} : OnScreen(s)' = OnScreen(s)
      <4>1. {b \in ShownLog' : b.task = t} = more
        BY <1>r, <3>1
      <4>2. \A s \in Tasks \ {t} : {b \in ShownLog' : b.task = s} = {b \in ShownLog : b.task = s}
        BY <1>r, <3>1
      <4> QED
        BY <1>r, <4>1, <4>2 DEF OnScreen
    <3>3. \A i \in DOMAIN ws, s \in Tasks \ {t} : ~NotesBlock(ws[i], day, s)
      BY <1>r DEF NotesBlock, NotesClock
    <3>4. \A i \in BlockNotes(ws, day, t) : i = 1
      BY <1>r DEF BlockNotes, NotesBlock, NotesClock
    <3>5. IsLast(1, BlockNotes(ws, day, t))
      BY <1>r, <2>2, <3>4 DEF IsLast, BlockNotes
    <3> QED
      BY <1>r, <3>2, <3>3, <3>5, <1>b
  <2> QED
    BY <2>1, <2>2
\* The writes say nothing of the clock on screen, which stays.
<1>k. ASSUME NEW ws \in Seq(Writes), outbox' = outbox \o ws, UNCHANGED <<rows, now>>, synced' \subseteq synced,
             "clock" \in synced' /\ clock' # None =>
               clock' = clock /\ \A i \in DOMAIN ws : ~NotesClock(ws[i]) /\ ~Stops(ws[i], clock)
      PROVE  ClockShown'
  <2> SUFFICES ASSUME "clock" \in synced', clock' # None
               PROVE  ClockSays(outbox', rows', clock', now')
    BY DEF ClockShown
  <2>1. ClockSays(outbox, rows, clock, now)
    BY <1>k, <1>u DEF ClockShown
  <2>2. ClockSays(outbox \o ws, rows, clock, now)
    BY <1>n, <1>k, <2>1, AppendKeepsClock
  <2> QED
    BY <1>k, <2>2
<1>h2. SyncOK /\ \A kinds : HeldFor(kinds) \subseteq kinds /\ (doing.day # day => "log" \notin HeldFor(kinds))
  BY DEF HeldFor, PhoneOK
<1>6. ASSUME DoneTaken PROVE ScreenInv'
  <2> DEFINE d == doing.day
             t == doing.task
             m == doing.minutes
             booking == [task |-> t, minutes |-> m]
             f == Finish(d, t, m)
             e == Clear(d, t)
             ws == <<f>> \o (IF Ends THEN <<e>> ELSE <<>>)
  <2>1. doing # None /\ doing' = None /\ UNCHANGED <<sessionVars, day>>
    BY <1>6, <1>t DEF DoneTaken
  <2>2. d \in Days /\ t \in Tasks /\ m \in Nat
    BY <2>1, TapIsTap DEF PhoneOK
  <2>3. f \in Writes /\ e \in Writes
    BY <2>2 DEF Finish, Clear, Writes, Plain
  <2>4. /\ log' = [day |-> d, blocks |-> Without(HeldLog(d), t) \cup {booking}]
        /\ clock' = (IF Ends THEN None ELSE clock)
        /\ Send(ws)
        /\ undo' = [doing EXCEPT !.op = "undone", !.minutes = 0]
        /\ synced' = (IF ~Ends /\ clock # None /\ Names(clock, d, t)
                      THEN HeldFor(synced) \ {"clock"} ELSE HeldFor(synced))
    BY <1>6 DEF DoneTaken, SetLog, ArmUndo
  <2>5. f.op = "finish" /\ f.day = d /\ f.task = t /\ f.minutes = m /\ e.op = "clear"
        /\ booking.task = t /\ booking.minutes = m
    BY DEF Finish, Clear
  <2>6. ScreenPast'
    <3>1. doing \in Taps
      BY <2>1 DEF PhoneOK, ScreenOK
    <3>2. undo'.snapshot = doing.snapshot
      BY <2>4, <3>1 DEF Taps
    <3> QED
      BY <2>1, <2>4, <3>2, <1>p
  <2> HIDE DEF f, e, m, d, t, booking
  <2>7. ws \in Seq(Writes) /\ ws # <<>> /\ 1 \in DOMAIN ws /\ ws[1] = f
        /\ \A i \in DOMAIN ws : i = 1 \/ (ws[i] = e /\ Ends)
    BY <2>3
  <2> HIDE DEF ws
  <2>8. /\ NotesBlock(ws[1], d, t) /\ Books(ws[1]) = {m}
        /\ \A i \in DOMAIN ws : PlainSpoken(ws[i])
        /\ \A i \in DOMAIN ws : i # 1 => NotesClock(ws[i])
    BY <2>5, <2>7 DEF NotesBlock, NotesClock, Books, PlainSpoken, Times
  <2>9. outbox' = outbox \o ws /\ UNCHANGED <<rows, day, now>> /\ synced' \subseteq synced
        /\ (d # day => "log" \notin synced')
    BY <2>1, <2>4, <1>h2 DEF Send, sessionVars, d
  <2>10. LogShown'
    <3>1. PICK dd \in Days : dd = d
      BY <2>2
    <3>2. PICK tt \in Tasks : tt = t
      BY <2>2
    <3> DEFINE more == {booking}
    <3>3. (\A b \in more : b.task = tt) /\ {b.minutes : b \in more} = Books(ws[1])
      BY <2>5, <2>8, <3>2
    <3>4. log' = [day |-> dd, blocks |-> Without(HeldLog(dd), tt) \cup more]
      BY <2>4, <3>1, <3>2
    <3> HIDE DEF more
    <3> QED
      BY <2>7, <2>8, <2>9, <3>1, <3>2, <3>3, <3>4, <1>r
  <2>11. ClockShown'
    <3> SUFFICES ASSUME "clock" \in synced', clock' # None
                 PROVE  clock' = clock /\ \A i \in DOMAIN ws : ~NotesClock(ws[i]) /\ ~Stops(ws[i], clock)
      BY <2>7, <2>9, <1>k
    <3>1. ~Ends /\ clock' = clock /\ clock # None
      BY <2>4
    <3>2. ~Names(clock, d, t)
      BY <2>4, <3>1
    <3>3. \A i \in DOMAIN ws : ws[i] = f
      BY <2>7, <3>1
    <3> QED
      BY <2>5, <3>1, <3>2, <3>3 DEF NotesClock, Stops
  <2> QED
    BY <2>1, <2>4, <2>6, <2>7, <2>8, <2>9, <2>10, <2>11, <1>h
<1>7. ASSUME ReopenTaken PROVE ScreenInv'
  <2> DEFINE d == doing.day
             t == doing.task
             f == TakeOut(d, t)
             ws == <<f>>
  <2>1. doing # None /\ doing' = None /\ UNCHANGED <<sessionVars, day>>
    BY <1>7, <1>t DEF ReopenTaken
  <2>2. d \in Days /\ t \in Tasks
    BY <2>1, TapIsTap DEF PhoneOK
  <2>3. f \in Writes
    BY <2>2 DEF TakeOut, Writes, Plain
  <2>4. /\ log' = [day |-> d, blocks |-> Without(HeldLog(d), t) \cup {}]
        /\ Send(ws)
        /\ UNCHANGED <<clock, undo>>
        /\ synced' = HeldFor(synced)
    BY <1>7 DEF ReopenTaken, SetLog
  <2>5. f.op = "remove" /\ f.day = d /\ f.task = t
    BY DEF TakeOut
  <2>6. ScreenPast'
    BY <2>1, <2>4, <1>p
  <2> HIDE DEF f, d, t
  <2>7. ws \in Seq(Writes) /\ ws # <<>> /\ DOMAIN ws = {1} /\ ws[1] = f
    BY <2>3
  <2> HIDE DEF ws
  <2>8. NotesBlock(ws[1], d, t) /\ Books(ws[1]) = {} /\ PlainSpoken(ws[1])
        /\ ~NotesClock(ws[1]) /\ ~Stops(ws[1], clock)
    BY <2>5, <2>7 DEF NotesBlock, NotesClock, Stops, Books, PlainSpoken, Times
  <2>9. outbox' = outbox \o ws /\ UNCHANGED <<rows, day, now>> /\ synced' \subseteq synced
        /\ (d # day => "log" \notin synced')
    BY <2>1, <2>4, <1>h2 DEF Send, sessionVars, d
  <2>10. LogShown'
    <3>1. PICK dd \in Days : dd = d
      BY <2>2
    <3>2. PICK tt \in Tasks : tt = t
      BY <2>2
    <3> DEFINE more == {}
    <3>3. (\A b \in more : b.task = tt) /\ {b.minutes : b \in more} = Books(ws[1])
      BY <2>8
    <3>4. log' = [day |-> dd, blocks |-> Without(HeldLog(dd), tt) \cup more]
      BY <2>4, <3>1, <3>2
    <3> HIDE DEF more
    <3> QED
      BY <2>7, <2>8, <2>9, <3>1, <3>2, <3>3, <3>4, <1>r
  <2>11. ClockShown'
    BY <2>4, <2>7, <2>8, <2>9, <1>k
  <2> QED
    BY <2>1, <2>4, <2>6, <2>7, <2>8, <2>9, <2>10, <2>11, <1>h
<1>8. ASSUME UndoneTaken \/ UndeferredTaken PROVE ScreenInv'
  <2> DEFINE d == doing.day
             t == doing.task
             out == TakeOut(d, t)
             back == RestoreClock
             snap == doing.snapshot
  <2>1. doing # None /\ doing' = None /\ UNCHANGED <<sessionVars, day>>
    BY <1>8, <1>t DEF UndoneTaken, UndeferredTaken
  <2>2. d \in Days /\ t \in Tasks
    BY <2>1, TapIsTap DEF PhoneOK
  <2>3. out \in Writes /\ out.op = "remove" /\ out.day = d /\ out.task = t
    BY <2>2 DEF TakeOut, Writes, Plain
  <2>4. /\ back \in Writes /\ back.op \in {"clear", "pause", "run"}
        /\ snap # None => /\ back.op \in {"pause", "run"} /\ back.record = snap
                          /\ (back.op = "run") <=> (snap.since # None)
    BY <2>1, RestoreIsWrite DEF PhoneOK
  <2>x. snap = None => back.op = "clear"
    BY DEF RestoreClock, Clear
  <2>5. /\ clock' = snap /\ undo' = undo
        /\ UndoneTaken => Send(<<out, back>>)
        /\ ~UndoneTaken => Send(<<back>>)
    BY <1>8 DEF UndoneTaken, UndeferredTaken
  <2>6. /\ UndoneTaken =>
             /\ log' = [day |-> d, blocks |-> Without(HeldLog(d), t) \cup {}]
             /\ synced' = HeldFor(synced)
        /\ ~UndoneTaken => UNCHANGED <<log, synced>>
    BY <1>8 DEF UndoneTaken, UndeferredTaken, SetLog
  <2>7. ScreenPast'
    BY <2>1, <2>5, <1>p
  <2>z. d # day => \A kinds : "log" \notin HeldFor(kinds)
    BY <1>h2
  <2> HIDE DEF out, d, t, back, snap
  <2>8. /\ PlainSpoken(back) /\ NotesClock(back)
        /\ snap # None => Times(back)
        /\ NotesBlock(out, d, t) /\ Books(out) = {} /\ PlainSpoken(out)
    BY <2>3, <2>4, <2>x DEF NotesBlock, NotesClock, Books, PlainSpoken, Times
  <2>9. PICK ws \in Seq(Writes) :
        /\ ws # <<>> /\ Send(ws) /\ ws[Len(ws)] = back
        /\ \A i \in DOMAIN ws : ws[i] = back \/ ws[i] = out
        /\ UndoneTaken => 1 \in DOMAIN ws /\ ws[1] = out /\ \A i \in DOMAIN ws : i # 1 => ws[i] = back
        /\ ~UndoneTaken => \A i \in DOMAIN ws : ws[i] = back
    <3>1. CASE UndoneTaken
      <4> DEFINE p == <<out, back>>
      <4>1. /\ p \in Seq(Writes) /\ p # <<>> /\ p[Len(p)] = back
            /\ DOMAIN p = {1, 2} /\ p[1] = out /\ p[2] = back
        BY <2>3, <2>4
      <4>2. Send(p)
        BY <2>5, <3>1
      <4> HIDE DEF p
      <4> QED
        BY <3>1, <4>1, <4>2
    <3>2. CASE ~UndoneTaken
      <4> DEFINE p == <<back>>
      <4>1. /\ p \in Seq(Writes) /\ p # <<>> /\ p[Len(p)] = back
            /\ DOMAIN p = {1} /\ p[1] = back
        BY <2>4
      <4>2. Send(p)
        BY <2>5, <3>2
      <4> HIDE DEF p
      <4> QED
        BY <3>2, <4>1, <4>2
    <3> QED
      BY <3>1, <3>2
  <2>10. outbox' = outbox \o ws /\ UNCHANGED <<rows, day, now>> /\ synced' \subseteq synced
    BY <2>1, <2>6, <2>9, <1>h2 DEF Send, sessionVars
  <2>11. ClockShown'
    BY <2>4, <2>5, <2>8, <2>9, <2>10, <1>c
  <2>12. LogShown'
    <3>1. CASE UndoneTaken
      <4>1. d # day => "log" \notin synced'
        BY <2>6, <2>z, <3>1
      <4>2. PICK dd \in Days : dd = d
        BY <2>2
      <4>3. PICK tt \in Tasks : tt = t
        BY <2>2
      <4> DEFINE more == {}
      <4>4. (\A b \in more : b.task = tt) /\ {b.minutes : b \in more} = Books(ws[1])
        BY <2>8, <2>9, <3>1
      <4>5. log' = [day |-> dd, blocks |-> Without(HeldLog(dd), tt) \cup more]
        BY <2>6, <3>1, <4>2, <4>3
      <4>6. 1 \in DOMAIN ws /\ NotesBlock(ws[1], dd, tt) /\ \A i \in DOMAIN ws : i # 1 => NotesClock(ws[i])
        BY <2>8, <2>9, <3>1, <4>2, <4>3
      <4> HIDE DEF more
      <4> QED
        BY <2>10, <4>1, <4>2, <4>4, <4>5, <4>6, <1>r
    <3>2. CASE ~UndoneTaken
      <4>1. UNCHANGED <<rows, day, log>> /\ \A i \in DOMAIN ws : NotesClock(ws[i])
        BY <2>6, <2>8, <2>9, <2>10, <3>2
      <4> QED
        BY <2>10, <4>1, <1>l
    <3> QED
      BY <3>1, <3>2
  <2> QED
    <3>1. \A i \in DOMAIN ws : PlainSpoken(ws[i])
      BY <2>8, <2>9
    <3> QED
      BY <2>1, <2>7, <2>9, <2>10, <2>11, <2>12, <3>1, <1>h
<1>9. ASSUME DeferTaken PROVE ScreenInv'
  <2>1. doing # None /\ doing' = None /\ UNCHANGED <<sessionVars, day, log, synced>>
    BY <1>9, <1>t DEF DeferTaken
  <2>2. clock' \in {None, clock} /\ undo' = [doing EXCEPT !.op = "undeferred", !.minutes = 0]
    BY <1>9 DEF DeferTaken, ArmUndo
  <2>3. ScreenPast'
    <3>1. doing \in Taps
      BY <2>1 DEF PhoneOK, ScreenOK
    <3>2. undo'.snapshot = doing.snapshot
      BY <2>2, <3>1 DEF Taps
    <3> QED
      BY <2>1, <2>2, <3>2, <1>p
  <2>4. CASE UNCHANGED <<clock, queueVars>>
    BY <2>1, <2>3, <2>4, <1>s DEF queueVars
  <2>5. CASE clock' = None /\ Send(<<Clear(doing.day, doing.task)>>)
    <3> DEFINE e == Clear(doing.day, doing.task)
               ws == <<e>>
    <3>1. e \in Writes
      BY <2>1, TapIsTap DEF PhoneOK, Clear, Writes, Plain
    <3>2. e.op = "clear"
      BY DEF Clear
    <3>3. Send(ws)
      BY <2>5
    <3> HIDE DEF e
    <3>4. ws \in Seq(Writes) /\ ws # <<>> /\ DOMAIN ws = {1} /\ ws[1] = e
      BY <3>1
    <3> HIDE DEF ws
    <3>5. NotesClock(ws[1]) /\ PlainSpoken(ws[1])
      BY <3>2, <3>4 DEF NotesClock, PlainSpoken, Times
    <3>6. outbox' = outbox \o ws /\ UNCHANGED <<rows, day, log>>
      BY <2>1, <3>3 DEF Send, sessionVars
    <3>7. LogShown'
      BY <2>1, <3>4, <3>5, <3>6, <1>l
    <3>8. ClockShown'
      BY <2>5 DEF ClockShown
    <3> QED
      BY <2>1, <2>3, <3>3, <3>4, <3>5, <3>7, <3>8, <1>h
  <2> QED
    BY <1>9, <2>4, <2>5 DEF DeferTaken
<1> QED
  BY <1>1, <1>2, <1>3, <1>4, <1>5, <1>6, <1>7, <1>8, <1>9 DEF TaskAnswers

\* A request of the outbox does to the table what it is taken to do, or nothing.
LEMMA ServedOrNot ==
  ASSUME NEW q \in Sent, Serve(q)
  PROVE  /\ UNCHANGED <<tasks, now>>
         /\ IF Accepts(q) THEN rows' = Served(rows, q) ELSE rows' = rows
<1>1. q.op \in {"put", "clear", "finish", "remove"}
  BY DEF Sent, Plain
<1>2. CASE ~Accepts(q) /\ UNCHANGED sessionVars
  BY <1>2 DEF sessionVars
<1>3. CASE q.op = "put" /\ PutClock(q.day, q.task, q.running, q.ms)
  BY <1>3 DEF PutClock, Accepts, Served
<1>4. CASE q.op = "clear" /\ DeleteClock(q.day, q.task)
  BY <1>4 DEF DeleteClock, Accepts, Served
<1>5. CASE q.op = "finish" /\ PutBlock(q.day, q.task, q.minutes)
  BY <1>5 DEF PutBlock, Accepts, Served
<1>6. CASE q.op = "remove" /\ DeleteBlock(q.day, q.task)
  BY <1>6 DEF DeleteBlock, Accepts, Served
<1> QED
  BY <1>2, <1>3, <1>4, <1>5, <1>6 DEF Serve

\* While a write waits that has the last word on the clock, or none waits that says
\* anything of it, serving the head leaves the clock the outbox leaves.
LEMMA ServeShows ==
  ASSUME TableInv, PhoneOK, ScreenInv, ServeWrite, RowsPast'
  PROVE  ScreenInv'
<1> DEFINE w == Head(outbox)
<1>1. /\ rows \in SUBSET Row /\ Unique(rows) /\ now \in Nat
      /\ outbox \in Seq(Writes) /\ clock \in Records \cup {None}
      /\ day \in Days
  BY DEF TableInv, SessionsTypeOK, OneRowPerClaim, Unique, PhoneOK, ScreenOK, OutboxOK
<1>2. Spoken /\ WireTells /\ LogShown /\ ClockShown /\ RowsPast /\ ScreenPast
  BY DEF ScreenInv
<1>3. /\ wire # None /\ wire.at = "sent" /\ wire.kind = "write" /\ Serve(wire.req)
      /\ wire' = [at |-> "answered", kind |-> "write", fresh |-> TRUE, answer |-> Accepts(wire.req)]
      /\ UNCHANGED <<day, clock, log, undo, doing, outbox, loads, synced>>
  BY DEF ServeWrite, OnWire, screenVars
<1>4. wire.req \in Sent /\ outbox # <<>>
  BY <1>3 DEF PhoneOK, WireOK, Reads
<1>5. wire.req = Sample(w)
  BY <1>2, <1>3 DEF WireTells
<1>6. now' = now /\ IF Accepts(wire.req) THEN rows' = Served(rows, Sample(w)) ELSE rows' = rows
  BY <1>3, <1>4, <1>5, ServedOrNot
<1>7. w \in Writes /\ w = outbox[1] /\ 1 \in DOMAIN outbox /\ PlainSpoken(w)
  BY <1>1, <1>2, <1>4 DEF Spoken
<1>8. Leaves(rows, w, Served(rows, Sample(w)))
  BY <1>1, <1>7, WritesLeave
<1>9. Spoken' /\ ScreenPast'
  BY <1>2, <1>3, <1>6 DEF Spoken, PlainSpoken, Times, ScreenPast
<1>10. CASE ~Accepts(wire.req)
  <2>1. rows' = rows /\ ~wire'.answer
    BY <1>3, <1>6, <1>10
  <2>2. WireTells'
    BY <1>3, <2>1 DEF WireTells, Reads
  <2>3. LogShown'
    BY <1>2, <1>3, <2>1 DEF LogShown, OnScreen, ShownLog, HeldLog
  <2>4. ClockShown'
    BY <1>2, <1>3, <1>6, <2>1 DEF ClockShown
  <2> QED
    BY <1>9, <2>2, <2>3, <2>4 DEF ScreenInv
<1>11. CASE Accepts(wire.req)
  <2>1. Leaves(rows, w, rows')
    BY <1>6, <1>8, <1>11
  <2>2. LogShown'
    <3> SUFFICES ASSUME "log" \in synced, NEW t \in Tasks
                 PROVE  LogSays(outbox, rows', day, t, OnScreen(t))
      BY <1>3 DEF LogShown, OnScreen, ShownLog, HeldLog
    <3>1. LogSays(outbox, rows, day, t, OnScreen(t))
      BY <1>2 DEF LogShown
    <3>2. BlockNotes(outbox, day, t) = {} => ~NotesBlock(w, day, t)
      BY <1>7 DEF BlockNotes
    <3>3. BlockNotes(outbox, day, t) = {} => Booked(rows', day, t) = Booked(rows, day, t)
      BY <1>1, <2>1, <3>2 DEF Leaves
    <3> QED
      BY <3>1, <3>3 DEF LogSays
  <2>3. ClockShown'
    <3> SUFFICES ASSUME "clock" \in synced, clock # None
                 PROVE  ClockSays(outbox, rows', clock, now)
      BY <1>3, <1>6 DEF ClockShown
    <3>1. ClockSays(outbox, rows, clock, now)
      BY <1>2 DEF ClockShown
    <3>2. ASSUME ClockNotes(outbox) = {} PROVE SameAt(clock, GetClock(rows'), now)
      <4>1. SameAt(clock, GetClock(rows), now) /\ ~NotesClock(w) /\ ~Stops(w, clock)
        BY <1>7, <3>1, <3>2 DEF ClockSays, ClockNotes
      <4>2. ~Stops(w, GetClock(rows))
        BY <4>1 DEF SameAt, Stops, Names
      <4>3. GetClock(rows') = GetClock(rows)
        BY <2>1, <4>1, <4>2 DEF Leaves
      <4> QED
        BY <4>1, <4>3
    <3> QED
      BY <3>1, <3>2 DEF ClockSays
  <2>4. TookIt(w, rows', synced, now)
    <3>1. ASSUME HookOf(w) = "log" PROVE Booked(rows', w.day, w.task) = Books(w)
      <4>1. w \in Plain /\ w.op \in {"finish", "remove"}
        BY <1>7, <3>1 DEF HookOf, Writes, Plain
      <4>2. w.day \in Days /\ w.task \in Tasks /\ NotesBlock(w, w.day, w.task)
        BY <4>1 DEF Plain, NotesBlock
      <4> QED
        BY <2>1, <4>2 DEF Leaves
    <3>2. Times(w) => SameAt(w.record, GetClock(rows'), now)
      BY <2>1, SameNow DEF Leaves
    <3> QED
      BY <3>1, <3>2 DEF TookIt
  <2>5. WireTells'
    BY <1>3, <1>6, <2>4 DEF WireTells, Reads
  <2> QED
    BY <1>9, <2>2, <2>3, <2>5 DEF ScreenInv
<1> QED
  BY <1>10, <1>11

\* The answer takes the head out: the table has what it says, or the page will
\* read the table anew.
LEMMA AnswerShows ==
  ASSUME TableInv, PhoneOK, ScreenInv, WriteAnswered
  PROVE  ScreenInv'
<1> DEFINE w == Head(outbox)
           refused == IF wire.answer \/ (HookOf(w) = "log" /\ w.day # day) THEN {} ELSE {HookOf(w)}
<1>1. /\ rows \in SUBSET Row /\ Unique(rows) /\ now \in Nat
      /\ outbox \in Seq(Writes) /\ clock \in Records \cup {None}
      /\ day \in Days
  BY DEF TableInv, SessionsTypeOK, OneRowPerClaim, Unique, PhoneOK, ScreenOK, OutboxOK
<1>2. Spoken /\ WireTells /\ LogShown /\ ClockShown /\ RowsPast /\ ScreenPast
  BY DEF ScreenInv
<1>3. /\ wire # None /\ wire.at = "answered" /\ wire.kind = "write"
      /\ wire' = None /\ outbox' = Tail(outbox) /\ synced' = synced \ refused
      /\ UNCHANGED <<rows, tasks, now, day, clock, log, undo, doing>>
  BY DEF WriteAnswered, OnWire, sessionVars, screenVars
<1>4. outbox # <<>>
  BY <1>3 DEF PhoneOK, WireOK
<1>5. w \in Writes /\ w = outbox[1] /\ 1 \in DOMAIN outbox
  BY <1>1, <1>4
<1>6. wire.answer => TookIt(w, rows, synced, now)
  BY <1>2, <1>3 DEF WireTells
<1>7. Spoken'
  <2>1. \A i \in DOMAIN Tail(outbox) : i + 1 \in DOMAIN outbox /\ Tail(outbox)[i] = outbox[i + 1]
    BY <1>1, <1>4, TailShifts
  <2> QED
    BY <1>2, <1>3, <2>1 DEF Spoken, PlainSpoken, Times
<1>8. WireTells' /\ RowsPast' /\ ScreenPast'
  BY <1>2, <1>3 DEF WireTells, RowsPast, ScreenPast
<1>9. LogShown'
  <2> SUFFICES ASSUME "log" \in synced', NEW t \in Tasks
               PROVE  LogSays(Tail(outbox), rows, day, t, OnScreen(t))
    BY <1>3 DEF LogShown, OnScreen, ShownLog, HeldLog
  <2>1. "log" \in synced /\ "log" \notin refused
    BY <1>3
  <2>2. LogSays(outbox, rows, day, t, OnScreen(t))
    BY <1>2, <2>1 DEF LogShown
  <2>3. ASSUME NotesBlock(w, day, t) PROVE Booked(rows, day, t) = Books(w)
    <3>1. HookOf(w) = "log" /\ w.day = day /\ w.task = t
      BY <2>3 DEF NotesBlock, HookOf
    <3>2. wire.answer
      BY <2>1, <3>1
    <3> QED
      BY <1>6, <2>1, <3>1, <3>2 DEF TookIt
  <2> QED
    BY <1>1, <1>4, <2>2, <2>3, TailKeepsLog
<1>10. ClockShown'
  <2> SUFFICES ASSUME "clock" \in synced', clock # None
               PROVE  ClockSays(Tail(outbox), rows, clock, now)
    BY <1>3 DEF ClockShown
  <2>1. "clock" \in synced /\ "clock" \notin refused
    BY <1>3
  <2>2. ClockSays(outbox, rows, clock, now)
    BY <1>2, <2>1 DEF ClockShown
  <2>3. ASSUME Times(w), w.record = clock PROVE SameAt(clock, GetClock(rows), now)
    <3>1. HookOf(w) = "clock"
      BY <2>3 DEF Times, HookOf
    <3>2. wire.answer
      BY <2>1, <3>1
    <3> QED
      BY <1>6, <2>1, <2>3, <3>2 DEF TookIt
  <2> QED
    BY <1>1, <1>4, <2>2, <2>3, TailKeepsClock
<1> QED
  BY <1>7, <1>8, <1>9, <1>10 DEF ScreenInv

\* A read that nothing overtook shows the table, and no write of its kind waits.
LEMMA ReadShows ==
  ASSUME TableInv, PhoneOK, ScreenInv, NEW kind \in Reads, ReadAnswered(kind)
  PROVE  ScreenInv'
<1> DEFINE c == IF kind = "log" THEN LogOf(wire.req) ELSE GetClock(rows)
           paint == wire.fresh /\ (kind = "log" => wire.req = day)
<1>1. /\ rows \in SUBSET Row /\ Unique(rows) /\ now \in Nat /\ None \notin Nat
      /\ outbox \in Seq(Writes) /\ clock \in Records \cup {None}
      /\ day \in Days /\ synced \subseteq Reads
  BY SessionsAssumption
     DEF TableInv, SessionsTypeOK, OneRowPerClaim, Unique, PhoneOK, ScreenOK, OutboxOK, SyncOK
<1>2. Spoken /\ WireTells /\ LogShown /\ ClockShown /\ RowsPast /\ ScreenPast
  BY DEF ScreenInv
<1>3. /\ wire # None /\ wire.kind = kind /\ wire' = None
      /\ UNCHANGED <<rows, tasks, now, day, undo, doing, outbox, loads>>
      /\ clock' = CASE ~paint \/ kind = "log" -> clock
                    [] c = None               -> None
                    [] OTHER -> Record(c.day, c.task, IF c.leg = None THEN None ELSE now,
                                       ElapsedMs(c, now))
      /\ IF paint /\ kind = "log" THEN log' = [day |-> day, blocks |-> c] ELSE log' = log
      /\ synced' = IF ~paint THEN synced
                   ELSE IF kind = "clock" /\ \E i \in DOMAIN outbox : outbox[i].op = "finish"
                   THEN synced \ {kind} ELSE synced \cup {kind}
  BY DEF ReadAnswered, OnWire, SetLog, sessionVars
<1>4. Spoken' /\ WireTells' /\ RowsPast'
  BY <1>2, <1>3 DEF Spoken, PlainSpoken, Times, WireTells, RowsPast
<1>5. kind = "log" \/ kind = "clock"
  BY DEF Reads
<1>6. paint => \A i \in DOMAIN outbox : HookOf(outbox[i]) # kind
  BY <1>2, <1>3 DEF WireTells
<1>7. ScreenPast'
  <2>1. ASSUME clock' # None, clock' # clock PROVE Past(clock'.since, now)
    <3>1. clock' = Record(c.day, c.task, IF c.leg = None THEN None ELSE now, ElapsedMs(c, now))
      BY <1>3, <2>1
    <3> QED
      BY <1>1, <3>1 DEF Record, Past
  <2> QED
    BY <1>2, <1>3, <2>1 DEF ScreenPast
<1>8. LogShown'
  <2> SUFFICES ASSUME "log" \in synced', NEW t \in Tasks
               PROVE  LogSays(outbox, rows, day, t, OnScreen(t)')
    BY <1>3 DEF LogShown
  <2>1. CASE paint /\ kind = "log"
    <3>1. ShownLog' = LogOf(day)
      BY <1>3, <2>1 DEF ShownLog, HeldLog
    <3>2. OnScreen(t)' = Booked(rows, day, t)
      <4> DEFINE L == {b.minutes : b \in {b \in LogOf(day) : b.task = t}}
      <4>1. OnScreen(t)' = L
        BY <3>1 DEF OnScreen
      <4>2. ASSUME NEW r \in LiveBlock(rows, day, t) PROVE r.minutes \in L
        <5> DEFINE b == [task |-> r.task, minutes |-> r.minutes]
        <5>1. b \in LogOf(day) /\ b.task = t /\ b.minutes = r.minutes
          BY <4>2 DEF LogOf, LiveBlock, Names
        <5> HIDE DEF b
        <5> QED
          BY <5>1
      <4>3. ASSUME NEW b \in LogOf(day), b.task = t PROVE b.minutes \in Booked(rows, day, t)
        <5>1. PICK r \in rows : ~IsClock(r) /\ r.day = day /\ b = [task |-> r.task, minutes |-> r.minutes]
          BY <4>3 DEF LogOf
        <5> QED
          BY <4>3, <5>1 DEF Booked, LiveBlock, Names
      <4>4. L = Booked(rows, day, t)
        BY <4>2, <4>3 DEF Booked
      <4> QED
        BY <4>1, <4>4
    <3>3. BlockNotes(outbox, day, t) = {}
      BY <1>6, <2>1 DEF BlockNotes, NotesBlock, HookOf
    <3> QED
      BY <3>2, <3>3 DEF LogSays, IsLast
  <2>2. CASE ~(paint /\ kind = "log")
    <3>1. "log" \in synced /\ log' = log
      BY <1>3, <1>5, <2>2
    <3>2. OnScreen(t)' = OnScreen(t)
      BY <1>3, <3>1 DEF OnScreen, ShownLog, HeldLog
    <3> QED
      BY <1>2, <3>1, <3>2 DEF LogShown
  <2> QED
    BY <2>1, <2>2
<1>9. ClockShown'
  <2> SUFFICES ASSUME "clock" \in synced', clock' # None
               PROVE  ClockSays(outbox, rows, clock', now)
    BY <1>3 DEF ClockShown
  <2>1. CASE paint /\ kind = "clock"
    <3> DEFINE r == GetClock(rows)
    <3>1. \A i \in DOMAIN outbox : outbox[i].op # "finish"
      BY <1>3, <2>1
    <3>2. c = r /\ r # None
      BY <1>3, <2>1
    <3>3. clock' = Record(r.day, r.task, IF r.leg = None THEN None ELSE now, ElapsedMs(r, now))
      BY <1>3, <2>1, <3>2
    <3>4. r \in Row
      BY <1>1, <3>2, GetClockFinds
    <3>5. ElapsedMs(r, now) \in Nat /\ r.leg \in Nat \cup {None}
      BY <1>1, <3>4 DEF ElapsedMs, Row
    <3>6. clock'.day = r.day /\ clock'.task = r.task /\ clock'.banked = ElapsedMs(r, now)
          /\ clock'.since = IF r.leg = None THEN None ELSE now
      BY <3>3 DEF Record
    <3> HIDE DEF r
    <3>7. ElapsedMs([leg |-> clock'.since, banked |-> clock'.banked], now) = ElapsedMs(r, now)
      <4> DEFINE e == ElapsedMs(r, now)
      <4>1. e \in Nat /\ clock'.banked = e
        BY <3>5, <3>6
      <4> HIDE DEF e
      <4>2. ElapsedMs([leg |-> clock'.since, banked |-> clock'.banked], now) = e
        BY <1>1, <3>6, <4>1 DEF ElapsedMs
      <4> QED
        BY <4>2 DEF e
    <3>8. SameAt(clock', r, now)
      BY <1>1, <3>2, <3>5, <3>6, <3>7 DEF SameAt, Names
    <3>9. ClockNotes(outbox) = {}
      <4> SUFFICES ASSUME NEW i \in DOMAIN outbox, NotesClock(outbox[i]) PROVE FALSE
        BY DEF ClockNotes
      <4> QED
        BY <1>6, <2>1 DEF NotesClock, HookOf
    <3> QED
      BY <3>1, <3>8, <3>9 DEF ClockSays, IsLast, Stops, r
  <2>2. CASE ~(paint /\ kind = "clock")
    <3>1. "clock" \in synced /\ clock' = clock
      BY <1>3, <1>5, <2>2
    <3> QED
      BY <1>2, <3>1 DEF ClockShown
  <2> QED
    BY <2>1, <2>2
<1> QED
  BY <1>4, <1>7, <1>8, <1>9 DEF ScreenInv

LEMMA WorldShows ==
  ASSUME TableInv, PhoneOK, ScreenInv, RowsPast',
         \/ \E t \in Tasks : Elsewhere(t)
         \/ TimePasses \/ UNCHANGED vars
  PROVE  ScreenInv'
<1>1. /\ rows \in SUBSET Row /\ Unique(rows) /\ now \in Nat
      /\ clock \in Records \cup {None} /\ synced \subseteq Reads
  BY DEF TableInv, SessionsTypeOK, OneRowPerClaim, Unique, PhoneOK, ScreenOK, SyncOK
<1>2. Spoken /\ WireTells /\ LogShown /\ ClockShown /\ RowsPast /\ ScreenPast
  BY DEF ScreenInv
<1>3. UNCHANGED <<day, clock, log, undo, doing, outbox, wire>>
  BY DEF Elsewhere, TimePasses, vars, screenVars, queueVars
<1>4. Spoken'
  BY <1>2, <1>3 DEF Spoken, PlainSpoken, Times
<1>5. \A t \in Tasks : OnScreen(t)' = OnScreen(t)
  BY <1>3 DEF OnScreen, ShownLog, HeldLog
<1>6. CASE now' = now /\ ((rows' = rows /\ synced' = synced) \/ synced' = {})
  <2>1. ScreenPast'
    BY <1>2, <1>3, <1>6 DEF ScreenPast
  <2>2. LogShown'
    BY <1>2, <1>3, <1>5, <1>6 DEF LogShown
  <2>3. ClockShown'
    BY <1>2, <1>3, <1>6 DEF ClockShown
  <2>4. Sample(Head(outbox))' = Sample(Head(outbox))
    BY <1>3, <1>6 DEF Sample, Elapsed, ElapsedMs
  <2>5. TookIt(Head(outbox), rows, synced, now) => TookIt(Head(outbox), rows', synced', now)
    BY <1>6 DEF TookIt
  <2>6. WireTells'
    BY <1>2, <1>3, <1>6, <2>4, <2>5 DEF WireTells
  <2> QED
    BY <1>4, <2>1, <2>2, <2>3, <2>6 DEF ScreenInv
<1>7. CASE TimePasses
  <2>1. now' = now + 1 /\ rows' = rows /\ synced' = synced /\ wire = None
    BY <1>7 DEF TimePasses, Tick
  <2>2. ScreenPast'
    <3>1. \A s \in Nat \cup {None} : Past(s, now) => Past(s, now + 1)
      BY <1>1, SessionsAssumption DEF Past
    <3>2. clock # None => clock.since \in Nat \cup {None}
      BY <1>1 DEF Records
    <3>3. undo # None /\ undo.snapshot # None => undo.snapshot.since \in Nat \cup {None}
      BY DEF PhoneOK, ScreenOK, Taps, Records
    <3>4. doing # None /\ doing.snapshot # None => doing.snapshot.since \in Nat \cup {None}
      BY DEF PhoneOK, ScreenOK, Taps, Records
    <3> QED
      BY <1>2, <1>3, <2>1, <3>1, <3>2, <3>3, <3>4 DEF ScreenPast
  <2>3. LogShown'
    BY <1>2, <1>3, <1>5, <2>1 DEF LogShown
  <2>4. ClockShown'
    <3> SUFFICES ASSUME "clock" \in synced, clock # None
                 PROVE  ClockSays(outbox, rows, clock, now + 1)
      BY <1>3, <2>1 DEF ClockShown
    <3>1. ClockSays(outbox, rows, clock, now)
      BY <1>2 DEF ClockShown
    <3>2. ASSUME SameAt(clock, GetClock(rows), now) PROVE SameAt(clock, GetClock(rows), now + 1)
      <4>1. GetClock(rows) \in rows /\ GetClock(rows) \in Row
        BY <1>1, <3>2, GetClockFinds DEF SameAt
      <4>2. Past(clock.since, now) /\ Past(GetClock(rows).leg, now) /\ clock \in Records
        BY <1>1, <1>2, <4>1 DEF RowsPast, ScreenPast
      <4> QED
        BY <1>1, <3>2, <4>1, <4>2, TimeKeeps
    <3> QED
      BY <3>1, <3>2 DEF ClockSays
  <2>5. WireTells'
    BY <1>3, <2>1 DEF WireTells
  <2> QED
    BY <1>4, <2>2, <2>3, <2>4, <2>5 DEF ScreenInv
<1>8. ASSUME \E t \in Tasks : Elsewhere(t)
      PROVE  now' = now /\ ((rows' = rows /\ synced' = synced) \/ synced' = {})
  <2>1. now' = now
    BY <1>8 DEF Elsewhere, PutClock, PutBlock, DeleteClock, DeleteBlock, TrashTask, RestoreTask, PurgeTask
  <2>2. synced' = IF rows' = rows THEN synced ELSE {}
    BY <1>8 DEF Elsewhere
  <2> QED
    BY <2>1, <2>2
<1>9. UNCHANGED vars => now' = now /\ rows' = rows /\ synced' = synced
  BY DEF vars, sessionVars
<1> QED
  BY <1>6, <1>7, <1>8, <1>9

\* What neither writes nor paints: the page is turned, loaded anew or looked at
\* again, a request leaves or is lost.
LEMMA QuietShows ==
  ASSUME TableInv, PhoneOK, ScreenInv,
         \/ Reload \/ Visible
         \/ \E d \in Days : TurnTo(d)
         \/ SendHead \/ SendRead \/ NoAnswer
  PROVE  ScreenInv'
<1>1. Spoken /\ WireTells /\ LogShown /\ ClockShown /\ RowsPast /\ ScreenPast
  BY DEF ScreenInv
<1>2. UNCHANGED <<rows, now>>
  BY DEF Reload, Visible, TurnTo, SendHead, SendRead, NoAnswer, Act, sessionVars
<1>3. RowsPast'
  BY <1>1, <1>2 DEF RowsPast
<1>4. CASE Reload
  <2>1. clock' = None /\ undo' = None /\ doing' = None /\ outbox' = <<>> /\ wire' = None /\ synced' = {}
    BY <1>4 DEF Reload
  <2> QED
    BY <1>3, <2>1 DEF ScreenInv, Spoken, LogShown, ClockShown, WireTells, ScreenPast
<1>5. CASE \E d \in Days : TurnTo(d)
  <2>1. UNCHANGED <<clock, log, undo, doing, outbox, wire>> /\ synced' = synced \ {"log"}
    BY <1>5 DEF TurnTo
  <2>2. Spoken' /\ ScreenPast'
    BY <1>1, <1>2, <2>1 DEF Spoken, PlainSpoken, Times, ScreenPast
  <2>3. LogShown' /\ ClockShown'
    BY <1>1, <1>2, <2>1 DEF LogShown, ClockShown
  <2>4. Sample(Head(outbox))' = Sample(Head(outbox))
    BY <1>2, <2>1 DEF Sample, Elapsed, ElapsedMs
  <2>5. TookIt(Head(outbox), rows, synced, now) => TookIt(Head(outbox), rows, synced', now)
    BY <2>1 DEF TookIt
  <2>6. WireTells'
    BY <1>1, <1>2, <2>1, <2>4, <2>5 DEF WireTells
  <2> QED
    BY <1>3, <2>2, <2>3, <2>6 DEF ScreenInv
<1>6. CASE Visible \/ SendHead \/ SendRead \/ NoAnswer
  <2>1. UNCHANGED <<day, clock, log, undo, doing, outbox, synced>>
    BY <1>6 DEF Visible, SendHead, SendRead, NoAnswer, screenVars
  <2>2. Spoken' /\ ScreenPast' /\ LogShown' /\ ClockShown'
    BY <1>1, <1>2, <2>1
       DEF Spoken, PlainSpoken, Times, ScreenPast, LogShown, OnScreen, ShownLog, HeldLog, ClockShown
  <2>3. Sample(Head(outbox))' = Sample(Head(outbox))
    BY <1>2, <2>1 DEF Sample, Elapsed, ElapsedMs
  <2>4. ASSUME Visible PROVE WireTells'
    <3>1. wire' = wire
      BY <2>4 DEF Visible
    <3> QED
      BY <1>1, <1>2, <2>1, <2>3, <3>1 DEF WireTells
  <2>5. ASSUME NoAnswer PROVE WireTells'
    BY <2>5 DEF NoAnswer, WireTells
  <2>6. ASSUME SendHead PROVE WireTells'
    BY <2>1, <2>3, <2>6 DEF SendHead, Request, WireTells, Reads
  <2>7. ASSUME SendRead PROVE WireTells'
    <3>1. /\ outbox = <<>> /\ Head(loads) \in Reads
          /\ wire' = [at |-> "sent", kind |-> Head(loads), req |-> day, fresh |-> TRUE]
      BY <2>7 DEF SendRead, Request, PhoneOK, LoadsOK
    <3> QED
      BY <2>1, <3>1 DEF WireTells, Reads
  <2>8. WireTells'
    BY <1>6, <2>4, <2>5, <2>6, <2>7
  <2> QED
    BY <1>3, <2>2, <2>8 DEF ScreenInv
<1> QED
  BY <1>4, <1>5, <1>6

LEMMA ScreenStep ==
  TableInv /\ PhoneTypeOK /\ ScreenInv /\ [Next]_vars => ScreenInv'
<1> SUFFICES ASSUME TableInv, PhoneTypeOK, ScreenInv, [Next]_vars PROVE ScreenInv'
  OBVIOUS
<1>1. PhoneOK /\ PhoneTypeOK'
  BY PhoneStep, PhoneTypeParts DEF PhoneOK
<1>2. PhoneOK'
  BY <1>1 DEF PhoneTypeOK, PhoneOK, ScreenOK, SyncOK, LoadsOK, OutboxOK, WireOK
<1>3. RowsPast'
  BY PhoneStepsTheTable, RowsStayPast DEF ScreenInv
<1>4. CASE \/ \E t \in Tasks : StartClock(t) \/ PauseClock(t) \/ Reopen(t)
           \/ \E t \in Tasks, cur \in Tasks : MarkDone(cur, t) \/ Defer(cur, t)
           \/ Undo \/ TaskAnswers
  BY <1>1, <1>2, <1>4, UserShows
<1>5. CASE ServeWrite
  BY <1>1, <1>3, <1>5, ServeShows
<1>6. CASE WriteAnswered
  BY <1>1, <1>6, AnswerShows
<1>7. CASE \E kind \in Reads : ReadAnswered(kind)
  BY <1>1, <1>7, ReadShows
<1>8. CASE (\E t \in Tasks : Elsewhere(t)) \/ TimePasses \/ UNCHANGED vars
  BY <1>1, <1>3, <1>8, WorldShows
<1>9. CASE Reload \/ Visible \/ (\E d \in Days : TurnTo(d)) \/ SendHead \/ SendRead \/ NoAnswer
  BY <1>1, <1>9, QuietShows
<1> QED
  BY <1>4, <1>5, <1>6, <1>7, <1>8, <1>9 DEF Next

LEMMA ScreenShows == TableInv /\ PhoneTypeOK /\ ScreenInv => ScreenIsServed
<1> SUFFICES ASSUME TableInv, PhoneTypeOK, ScreenInv PROVE ScreenIsServed
  OBVIOUS
<1>1. /\ rows \in Tables /\ now \in Nat /\ OutboxOK /\ Spoken /\ day \in Days
      /\ clock \in Records \cup {None} /\ ShownLog \in SUBSET [task : Tasks, minutes : Nat]
  BY PhoneTypeParts, ShownIsRecord
     DEF TableInv, SessionsTypeOK, OneRowPerClaim, Unique, Tables, ScreenInv, ScreenOK
<1>2. /\ Through \in SUBSET Row
      /\ \A d \in Days, t \in Tasks : \A shown :
           LogSays(outbox, rows, d, t, shown) => Booked(Through, d, t) = shown
      /\ \A c \in Records : ClockSays(outbox, rows, c, now) => SameClock(c, GetClock(Through))
  BY <1>1, ThroughSays DEF Tables
<1> DEFINE kept == {[task |-> r.task, minutes |-> r.minutes] :
                      r \in {r \in Through : ~IsClock(r) /\ r.day = day}}
<1>3. ASSUME "log" \in synced PROVE ShownLog = kept
  <2>1. \A t \in Tasks : OnScreen(t) = Booked(Through, day, t)
    BY <1>1, <1>2, <1>3 DEF ScreenInv, LogShown
  <2>2. ASSUME NEW b \in ShownLog PROVE b \in kept
    <3>1. b.task \in Tasks /\ b = [task |-> b.task, minutes |-> b.minutes]
      BY <1>1
    <3>2. b.minutes \in Booked(Through, day, b.task)
      BY <2>1, <3>1 DEF OnScreen
    <3>3. PICK r \in LiveBlock(Through, day, b.task) : r.minutes = b.minutes
      BY <3>2 DEF Booked
    <3>4. r \in Through /\ ~IsClock(r) /\ r.day = day /\ r.task = b.task
      BY <3>3 DEF LiveBlock, Names
    <3> QED
      BY <3>1, <3>3, <3>4
  <2>3. ASSUME NEW r \in Through, ~IsClock(r), r.day = day
        PROVE  [task |-> r.task, minutes |-> r.minutes] \in ShownLog
    <3>1. r.task \in Tasks
      BY <1>2 DEF Row
    <3>2. r.minutes \in Booked(Through, day, r.task)
      BY <2>3 DEF Booked, LiveBlock, Names
    <3>3. PICK b \in ShownLog : b.task = r.task /\ b.minutes = r.minutes
      BY <2>1, <3>1, <3>2 DEF OnScreen
    <3>4. b = [task |-> b.task, minutes |-> b.minutes]
      BY <1>1
    <3> QED
      BY <3>3, <3>4
  <2> QED
    BY <2>2, <2>3
<1>4. ASSUME "clock" \in synced, clock # None PROVE SameClock(clock, GetClock(Through))
  BY <1>1, <1>2, <1>4 DEF ScreenInv, ClockShown
<1> QED
  BY <1>3, <1>4 DEF ScreenIsServed

LEMMA ScreenInit == Init => ScreenInv
BY DEF Init, SessionsInit, ScreenInv, Spoken, LogShown, ClockShown, WireTells, RowsPast, ScreenPast

\* What the page shows is what the table will hold once the outbox is through: the
\* optimistic screen, the one queue and the versions of the reads, in whatever
\* order requests, answers, losses, reloads and other devices come.
THEOREM ScreenAgrees == Spec => []ScreenIsServed
<1>1. Init => TableInv /\ PhoneTypeOK /\ ScreenInv
  BY PhoneInit, ScreenInit
<1>2. /\ TableInv /\ PhoneTypeOK /\ ScreenInv /\ [Next]_vars
      => (TableInv /\ PhoneTypeOK /\ ScreenInv)'
  BY PhoneStep, ScreenStep
<1>3. Spec => [](TableInv /\ PhoneTypeOK /\ ScreenInv)
  BY <1>1, <1>2, PTL DEF Spec
<1> QED
  BY <1>3, ScreenShows, PTL
=============================================================================
