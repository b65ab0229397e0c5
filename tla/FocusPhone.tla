----------------------------- MODULE FocusPhone -----------------------------
(* A phone on the Focus page, the outbox of writes it has not got through yet *)
(* and the one request of its queue that is on the network. A request may be  *)
(* lost, its answer may be lost, the page may be reloaded, and other devices   *)
(* write the same table. Phones meet in the table only: one stands for each.   *)
EXTENDS FocusSessions, Sequences, SequencesExt

CONSTANTS Planned,  \* the minutes an untimed block is booked at
          MaxActs,  \* bound: what the users do in all
          MaxNow    \* bound: how long the day is

ASSUME PhoneAssumption ==
  Planned \in Nat /\ MaxActs \in Nat /\ MaxNow \in Nat

VARIABLES day,      \* the day the page is on
          clock,    \* the clock record the page holds, or None
          log,      \* the finished blocks it holds, and of which day
          undo,     \* what its undo bar would take back, or None
          doing,    \* the tap whose task route has not answered yet, or None
          outbox,   \* the writes not delivered yet, oldest first
          wire,     \* the request on the network, or None
          loads,    \* the reads queued behind the outbox, oldest first
          synced,   \* history: what the page has read with nobody else writing since
          acts      \* bound: what the users have done

screenVars == <<day, clock, log, undo, doing>>
queueVars == <<outbox, wire, loads>>
vars == <<sessionVars, screenVars, queueVars, synced, acts>>

Reads == {"clock", "log"}
\* A read that waits already will do.
Wait(kinds, k) == IF k \in kinds /\ k \notin ToSet(loads) THEN <<k>> ELSE <<>>
Load(kinds) == loads \o Wait(kinds, "clock") \o Wait(kinds, "log")
\* At most one kind is left where any is dropped.
Drop(kinds) == LET left == ToSet(loads) \ kinds
               IN  IF left = {} THEN <<>> ELSE <<CHOOSE k \in left : TRUE>>

\* The elapsed time of a record the page holds, by the page's own clock.
Elapsed(c) == ElapsedMs([leg |-> c.since, banked |-> c.banked], now)
Record(d, t, since, banked) == [day |-> d, task |-> t, since |-> since, banked |-> banked]

\* The record applies to the block on screen only.
Shown(t) == IF clock # None /\ Names(clock, day, t) THEN clock ELSE None
\* The log belongs to its day: another day's page starts empty.
HeldLog(d) == IF log.day = d THEN log.blocks ELSE {}
ShownLog == HeldLog(day)
LogOf(d) == {[task |-> r.task, minutes |-> r.minutes] : r \in {r \in rows : ~IsClock(r) /\ r.day = d}}

-----------------------------------------------------------------------------
(* Requests. A running record goes out as the time it holds when it leaves.   *)

Run(c) == [op |-> "run", record |-> c]
Pause(c) == [op |-> "pause", record |-> c]
Clear(d, t) == [op |-> "clear", day |-> d, task |-> t]
Finish(d, t, m) == [op |-> "finish", day |-> d, task |-> t, minutes |-> m]
TakeOut(d, t) == [op |-> "remove", day |-> d, task |-> t]

Sample(w) ==
  IF w.op \in {"run", "pause"}
  THEN [op |-> "put", day |-> w.record.day, task |-> w.record.task,
        running |-> w.op = "run", ms |-> Elapsed(w.record)]
  ELSE w

Accepts(q) ==
  CASE q.op = "put"    -> Active(q.task) /\ q.ms <= MaxMs
    [] q.op = "finish" -> Active(q.task) /\ q.minutes <= MaxMinutes
    [] OTHER           -> TRUE

\* The state a write belongs to, which re-reads the server when it is refused.
HookOf(w) == IF w.op \in {"finish", "remove"} THEN "log" ELSE "clock"

\* A route serves q: one transaction of the table, or a refusal.
Serve(q) ==
  \/ ~Accepts(q) /\ UNCHANGED sessionVars
  \/ q.op = "put" /\ PutClock(q.day, q.task, q.running, q.ms)
  \/ q.op = "clear" /\ DeleteClock(q.day, q.task)
  \/ q.op = "finish" /\ PutBlock(q.day, q.task, q.minutes)
  \/ q.op = "remove" /\ DeleteBlock(q.day, q.task)

-----------------------------------------------------------------------------
(* The user. A change is on screen at once; its write goes to the outbox, and *)
(* a read of the same state that is queued or on its way is out of date. The  *)
(* plan decides which block is current: any, as far as the clock goes.        *)

Act ==
  /\ acts < MaxActs
  /\ acts' = acts + 1
  /\ UNCHANGED sessionVars

\* Mutant of Send: a read on its way is not known to be overtaken.
SendUnversioned(writes) ==
  /\ outbox' = outbox \o writes
  /\ loads' = Drop({HookOf(writes[i]) : i \in DOMAIN writes})
  /\ UNCHANGED wire

Send(writes) ==
  LET hooks == {HookOf(writes[i]) : i \in DOMAIN writes}
  IN  /\ outbox' = outbox \o writes
      /\ loads' = Drop(hooks)
      /\ wire' = IF wire # None /\ wire.kind \in hooks THEN [wire EXCEPT !.fresh = FALSE] ELSE wire

SetLog(d, blocks) == log' = [day |-> d, blocks |-> blocks]
Without(blocks, t) == {b \in blocks : b.task # t}

StartClock(t) ==
  /\ Act
  /\ LET own == Shown(t)
         c == Record(day, t, now, IF own = None THEN 0 ELSE Elapsed(own))
     IN  clock' = c /\ Send(<<Run(c)>>)
  /\ UNCHANGED <<day, log, undo, doing, synced>>

PauseClock(t) ==
  /\ Act
  /\ Shown(t) # None /\ clock.since # None
  /\ LET c == Record(day, t, None, Elapsed(clock)) IN clock' = c /\ Send(<<Pause(c)>>)
  /\ UNCHANGED <<day, log, undo, doing, synced>>

\* A tap on block t while cur is current: one at a time, and what it goes by, the day
\* and the clock, is what the page shows at the tap.
Tap(op, cur, t, minutes, snapshot) ==
  /\ Act
  /\ doing = None
  /\ doing' = [op |-> op, day |-> day, task |-> t, cur |-> cur, minutes |-> minutes,
                snapshot |-> snapshot]
  /\ UNCHANGED <<day, clock, log, undo, queueVars, synced>>

\* The current block is booked as timed, another as planned.
MarkDone(cur, t) ==
  LET live == Shown(cur)
      minutes == IF t # cur \/ live = None THEN Planned
                 ELSE IF Elapsed(live) > 1 THEN Elapsed(live) ELSE 1
  IN  Tap("done", cur, t, minutes, live)

Defer(cur, t) == Tap("defer", cur, t, 0, Shown(cur))

Reopen(t) ==
  /\ \E b \in ShownLog : b.task = t
  /\ Tap("reopen", t, t, 0, None)

\* The bar goes at once; its undo is dropped when another tap waits.  It outlives a
\* turn of the page.
Undo ==
  /\ Act
  /\ undo # None
  /\ undo' = None
  /\ doing' = IF doing = None THEN undo ELSE doing
  /\ UNCHANGED <<day, clock, log, queueVars, synced>>

\* The task route has taken it; the page may have turned meanwhile.  (History: the
\* log of the tap's day is then held, and the page is without one until a read.)
TaskTakes(op) ==
  /\ doing # None /\ doing.op = op
  /\ Active(doing.task)
  /\ doing' = None
  /\ UNCHANGED <<sessionVars, day, acts>>

HeldFor(kinds) == IF doing.day = day THEN kinds ELSE kinds \ {"log"}

\* The block that is current takes its clock along.
Ends == doing.task = doing.cur
ArmUndo(op) == undo' = [doing EXCEPT !.op = op, !.minutes = 0]

\* (History: finishing a block that is timed but not current ends its clock on the
\* server only.)
DoneTaken ==
  /\ TaskTakes("done")
  /\ LET d == doing.day
         t == doing.task
     IN  /\ SetLog(d, Without(HeldLog(d), t) \cup {[task |-> t, minutes |-> doing.minutes]})
         /\ Send(<<Finish(d, t, doing.minutes)>> \o IF Ends THEN <<Clear(d, t)>> ELSE <<>>)
         /\ synced' = IF ~Ends /\ clock # None /\ Names(clock, d, t)
                      THEN HeldFor(synced) \ {"clock"} ELSE HeldFor(synced)
  /\ clock' = IF Ends THEN None ELSE clock
  /\ ArmUndo("undone")

DeferTaken ==
  /\ TaskTakes("defer")
  /\ \/ Ends /\ clock' = None /\ Send(<<Clear(doing.day, doing.task)>>)
     \/ ~Ends /\ UNCHANGED <<clock, queueVars>>
  /\ ArmUndo("undeferred")
  /\ UNCHANGED <<log, synced>>

\* The clock of the block that was current is put back, time and all; if there was
\* none, that block's clock is cleared.
RestoreClock ==
  IF doing.snapshot = None THEN Clear(doing.day, doing.cur)
  ELSE IF doing.snapshot.since = None THEN Pause(doing.snapshot)
  ELSE Run(doing.snapshot)

\* The undo of a completion reopens the task and takes the booking out.
UndoneTaken ==
  /\ TaskTakes("undone")
  /\ SetLog(doing.day, Without(HeldLog(doing.day), doing.task))
  /\ clock' = doing.snapshot
  /\ Send(<<TakeOut(doing.day, doing.task), RestoreClock>>)
  /\ synced' = HeldFor(synced)
  /\ UNCHANGED undo

UndeferredTaken ==
  /\ TaskTakes("undeferred")
  /\ clock' = doing.snapshot
  /\ Send(<<RestoreClock>>)
  /\ UNCHANGED <<log, undo, synced>>

ReopenTaken ==
  /\ TaskTakes("reopen")
  /\ SetLog(doing.day, Without(HeldLog(doing.day), doing.task))
  /\ Send(<<TakeOut(doing.day, doing.task)>>)
  /\ synced' = HeldFor(synced)
  /\ UNCHANGED <<clock, undo>>

\* The route refuses, or is not reached: the page shows why, and that is all.
TaskRefuses ==
  /\ doing # None
  /\ doing' = None
  /\ UNCHANGED <<sessionVars, day, clock, log, undo, queueVars, synced, acts>>

TaskAnswers ==
  DoneTaken \/ DeferTaken \/ UndoneTaken \/ UndeferredTaken \/ ReopenTaken \/ TaskRefuses

\* Another day's page: its log is read anew, and an answer for the old one is
\* not painted.
TurnTo(d) ==
  /\ Act /\ d # day
  /\ day' = d
  /\ loads' = Load({"log"})
  /\ synced' = synced \ {"log"}
  /\ UNCHANGED <<clock, log, undo, doing, outbox, wire>>

\* Returning to the tab re-reads both.
Visible ==
  /\ ToSet(loads) # Reads
  /\ loads' = Load(Reads)
  /\ UNCHANGED <<sessionVars, screenVars, outbox, wire, synced, acts>>

\* A reload forgets the outbox, the screen and the tap that waits.
Reload ==
  /\ Act
  /\ clock' = None /\ log' = [day |-> day, blocks |-> {}] /\ undo' = None /\ doing' = None
  /\ outbox' = <<>> /\ wire' = None /\ loads' = <<"clock", "log">>
  /\ synced' = {}
  /\ UNCHANGED day

-----------------------------------------------------------------------------
(* The queue: one request at a time, a read only behind an empty outbox.      *)

OnWire(at, kinds) == wire # None /\ wire.at = at /\ wire.kind \in kinds
Request(kind, q) == [at |-> "sent", kind |-> kind, req |-> q, fresh |-> TRUE]

SendHead ==
  /\ wire = None /\ outbox # <<>>
  /\ wire' = Request("write", Sample(Head(outbox)))
  /\ UNCHANGED <<sessionVars, screenVars, outbox, loads, synced, acts>>

SendRead ==
  /\ wire = None /\ outbox = <<>> /\ loads # <<>>
  /\ wire' = Request(Head(loads), day)
  /\ loads' = Tail(loads)
  /\ UNCHANGED <<sessionVars, screenVars, outbox, synced, acts>>

ServeWrite ==
  /\ OnWire("sent", {"write"})
  /\ Serve(wire.req)
  /\ wire' = [at |-> "answered", kind |-> "write", fresh |-> TRUE, answer |-> Accepts(wire.req)]
  /\ UNCHANGED <<screenVars, outbox, loads, synced, acts>>

\* No answer: a write stays first in the outbox for the retry; the reads that
\* wait behind it, or the read itself, keep what is shown.
NoAnswer ==
  /\ wire # None
  /\ wire' = None
  /\ loads' = IF wire.kind = "write" THEN <<>> ELSE loads
  /\ UNCHANGED <<sessionVars, screenVars, outbox, synced, acts>>

\* Mutant of WriteAnswered: a refused write stays in the outbox for a retry.
WriteRetried ==
  /\ OnWire("answered", {"write"})
  /\ outbox' = IF wire.answer THEN Tail(outbox) ELSE outbox
  /\ wire' = None
  /\ UNCHANGED <<sessionVars, screenVars, loads, synced, acts>>

\* A refused write re-reads its state; a log of a day not on screen is not painted.
WriteAnswered ==
  /\ OnWire("answered", {"write"})
  /\ LET w == Head(outbox)
         refused == IF wire.answer \/ (HookOf(w) = "log" /\ w.day # day) THEN {} ELSE {HookOf(w)}
     IN  loads' = Load(refused) /\ synced' = synced \ refused
  /\ outbox' = Tail(outbox)
  /\ wire' = None
  /\ UNCHANGED <<sessionVars, screenVars, acts>>

\* A read paints only when no local write and no turn of the day overtook it.
\* (History: a booking that waits may be about to end the clock just painted.)
ReadAnswered(kind) ==
  /\ OnWire("sent", {kind})
  /\ LET c == IF kind = "log" THEN LogOf(wire.req) ELSE GetClock(rows)
         paint == wire.fresh /\ (kind = "log" => wire.req = day)
     IN  /\ clock' = CASE ~paint \/ kind = "log" -> clock
                       [] c = None               -> None
                       [] OTHER -> Record(c.day, c.task, IF c.leg = None THEN None ELSE now,
                                          ElapsedMs(c, now))
         /\ IF paint /\ kind = "log" THEN SetLog(day, c) ELSE UNCHANGED log
         /\ synced' = IF ~paint THEN synced
                      ELSE IF kind = "clock" /\ \E i \in DOMAIN outbox : outbox[i].op = "finish"
                      THEN synced \ {kind} ELSE synced \cup {kind}
  /\ wire' = None
  /\ UNCHANGED <<sessionVars, day, undo, doing, outbox, loads, acts>>

-----------------------------------------------------------------------------
(* The rest of the world: other devices' writes and the fate of the tasks.  A  *)
(* restore counts as an act, lest a task be trashed and restored for ever.     *)
(* Time passes between requests, not within one.                              *)

Elsewhere(t) ==
  /\ \/ /\ acts < MaxActs /\ acts' = acts + 1
        /\ \/ \E d \in Days : \/ \E running \in BOOLEAN : PutClock(d, t, running, 0)
                              \/ PutBlock(d, t, Planned)
                              \/ DeleteClock(d, t)
                              \/ DeleteBlock(d, t)
           \/ RestoreTask(t)
     \/ (TrashTask(t) \/ PurgeTask(t)) /\ UNCHANGED acts
  /\ synced' = IF rows' = rows THEN synced ELSE {}
  /\ UNCHANGED <<screenVars, queueVars>>

TimePasses ==
  /\ now < MaxNow /\ wire = None
  /\ Tick
  /\ UNCHANGED <<screenVars, queueVars, synced, acts>>

Init ==
  /\ SessionsInit
  /\ day \in Days /\ clock = None /\ log = [day |-> day, blocks |-> {}] /\ undo = None /\ doing = None
  /\ outbox = <<>> /\ wire = None /\ loads = <<"clock", "log">>
  /\ synced = {} /\ acts = 0

Next ==
  \/ \E t \in Tasks : \/ StartClock(t) \/ PauseClock(t) \/ Reopen(t)
                      \/ \E cur \in Tasks : MarkDone(cur, t) \/ Defer(cur, t)
                      \/ Elsewhere(t)
  \/ Undo \/ TaskAnswers \/ Reload \/ Visible
  \/ \E d \in Days : TurnTo(d)
  \/ SendHead \/ ServeWrite \/ WriteAnswered
  \/ SendRead \/ \E kind \in Reads : ReadAnswered(kind)
  \/ NoAnswer
  \/ TimePasses

Spec == Init /\ [][Next]_vars

\* The retry timer and the browser's online event send the outbox again, the
\* user comes back to the tab, and a network that is tried again and again gets
\* a write, and a read of either kind, through and answered at some point.
Fairness ==
  /\ WF_vars(Visible) /\ WF_vars(SendHead) /\ WF_vars(SendRead)
  /\ SF_vars(ServeWrite) /\ SF_vars(WriteAnswered)
  /\ \A kind \in Reads : SF_vars(ReadAnswered(kind))

FairSpec == Spec /\ Fairness

-----------------------------------------------------------------------------

Records == [day : Days, task : Tasks, since : Nat \cup {None}, banked : Nat]

Taps == [op : {"done", "defer", "reopen", "undone", "undeferred"}, day : Days, task : Tasks,
         cur : Tasks, minutes : Nat, snapshot : Records \cup {None}]

\* What the four writes look like in the outbox and on the wire.
Plain == [op : {"clear", "remove"}, day : Days, task : Tasks]
         \cup [op : {"finish"}, day : Days, task : Tasks, minutes : Nat]
Writes == Plain \cup [op : {"run", "pause"}, record : Records]
Sent == Plain \cup [op : {"put"}, day : Days, task : Tasks, running : BOOLEAN, ms : Nat]

PhoneTypeOK ==
  /\ SessionsTypeOK
  /\ day \in Days
  /\ clock \in Records \cup {None}
  /\ log.day \in Days /\ log.blocks \in SUBSET [task : Tasks, minutes : Nat]
  /\ undo \in Taps \cup {None} /\ doing \in Taps \cup {None}
  /\ outbox \in Seq(Writes)
  /\ wire \in {None} \cup [at : {"sent"}, kind : {"write"}, req : Sent, fresh : BOOLEAN]
                    \cup [at : {"answered"}, kind : {"write"}, fresh : BOOLEAN, answer : BOOLEAN]
                    \cup [at : {"sent"}, kind : Reads, req : Days, fresh : BOOLEAN]
  /\ wire # None /\ wire.kind = "write" => outbox # <<>>
  /\ loads \in Seq(Reads) /\ synced \in SUBSET Reads

\* What the table will hold once the outbox is through, if nothing else happens.
Served(R, q) ==
  CASE q.op = "put"    -> SetClock(R, q.day, q.task, q.running, q.ms)
    [] q.op = "clear"  -> ClearClock(R, q.day, q.task)
    [] q.op = "finish" -> FinishBlock(R, q.day, q.task, q.minutes)
    [] q.op = "remove" -> RemoveBlock(R, q.day, q.task)
Through ==
  LET so[n \in 0..Len(outbox)] == IF n = 0 THEN rows ELSE Served(so[n - 1], Sample(outbox[n]))
  IN  so[Len(outbox)]
Taken == \A i \in DOMAIN outbox : Accepts(Sample(outbox[i]))

SameClock(held, row) ==
  /\ row # None
  /\ Names(row, held.day, held.task)
  /\ (held.since = None) = (row.leg = None)
  /\ Elapsed(held) = ElapsedMs(row, now)

\* What the page shows is what the server ends up holding: the day's finished
\* blocks, and the clock it shows with its elapsed time, however often a write was
\* lost, sent again or answered into the void and however late a task route answers,
\* as long as nobody else wrote and no write is refused. (Two answers cost the page
\* what it shows until it reads again: a tap's of another day's page the log, and the
\* completion's of a timed block that is not current the clock.)
ScreenIsServed ==
  Taken =>
    /\ "log" \in synced =>
         ShownLog = {[task |-> r.task, minutes |-> r.minutes] :
                       r \in {r \in Through : ~IsClock(r) /\ r.day = day}}
    /\ "clock" \in synced /\ clock # None => SameClock(clock, GetClock(Through))

\* Once the users are done, the outbox drains and the page shows the table.
PhoneConverges ==
  <>[](/\ outbox = <<>>
       /\ ShownLog = LogOf(day)
       /\ (clock = None) = (GetClock(rows) = None)
       /\ clock # None => Names(GetClock(rows), clock.day, clock.task))
=============================================================================
