--------------------------- MODULE AgentRun_proofs ---------------------------
(***************************************************************************)
(* What holds of the planner's loop for any number of runs, turns, calls,    *)
(* rows and outside writers: each call of a stored turn has one answer, the  *)
(* record tells what was written, and a question is opened only while open.  *)
(* And of the gather beside it, for any runs, texts, models and events:      *)
(* meaning is measured within one model.                                     *)
(***************************************************************************)
EXTENDS AgentRun, AgentGather, SequenceTheorems, WellFoundedInduction, TLAPS

-----------------------------------------------------------------------------
(* The inductive invariant *)

RowState == [live : BOOLEAN, at : Nat]
Candidate == [id : Row, at : Nat]
Came == {"result", "refused", "invalid", "notRun", "crashed"}
CallRecord == [tool : Tool, on : Row, came : Came]
LandedCall == [tool : Tool, on : Row, wrote : BOOLEAN]
Reasons ==
  {"completed", "truncated", "no_progress", "max_iterations", "tool_call_limit", "correction_limit",
   "confirm_required", "cancelled", "timed_out", "provider_error", "internal_error"}

RunState ==
  [pc          : {"idle", "turn", "calling", "batch", "running", "narrating", "confirmed", "ended"},
   question    : SUBSET Candidate,
   delegate    : BOOLEAN,
   answered    : Candidate \cup {None},
   stopped     : BOOLEAN,
   late        : BOOLEAN,
   turn        : Nat,
   corrections : Nat,
   dispatched  : Nat,
   seen        : SUBSET (Call \X Came \X RowState),
   left        : Seq(Call),
   calls       : Nat,
   answers     : Nat,
   progressed  : BOOLEAN,
   malformed   : BOOLEAN,
   records     : Seq(CallRecord),
   asked       : SUBSET Candidate,
   reason      : Reasons \cup {None},
   reply       : Replies \cup {None},
   landed      : Seq(LandedCall),
   untold      : {None, "call", "run"}]

\* What RecordIsTrue says, of any records and any calls that landed.
Done(records) == {i \in DOMAIN records : Classify(records[i]) = "done"}

Matches(at, records, wrote) ==
  /\ at \in [DOMAIN wrote -> Done(records)]
  /\ \A i \in Done(records) : \E k \in DOMAIN wrote : at[k] = i
  /\ \A j, k \in DOMAIN wrote : j < k => at[j] < at[k]
  /\ \A k \in DOMAIN wrote :
       records[at[k]].tool = wrote[k].tool /\ records[at[k]].on = wrote[k].on

Truthful(records, wrote) == \E at : Matches(at, records, wrote)

\* Every call of the turn is answered or still to be answered, and the record is true.
Counted(r) ==
  /\ r \in RunState
  /\ r.calls = r.answers + Len(r.left)
  /\ Truthful(r.records, r.landed)
  /\ r.untold = None

\* Nothing is left to answer.
Settled(r) == Counted(r) /\ r.left = <<>>

\* A landed ask ends the run, and with something to say.
AskIsPut(r) ==
  r.asked # {} => r.pc \in {"narrating", "ended"} /\ (r.pc = "ended" => r.reply # None)

\* A run of the loop, between any two of its steps.
InLoop(r) ==
  /\ Counted(r) /\ r.pc # "confirmed"
  /\ r.pc \notin {"batch", "running"} => r.left = <<>>
  /\ r.pc = "running" => r.left # <<>>
  /\ AskIsPut(r)
  /\ r.pc = "idle" => r = NoRun

\* A run that has ended without a record of all it did: of a call that crashed, its
\* record says so; of a gate that raised there is none.
Untold(r) ==
  /\ r \in RunState /\ r.pc = "ended" /\ r.calls = r.answers /\ r.asked = {}
  /\ \/ /\ r.untold = "call" /\ Truthful(r.records, r.landed)
        /\ \E i \in DOMAIN r.records : r.records[i].came = "crashed"
     \/ r.untold = "run" /\ r.records = <<>>

\* A confirmed call that has not returned.
Confirming(r) ==
  /\ r \in RunState /\ r.pc = "confirmed" /\ r.left # <<>>
  /\ r.calls = 0 /\ r.answers = 0 /\ r.records = <<>> /\ r.landed = <<>>
  /\ r.asked = {} /\ r.untold = None

GoodRun(r) == InLoop(r) \/ Untold(r) \/ Confirming(r)

\* What is stored of the newest question is what became of it.
OpenIsTold ==
  \A i \in DOMAIN history :
    /\ history[i].asked # {}
    /\ \A j \in DOMAIN history : j > i => history[j].asked = {}
    => open.put /\ (open.moved => \E j \in DOMAIN history : j > i /\ history[j].done)

IInv ==
  /\ row \in [Row -> RowState]
  /\ history \in Seq([asked : SUBSET Candidate, done : BOOLEAN])
  /\ open \in [put : BOOLEAN, moved : BOOLEAN]
  /\ pending \in Candidate \cup {None}
  /\ GoodRun(run)
  /\ OpenIsTold

-----------------------------------------------------------------------------
(* The record *)

LEMMA EmptyIsTrue == Truthful(<<>>, <<>>)
<1>1. Matches(<<>>, <<>>, <<>>)
  BY DEF Matches, Done
<1> QED
  BY <1>1 DEF Truthful

\* Records of calls that did nothing leave the record as true as it was.
LEMMA NothingDoneAdded ==
  ASSUME NEW records \in Seq(CallRecord), NEW more \in Seq(CallRecord), NEW wrote \in Seq(LandedCall),
         Truthful(records, wrote),
         \A i \in DOMAIN more : Classify(more[i]) # "done"
  PROVE  Truthful(records \o more, wrote)
<1> DEFINE all == records \o more
<1>1. PICK at : Matches(at, records, wrote)
  BY DEF Truthful
<1>2. /\ DOMAIN all = 1..(Len(records) + Len(more))
      /\ DOMAIN records = 1..Len(records) /\ DOMAIN more = 1..Len(more)
      /\ Len(records) \in Nat /\ Len(more) \in Nat
      /\ \A i \in 1..Len(records) : all[i] = records[i]
      /\ \A i \in (Len(records) + 1)..(Len(records) + Len(more)) : all[i] = more[i - Len(records)]
  BY LenProperties, ConcatProperties
<1>3. Done(all) = Done(records)
  <2>1. \A i \in DOMAIN all : i \in DOMAIN records \/ i - Len(records) \in DOMAIN more
    BY <1>2
  <2>2. \A i \in DOMAIN all : i \notin DOMAIN records => all[i] = more[i - Len(records)]
    BY <1>2
  <2>3. DOMAIN records \subseteq DOMAIN all
    BY <1>2
  <2> HIDE DEF all
  <2> QED
    BY <1>2, <2>1, <2>2, <2>3 DEF Done
<1>4. \A i \in Done(records) : all[i] = records[i]
  BY <1>2 DEF Done
<1>5. Matches(at, all, wrote)
  <2> HIDE DEF all
  <2> QED
    BY <1>1, <1>3, <1>4, Zenon DEF Matches
<1> QED
  BY <1>5 DEF Truthful

\* A call that did something is recorded when it lands.
LEMMA DoneAdded ==
  ASSUME NEW records \in Seq(CallRecord), NEW wrote \in Seq(LandedCall), Truthful(records, wrote),
         NEW rec \in CallRecord, NEW call \in LandedCall,
         Classify(rec) = "done", rec.tool = call.tool, rec.on = call.on
  PROVE  Truthful(Append(records, rec), Append(wrote, call))
<1> DEFINE all == Append(records, rec)
           writes == Append(wrote, call)
           n == Len(records) + 1
           m == Len(wrote) + 1
<1>1. PICK at : Matches(at, records, wrote)
  BY DEF Truthful
<1>2. /\ DOMAIN all = 1..n /\ DOMAIN records = 1..Len(records) /\ Len(records) \in Nat
      /\ all[n] = rec /\ \A i \in 1..Len(records) : all[i] = records[i]
      /\ DOMAIN writes = 1..m /\ DOMAIN wrote = 1..Len(wrote) /\ Len(wrote) \in Nat
      /\ writes[m] = call /\ \A i \in 1..Len(wrote) : writes[i] = wrote[i]
  BY LenProperties, AppendProperties
<1> HIDE DEF all, writes
<1>3. Done(all) = Done(records) \cup {n}
  BY <1>2 DEF Done
<1> DEFINE to == [k \in DOMAIN writes |-> IF k = m THEN n ELSE at[k]]
<1>4. /\ at \in [DOMAIN wrote -> Done(records)]
      /\ \A i \in Done(records) : \E k \in DOMAIN wrote : at[k] = i
      /\ \A j, k \in DOMAIN wrote : j < k => at[j] < at[k]
      /\ \A k \in DOMAIN wrote :
           records[at[k]].tool = wrote[k].tool /\ records[at[k]].on = wrote[k].on
  BY <1>1 DEF Matches
<1>5. \A k \in DOMAIN writes : k = m \/ (k \in DOMAIN wrote /\ k # m)
  BY <1>2
<1>6. \A k \in DOMAIN wrote : to[k] = at[k] /\ at[k] \in Done(records) /\ at[k] \in 1..Len(records)
  BY <1>2, <1>4 DEF Done
<1>7. m \in DOMAIN writes /\ to[m] = n /\ DOMAIN wrote \subseteq DOMAIN writes
  BY <1>2
<1> HIDE DEF to
<1>8. to \in [DOMAIN writes -> Done(all)]
  BY <1>3, <1>4, <1>5, <1>6 DEF to
<1>9. \A i \in Done(all) : \E k \in DOMAIN writes : to[k] = i
  BY <1>3, <1>4, <1>6, <1>7
<1>10. \A j, k \in DOMAIN writes : j < k => to[j] < to[k]
  <2> SUFFICES ASSUME NEW j \in DOMAIN writes, NEW k \in DOMAIN writes, j < k
               PROVE  to[j] < to[k]
    OBVIOUS
  <2>1. j # m /\ j \in DOMAIN wrote
    BY <1>2, <1>5
  <2>2. CASE k = m
    BY <1>2, <1>6, <1>7, <2>1, <2>2
  <2>3. CASE k # m
    BY <1>4, <1>5, <1>6, <2>1, <2>3
  <2> QED
    BY <2>2, <2>3
<1>11. \A k \in DOMAIN writes : all[to[k]].tool = writes[k].tool /\ all[to[k]].on = writes[k].on
  <2> SUFFICES ASSUME NEW k \in DOMAIN writes
               PROVE  all[to[k]].tool = writes[k].tool /\ all[to[k]].on = writes[k].on
    OBVIOUS
  <2>1. CASE k = m
    BY <1>2, <1>7, <2>1
  <2>2. CASE k # m
    <3>1. k \in DOMAIN wrote /\ writes[k] = wrote[k] /\ to[k] = at[k] /\ all[at[k]] = records[at[k]]
      BY <1>2, <1>5, <1>6, <2>2
    <3> QED
      BY <1>4, <3>1
  <2> QED
    BY <2>1, <2>2
<1>12. Matches(to, all, writes)
  BY <1>8, <1>9, <1>10, <1>11 DEF Matches
<1> QED
  BY <1>12 DEF Truthful, all, writes

\* A true record counts a call as done exactly when one landed.
LEMMA DoneMeansLanded ==
  ASSUME NEW records \in Seq(CallRecord), NEW wrote \in Seq(LandedCall), Truthful(records, wrote)
  PROVE  (\E i \in DOMAIN records : Classify(records[i]) = "done") <=> wrote # <<>>
<1>1. PICK at : Matches(at, records, wrote)
  BY DEF Truthful
<1>2. wrote # <<>> <=> DOMAIN wrote # {}
  <2>1. DOMAIN wrote = 1 .. Len(wrote) /\ Len(wrote) \in Nat
    BY LenProperties
  <2>2. wrote = <<>> <=> Len(wrote) = 0
    BY EmptySeq
  <2>3. Len(wrote) # 0 <=> 1 .. Len(wrote) # {}
    <3>1. Len(wrote) # 0 => 1 \in 1 .. Len(wrote)
      BY <2>1
    <3>2. Len(wrote) = 0 => 1 .. Len(wrote) = {}
      BY <2>1
    <3> QED
      BY <3>1, <3>2
  <2> QED
    BY <2>1, <2>2, <2>3
<1>3. DOMAIN wrote # {} <=> Done(records) # {}
  BY <1>1 DEF Matches
<1> QED
  BY <1>2, <1>3 DEF Done

-----------------------------------------------------------------------------
(* The run's own helpers *)

LEMMA RecordTyped ==
  ASSUME NEW call \in Call, NEW came \in Came
  PROVE  Record(call, came) \in CallRecord /\ Record(call, came).came = came
         /\ Record(call, came).tool = call.tool /\ Record(call, came).on = call.on
BY DEF Record, CallRecord, Call

LEMMA EndedGood ==
  ASSUME NEW r \in RunState, Settled(r), NEW reason \in Reasons \cup {None}, NEW reply \in Replies \cup {None},
         r.asked # {} => reply # None
  PROVE  GoodRun(Ended(r, reason, reply))
<1> DEFINE e == Ended(r, reason, reply)
<1>1. /\ e \in RunState /\ e.pc = "ended" /\ e.left = r.left /\ e.calls = r.calls
      /\ e.answers = r.answers /\ e.records = r.records /\ e.landed = r.landed /\ e.untold = r.untold
      /\ e.asked = r.asked /\ e.reply = reply
  BY DEF Ended, RunState
<1> QED
  BY <1>1 DEF Settled, Counted, GoodRun, InLoop, AskIsPut

LEMMA NarratedGood ==
  ASSUME NEW r \in RunState, Settled(r), NEW reason \in Reasons
  PROVE  GoodRun(Narrated(r, reason))
<1>1. CASE r.delegate
  <2>1. "handoff" \in Replies /\ None \notin Replies
    BY RunBounds DEF Replies
  <2> QED
    BY <1>1, <2>1, EndedGood DEF Narrated
<1>2. CASE ~r.delegate
  <2> DEFINE e == [r EXCEPT !.pc = "narrating", !.reason = reason]
  <2>1. /\ e \in RunState /\ e.pc = "narrating" /\ e.left = r.left /\ e.calls = r.calls
        /\ e.answers = r.answers /\ e.records = r.records /\ e.landed = r.landed /\ e.untold = r.untold
    BY DEF RunState
  <2> QED
    BY <1>2, <2>1 DEF Narrated, Settled, Counted, GoodRun, InLoop, AskIsPut
<1> QED
  BY <1>1, <1>2

LEMMA LimitStopGood ==
  ASSUME NEW r \in RunState, Settled(r), r.asked = {}, NEW reason \in Reasons
  PROVE  GoodRun(LimitStop(r, reason))
BY EndedGood, NarratedGood DEF LimitStop

LEMMA CorrectedGood ==
  ASSUME NEW r \in RunState, Settled(r), r.asked = {}
  PROVE  GoodRun(Corrected(r))
<1> DEFINE e == [r EXCEPT !.corrections = @ + 1, !.pc = "turn"]
<1>0. r.corrections + 1 \in Nat
  BY DEF RunState
<1>1. /\ e \in RunState /\ e.pc = "turn" /\ e.left = r.left /\ e.calls = r.calls
      /\ e.answers = r.answers /\ e.records = r.records /\ e.landed = r.landed /\ e.untold = r.untold
      /\ e.asked = r.asked
  BY <1>0 DEF RunState
<1>2. Settled(e)
  BY <1>1 DEF Settled, Counted
<1>3. GoodRun(LimitStop(e, "correction_limit"))
  <2>1. "correction_limit" \in Reasons
    BY DEF Reasons
  <2> QED
    BY <1>1, <1>2, <2>1, LimitStopGood
<1>4. GoodRun(e)
  BY <1>1, <1>2 DEF GoodRun, InLoop, Settled, Counted, AskIsPut
<1> QED
  BY <1>3, <1>4 DEF Corrected

\* The rest of the turn is answered, and none of it counted as done.
LEMMA SkipRemainingSettles ==
  ASSUME NEW r \in RunState, Counted(r)
  PROVE  /\ Settled(SkipRemaining(r))
         /\ SkipRemaining(r) \in RunState
         /\ SkipRemaining(r).asked = r.asked
         /\ SkipRemaining(r).delegate = r.delegate
         /\ \A i \in DOMAIN r.records : i \in DOMAIN SkipRemaining(r).records
                                        /\ SkipRemaining(r).records[i] = r.records[i]
<1> DEFINE more == [i \in DOMAIN r.left |-> Record(r.left[i], "notRun")]
           e == SkipRemaining(r)
<1>1. r.left \in Seq(Call) /\ DOMAIN r.left = 1..Len(r.left) /\ Len(r.left) \in Nat
  BY LenProperties DEF RunState
<1>2. \A i \in DOMAIN r.left : r.left[i] \in Call
  BY <1>1
<1>3. \A i \in DOMAIN more : more[i] \in CallRecord /\ more[i].came = "notRun"
  BY <1>2, RecordTyped DEF Came
<1>4. more \in Seq(CallRecord)
  <2> HIDE DEF more
  <2>1. \A i \in 1..Len(r.left) : more[i] \in CallRecord
    BY <1>1, <1>3 DEF more
  <2>2. more = [i \in 1..Len(r.left) |-> more[i]]
    BY <1>1 DEF more
  <2> QED
    BY <1>1, <2>1, <2>2, IsASeq
<1>5. \A i \in DOMAIN more : Classify(more[i]) # "done"
  BY <1>3 DEF Classify, Landed
<1> HIDE DEF more
<1>6. r.records \in Seq(CallRecord) /\ r.landed \in Seq(LandedCall) /\ Truthful(r.records, r.landed)
  BY DEF RunState, Counted
<1>7. r.records \o more \in Seq(CallRecord) /\ Truthful(r.records \o more, r.landed)
  BY <1>4, <1>5, <1>6, NothingDoneAdded, ConcatProperties
<1>8. e = [r EXCEPT !.records = @ \o more, !.answers = @ + Len(r.left), !.left = <<>>]
  BY DEF SkipRemaining, more
<1> HIDE DEF e
<1>0. r.answers + Len(r.left) \in Nat /\ <<>> \in Seq(Call)
  BY <1>1 DEF RunState
<1>9. /\ e \in RunState /\ e.left = <<>> /\ e.calls = r.calls /\ e.asked = r.asked
      /\ e.delegate = r.delegate /\ e.answers = r.answers + Len(r.left)
      /\ e.records = r.records \o more /\ e.landed = r.landed /\ e.untold = r.untold
  BY <1>0, <1>7, <1>8 DEF RunState
<1>10. e.calls = e.answers + Len(e.left)
  BY <1>1, <1>9 DEF Counted, RunState
<1>11. \A i \in DOMAIN r.records : i \in DOMAIN e.records /\ e.records[i] = r.records[i]
  BY <1>4, <1>6, <1>9, LenProperties, ConcatProperties
<1> QED
  BY <1>7, <1>9, <1>10, <1>11 DEF Settled, Counted, e

\* One call is answered.
LEMMA AnsweredTyped ==
  ASSUME NEW r \in RunState, Counted(r), r.left # <<>>, NEW rec \in CallRecord
  PROVE  LET e == Answered(r, rec)
         IN  /\ e \in RunState /\ e.left = Tail(r.left) /\ e.calls = r.calls
             /\ e.answers = r.answers + 1 /\ e.records = Append(r.records, rec)
             /\ e.landed = r.landed /\ e.untold = r.untold /\ e.asked = r.asked /\ e.seen = r.seen
             /\ e.progressed = r.progressed /\ e.malformed = r.malformed
             /\ e.calls = e.answers + Len(e.left)
<1> DEFINE e == Answered(r, rec)
<1>1. /\ r.left \in Seq(Call) /\ r.records \in Seq(CallRecord) /\ r.landed \in Seq(LandedCall)
      /\ r.answers \in Nat /\ r.calls \in Nat
  BY DEF RunState
<1>2. Tail(r.left) \in Seq(Call) /\ Len(Tail(r.left)) = Len(r.left) - 1 /\ Len(r.left) \in Nat
  BY <1>1, HeadTailProperties
<1>3. Append(r.records, rec) \in Seq(CallRecord)
  BY <1>1, AppendProperties
<1>4. r.answers + 1 \in Nat
  BY <1>1
<1>5. e = [r EXCEPT !.records = Append(r.records, rec), !.answers = r.answers + 1,
                    !.left = Tail(r.left)]
  BY DEF Answered, RunState
<1> HIDE DEF e
<1>6. /\ e \in RunState /\ e.left = Tail(r.left) /\ e.calls = r.calls
      /\ e.answers = r.answers + 1 /\ e.records = Append(r.records, rec)
      /\ e.landed = r.landed /\ e.untold = r.untold /\ e.asked = r.asked /\ e.seen = r.seen
      /\ e.progressed = r.progressed /\ e.malformed = r.malformed
  BY <1>2, <1>3, <1>4, <1>5 DEF RunState
<1>c. r.calls = r.answers + Len(r.left)
  BY DEF Counted
<1>7. e.calls = e.answers + Len(e.left)
  <2>1. e.calls = r.calls /\ e.answers = r.answers + 1 /\ Len(e.left) = Len(r.left) - 1
    BY <1>2, <1>6
  <2>2. r.answers \in Nat /\ Len(r.left) \in Nat
    BY <1>1, <1>2
  <2> QED
    BY <1>c, <2>1, <2>2
<1> QED
  BY <1>6, <1>7 DEF e

\* An answer that did nothing leaves the record true.
LEMMA NothingDoneTold ==
  ASSUME NEW records \in Seq(CallRecord), NEW wrote \in Seq(LandedCall), Truthful(records, wrote),
         NEW rec \in CallRecord, Classify(rec) # "done"
  PROVE  Truthful(Append(records, rec), wrote)
<1>1. /\ Append(records, rec) = records \o <<rec>> /\ <<rec>> \in Seq(CallRecord)
  BY AppendIsConcat
<1>2. <<rec>>[1] = rec /\ DOMAIN <<rec>> = {1}
  OBVIOUS
<1> QED
  BY <1>1, <1>2, NothingDoneAdded

-----------------------------------------------------------------------------
(* Each step of a run *)

RowsTyped == row \in [Row -> RowState]

LEMMA NoRunTyped ==
  /\ NoRun \in RunState
  /\ NoRun.pc = "idle" /\ NoRun.left = <<>> /\ NoRun.calls = 0 /\ NoRun.answers = 0
  /\ NoRun.records = <<>> /\ NoRun.landed = <<>> /\ NoRun.asked = {} /\ NoRun.question = {}
  /\ NoRun.untold = None
BY DEF NoRun, RunState

LEMMA NoRunGood == GoodRun(NoRun)
BY NoRunTyped, EmptyIsTrue DEF GoodRun, InLoop, Counted, AskIsPut

\* Between the turns and while the provider is asked, a run is settled.
LEMMA BetweenTurns ==
  ASSUME GoodRun(run), run.pc \in {"turn", "calling", "narrating"}
  PROVE  run \in RunState /\ Settled(run) /\ (run.pc # "narrating" => run.asked = {})
BY DEF GoodRun, InLoop, Untold, Confirming, Counted, Settled, AskIsPut

LEMMA InBatch ==
  ASSUME GoodRun(run), run.pc \in {"batch", "running"}
  PROVE  run \in RunState /\ Counted(run) /\ run.asked = {} /\ (run.pc = "running" => run.left # <<>>)
BY DEF GoodRun, InLoop, Untold, Confirming, Counted, AskIsPut

\* Some natural number is the least of a set of them.
LEMMA LeastNatural ==
  ASSUME NEW N \in SUBSET Nat, N # {}
  PROVE  \E d \in N : \A e \in N : d <= e
<1>1. PICK d \in N : \A e \in N : ~(<<e, d>> \in OpToRel(<, Nat))
  BY NatLessThanWellFounded, WFMin
<1>2. \A e \in N : ~(e < d)
  <2> SUFFICES ASSUME NEW e \in N, e < d
               PROVE  FALSE
    OBVIOUS
  <2>1. <<e, d>> \in Nat \X Nat
    OBVIOUS
  <2> QED
    BY <1>1, <2>1 DEF OpToRel
<1> QED
  BY <1>2

\* Of the positions of a sequence, some last one satisfies what any of them does.
LEMMA LastPosition ==
  ASSUME NEW n \in Nat, NEW A \in SUBSET (1..n), A # {}
  PROVE  \E i \in A : \A j \in A : j <= i
<1> DEFINE N == {n - i : i \in A}
<1>1. N \in SUBSET Nat /\ N # {}
  <2>1. \A i \in A : n - i \in Nat
    OBVIOUS
  <2> QED
    BY <2>1
<1>2. PICK d \in N : \A e \in N : d <= e
  BY <1>1, LeastNatural
<1>3. PICK i \in A : d = n - i
  BY <1>2
<1>4. \A j \in A : n - i <= n - j
  BY <1>2, <1>3
<1>5. \A j \in A : j <= i
  BY <1>4
<1> QED
  BY <1>5

\* A stored question that is opened is the newest, and nothing was done after it.
LEMMA NewestAsk ==
  ASSUME history \in Seq([asked : SUBSET Candidate, done : BOOLEAN]), FromHistory(history) # {}
  PROVE  \E i \in DOMAIN history :
           /\ FromHistory(history) = history[i].asked
           /\ \A j \in DOMAIN history : j > i => history[j].asked = {} /\ ~history[j].done
<1> DEFINE asks == {i \in DOMAIN history : history[i].asked # {}}
           last == CHOOSE i \in asks : \A j \in asks : j <= i
<1>1. /\ asks # {} /\ FromHistory(history) = history[last].asked
      /\ \A j \in DOMAIN history : j > last => ~history[j].done
  BY DEF FromHistory
<1>2. \E i \in asks : \A j \in asks : j <= i
  <2>1. DOMAIN history = 1..Len(history) /\ Len(history) \in Nat
    BY LenProperties
  <2>2. asks \in SUBSET (1..Len(history))
    BY <2>1
  <2> QED
    BY <1>1, <2>1, <2>2, LastPosition
<1>3. last \in asks /\ \A j \in asks : j <= last
  BY <1>2
<1>4. \A j \in DOMAIN history : j > last => history[j].asked = {}
  <2>1. \A j \in DOMAIN history : j \in Nat
    BY LenProperties
  <2> HIDE DEF last
  <2> QED
    BY <1>3, <2>1
<1> QED
  BY <1>1, <1>3, <1>4

LEMMA StartGood ==
  ASSUME RowsTyped, history \in Seq([asked : SUBSET Candidate, done : BOOLEAN]),
         pending \in Candidate \cup {None}, NEW delegate \in BOOLEAN, Start(delegate)
  PROVE  GoodRun(run')
<1>1. PICK question \in StillOpen(FromHistory(history)) :
        run' = [NoRun EXCEPT !.pc = "turn", !.delegate = delegate, !.question = question,
                             !.answered = IF delegate THEN pending ELSE None]
  BY DEF Start
<1>2. FromHistory(history) \in SUBSET Candidate
  <2>1. CASE FromHistory(history) # {}
    <3>1. PICK i \in DOMAIN history : FromHistory(history) = history[i].asked
      BY <2>1, NewestAsk
    <3>2. history[i] \in [asked : SUBSET Candidate, done : BOOLEAN]
      BY LenProperties, ElementOfSeq
    <3> QED
      BY <3>1, <3>2
  <2> QED
    BY <2>1
<1>3. question \in SUBSET Candidate
  BY <1>2 DEF StillOpen
<1>4. /\ run' \in RunState /\ run'.pc = "turn" /\ run'.left = <<>> /\ run'.calls = 0
      /\ run'.answers = 0 /\ run'.records = <<>> /\ run'.landed = <<>> /\ run'.asked = {}
      /\ run'.untold = None
  BY <1>1, <1>3, NoRunTyped DEF RunState
<1> QED
  BY <1>4, EmptyIsTrue DEF GoodRun, InLoop, Counted, AskIsPut

LEMMA TurnsGood ==
  ASSUME GoodRun(run),
         \/ OutOfTurns \/ CancelledBeforeTurn \/ LateBeforeTurn
         \/ BadArguments \/ ProviderFails \/ TurnTruncated \/ FinalText \/ Narration
  PROVE  GoodRun(run')
<1>1. run.pc \in {"turn", "calling", "narrating"}
  BY DEF OutOfTurns, CancelledBeforeTurn, LateBeforeTurn, MoreTurns, BadArguments, ProviderFails,
         TurnTruncated, FinalText, Narration
<1>2. run \in RunState /\ Settled(run) /\ (run.pc # "narrating" => run.asked = {})
  BY <1>1, BetweenTurns
<1>3. CASE OutOfTurns
  BY <1>2, <1>3, LimitStopGood DEF OutOfTurns, Becomes, Reasons
<1>4. CASE CancelledBeforeTurn
  BY <1>2, <1>4, EndedGood DEF CancelledBeforeTurn, MoreTurns, Becomes, Reasons
<1>5. CASE LateBeforeTurn
  BY <1>2, <1>5, EndedGood DEF LateBeforeTurn, MoreTurns, Becomes, Reasons
<1>6. CASE BadArguments
  BY <1>2, <1>6, CorrectedGood DEF BadArguments, Becomes
<1>7. CASE ProviderFails
  <2>1. PICK reason \in Reasons : run' = Ended(run, reason, None)
    BY <1>7 DEF ProviderFails, Becomes, Reasons
  <2> QED
    BY <1>2, <1>7, <2>1, EndedGood DEF ProviderFails
<1>8. CASE TurnTruncated
  BY <1>2, <1>8, LimitStopGood DEF TurnTruncated, Becomes, Reasons
<1>9. CASE FinalText
  BY <1>2, <1>9, NarratedGood DEF FinalText, Becomes, Reasons
<1>10. CASE Narration
  <2>1. run.reason \in Reasons \cup {None}
    BY <1>2 DEF RunState
  <2>2. PICK reply \in Replies \cup {None} :
          run' = Ended(run, run.reason, reply) /\ (run.asked # {} => reply \in Replies)
    BY <1>10, Zenon DEF Narration, Becomes, Replies
  <2> QED
    BY <1>2, <2>1, <2>2, EndedGood, RunBounds
<1> QED
  BY <1>3, <1>4, <1>5, <1>6, <1>7, <1>8, <1>9, <1>10


LEMMA ProposeGood ==
  ASSUME GoodRun(run), NEW batch \in Batches, Propose(batch)
  PROVE  GoodRun(run')
<1>1. run \in RunState /\ Settled(run) /\ run.asked = {}
  BY BetweenTurns DEF Propose
<1>2. batch \in Seq(Call) /\ batch # <<>> /\ Len(batch) \in Nat
  BY RunBounds, LenProperties
<1>3. run' = [run EXCEPT !.pc = "batch", !.left = batch, !.calls = Len(batch), !.answers = 0,
                         !.progressed = FALSE, !.malformed = FALSE]
  BY DEF Propose, Becomes
<1>4. /\ run' \in RunState /\ run'.pc = "batch" /\ run'.left = batch /\ run'.calls = Len(batch)
      /\ run'.answers = 0 /\ run'.records = run.records /\ run'.landed = run.landed
      /\ run'.asked = {} /\ run'.untold = run.untold
  BY <1>1, <1>2, <1>3 DEF RunState
<1> QED
  BY <1>1, <1>2, <1>4 DEF GoodRun, InLoop, Settled, Counted, AskIsPut

\* What is left of the confirmation is still one, or nothing.
LEMMA AnsweredKept ==
  ASSUME run \in RunState
  PROVE  AnsweredAfter \in Candidate \cup {None}
BY DEF RunState, AnsweredAfter

\* The marks of a run: Stop, the deadline, and the counters of its turns and calls.
LEMMA MarksGood ==
  ASSUME GoodRun(run), CallProvider \/ StartCall \/ Stop \/ DeadlinePasses
  PROVE  GoodRun(run')
<1>1. InLoop(run)
  BY DEF GoodRun, Untold, Confirming, CallProvider, MoreTurns, StartCall, Allowed, NextCall, Stop,
         DeadlinePasses, Running
<1>x. run \in RunState
  BY <1>1 DEF InLoop, Counted
<1>0. run.turn + 1 \in Nat /\ run.dispatched + 1 \in Nat
  BY <1>x DEF RunState
<1>2. /\ run' \in RunState /\ run'.left = run.left /\ run'.calls = run.calls
      /\ run'.answers = run.answers /\ run'.records = run.records /\ run'.landed = run.landed
      /\ run'.asked = run.asked /\ run'.reply = run.reply /\ run'.untold = run.untold
      /\ \/ run'.pc = run.pc /\ run.pc # "idle"
         \/ run.pc = "turn" /\ run'.pc = "calling"
         \/ run.pc = "batch" /\ run.left # <<>> /\ run'.pc = "running"
  <2>1. CASE CallProvider
    BY <1>0, <1>x, <2>1 DEF CallProvider, MoreTurns, Becomes, RunState
  <2>2. CASE StartCall
    <3>1. run' = [run EXCEPT !.pc = "running", !.dispatched = @ + 1, !.answered = AnsweredAfter]
      BY <2>2 DEF StartCall, Becomes
    <3> QED
      BY <1>0, <1>x, <2>2, <3>1, AnsweredKept DEF StartCall, Allowed, NextCall, RunState
  <2>3. CASE Stop
    BY <1>x, <2>3 DEF Stop, Running, Becomes, RunState
  <2>4. CASE DeadlinePasses
    BY <1>x, <2>4 DEF DeadlinePasses, Running, Becomes, RunState
  <2> QED
    BY <2>1, <2>2, <2>3, <2>4
<1> QED
  BY <1>1, <1>2 DEF GoodRun, InLoop, Counted, AskIsPut

\* The gate that raises ends the run, and its records are lost.
LEMMA GateCrashesGood ==
  ASSUME GoodRun(run), GateCrashes
  PROVE  GoodRun(run')
<1>1. run \in RunState /\ run.asked = {}
  BY InBatch DEF GateCrashes, Allowed, NextCall
<1>2. run' = Ended([run EXCEPT !.records = <<>>, !.left = <<>>, !.calls = 0, !.answers = 0,
                               !.untold = "run"], "internal_error", None)
  BY DEF GateCrashes, Becomes
<1>3. <<>> \in Seq(Call) /\ <<>> \in Seq(CallRecord)
  OBVIOUS
<1>4. /\ run' \in RunState /\ run'.pc = "ended" /\ run'.calls = 0 /\ run'.answers = 0
      /\ run'.asked = {} /\ run'.untold = "run" /\ run'.records = <<>>
  BY <1>1, <1>2, <1>3 DEF Ended, RunState, Reasons
<1> QED
  BY <1>4 DEF GoodRun, Untold

\* A turn cut short, by Stop, the deadline, the cap, the gate or the end of its calls.
LEMMA BatchGood ==
  ASSUME GoodRun(run),
         CancelledInBatch \/ LateInBatch \/ OverCap \/ ConfirmFirst \/ TurnDone
  PROVE  GoodRun(run')
<1>1. run.pc = "batch"
  BY DEF CancelledInBatch, LateInBatch, OverCap, ConfirmFirst, TurnDone, Allowed, NextCall
<1>2. run \in RunState /\ Counted(run) /\ run.asked = {}
  BY <1>1, InBatch
<1>3. /\ SkipRemaining(run) \in RunState /\ Settled(SkipRemaining(run))
      /\ SkipRemaining(run).asked = {}
  BY <1>2, SkipRemainingSettles
<1>4. CASE CancelledInBatch
  BY <1>3, <1>4, EndedGood DEF CancelledInBatch, Becomes, Reasons
<1>5. CASE LateInBatch
  BY <1>3, <1>5, EndedGood DEF LateInBatch, Becomes, Reasons
<1>6. CASE OverCap
  BY <1>3, <1>6, LimitStopGood DEF OverCap, Becomes, Reasons
<1>7. CASE ConfirmFirst
  <2> DEFINE r == [run EXCEPT !.answered = AnsweredAfter]
  <2>1. run' = Ended(SkipRemaining(r), "confirm_required", "question")
    BY <1>7 DEF ConfirmFirst
  <2>2. /\ r \in RunState /\ r.calls = run.calls /\ r.answers = run.answers /\ r.left = run.left
        /\ r.records = run.records /\ r.landed = run.landed /\ r.untold = run.untold /\ r.asked = {}
    BY <1>2, AnsweredKept DEF RunState
  <2> HIDE DEF r
  <2>3. Counted(r)
    BY <1>2, <2>2 DEF Counted
  <2>4. /\ SkipRemaining(r) \in RunState /\ Settled(SkipRemaining(r))
        /\ SkipRemaining(r).asked = {}
    BY <2>2, <2>3, SkipRemainingSettles
  <2> QED
    BY <2>1, <2>4, EndedGood DEF Reasons, Replies
<1>8. CASE TurnDone
  <2>1. Settled(run)
    BY <1>2, <1>8 DEF TurnDone, Settled
  <2>2. GoodRun(Corrected(run)) /\ GoodRun(LimitStop(run, "no_progress"))
    BY <1>2, <2>1, CorrectedGood, LimitStopGood DEF Reasons
  <2>3. GoodRun([run EXCEPT !.pc = "turn"])
    <3> DEFINE e == [run EXCEPT !.pc = "turn"]
    <3>1. /\ e \in RunState /\ e.pc = "turn" /\ e.left = run.left /\ e.calls = run.calls
          /\ e.answers = run.answers /\ e.records = run.records /\ e.landed = run.landed
          /\ e.asked = run.asked /\ e.untold = run.untold
      BY <1>2 DEF RunState
    <3> HIDE DEF e
    <3>2. GoodRun(e)
      BY <1>2, <2>1, <3>1 DEF GoodRun, InLoop, Settled, Counted, AskIsPut
    <3> QED
      BY <3>2 DEF e
  <2> QED
    BY <1>8, <2>2, <2>3 DEF TurnDone, Becomes
<1> QED
  BY <1>4, <1>5, <1>6, <1>7, <1>8

\* What the service layer makes of a call: the rows keep their type, and the call is
\* told as done when it was carried out, and only then.
LEMMA EffectTold ==
  ASSUME RowsTyped, NEW call \in Call, NEW effect \in Effects(call)
  PROVE  /\ effect.rows \in [Row -> RowState]
         /\ effect.came \in Came
         /\ effect.rows # row => effect.came = "result" /\ call.tool \notin ReadTools
<1>1. call.tool \in Tool /\ call.on \in Row
  BY DEF Call
<1>2. row[call.on] \in RowState /\ row[call.on].at \in Nat /\ row[call.on].live \in BOOLEAN
  BY <1>1 DEF RowsTyped, RowState
<1>3. CASE call.tool = "unknown"
  BY <1>3 DEF Effects, RowsTyped, Came
<1>4. CASE call.tool # "unknown" /\ ~row[call.on].live
  BY <1>4 DEF Effects, RowsTyped, Came
<1>5. CASE call.tool \in ReadTools /\ row[call.on].live
  BY <1>5 DEF Effects, RowsTyped, Came, ReadTools
<1>6. CASE call.tool = "edit" /\ row[call.on].live
  <2>1. PICK rows \in {row, [row EXCEPT ![call.on].at = @ + 1]} :
          effect = [rows |-> rows, came |-> "result"]
    BY <1>6 DEF Effects, ReadTools
  <2>2. rows \in [Row -> RowState]
    BY <1>1, <1>2, <2>1 DEF RowsTyped, RowState
  <2> QED
    BY <1>6, <2>1, <2>2 DEF Came, ReadTools
<1>7. CASE call.tool = "trash" /\ row[call.on].live
  <2> DEFINE after == [row EXCEPT ![call.on] = [live |-> FALSE, at |-> @.at + 1]]
  <2>1. effect = [rows |-> after, came |-> "result"]
    BY <1>7 DEF Effects, ReadTools
  <2>2. after \in [Row -> RowState]
    BY <1>1, <1>2 DEF RowsTyped, RowState
  <2> HIDE DEF after
  <2> QED
    BY <1>7, <2>1, <2>2 DEF Came, ReadTools
<1> QED
  BY <1>1, <1>3, <1>4, <1>5, <1>6, <1>7 DEF Tool, ReadTools

\* One more record, and what it tells of: the record is as true as it was.
LEMMA LandedTold ==
  ASSUME RowsTyped, run \in RunState, Truthful(run.records, run.landed),
         NEW call \in Call, NEW effect \in Effects(call)
  PROVE  /\ Truthful(Append(run.records, Record(call, effect.came)), LandedAfter(call, effect))
         /\ LandedAfter(call, effect) \in Seq(LandedCall)
<1> DEFINE rec == Record(call, effect.came)
           landed == [tool |-> call.tool, on |-> call.on, wrote |-> effect.rows # row]
<1>1. effect.came \in Came /\ (effect.rows # row => effect.came = "result" /\ call.tool \notin ReadTools)
  BY EffectTold
<1>2. rec \in CallRecord /\ rec.came = effect.came /\ rec.tool = call.tool /\ rec.on = call.on
  BY <1>1, RecordTyped
<1>3. landed \in LandedCall /\ landed.tool = call.tool /\ landed.on = call.on
  BY DEF Call, LandedCall
<1>4. run.records \in Seq(CallRecord) /\ run.landed \in Seq(LandedCall)
  BY DEF RunState
<1>5. LandedAfter(call, effect) =
        IF effect.came # "result" \/ call.tool \in ReadTools THEN run.landed
        ELSE Append(run.landed, landed)
  BY <1>1 DEF LandedAfter
<1>6. Classify(rec) = "done" <=> effect.came = "result" /\ call.tool \notin ReadTools
  BY <1>1, <1>2 DEF Classify, Landed, Came
<1> HIDE DEF rec, landed
<1>7. CASE Classify(rec) = "done"
  <2>1. Truthful(Append(run.records, rec), Append(run.landed, landed))
    BY <1>2, <1>3, <1>4, <1>7, DoneAdded
  <2> QED
    BY <1>3, <1>4, <1>5, <1>6, <1>7, <2>1, AppendProperties DEF rec
<1>8. CASE Classify(rec) # "done"
  BY <1>2, <1>4, <1>5, <1>6, <1>8, NothingDoneTold DEF rec
<1> QED
  BY <1>7, <1>8

LEMMA CallCrashesGood ==
  ASSUME RowsTyped, GoodRun(run), CallCrashes
  PROVE  GoodRun(run') /\ row' \in [Row -> RowState]
<1> DEFINE rec == Record(Head(run.left), "crashed")
           r == Answered(run, rec)
           n == Len(run.records) + 1
<1>1. run \in RunState /\ Counted(run) /\ run.asked = {} /\ run.left # <<>>
  BY InBatch DEF CallCrashes
<1>2. Head(run.left) \in Call
  BY <1>1, HeadTailProperties DEF RunState
<1>3. rec \in CallRecord /\ Classify(rec) # "done" /\ rec.came = "crashed"
  BY <1>2, RecordTyped DEF Came, Classify, Landed
<1>4. PICK rows \in {row} \cup {effect.rows : effect \in Effects(Head(run.left))} :
        /\ row' = rows
        /\ run' = Ended([SkipRemaining(r) EXCEPT !.untold = IF rows = row THEN None ELSE "call"],
                        "internal_error", None)
  BY DEF CallCrashes
<1>5. rows \in [Row -> RowState]
  BY <1>2, <1>4, EffectTold DEF RowsTyped
<1> HIDE DEF rec
<1>6. /\ r \in RunState /\ r.asked = {} /\ r.calls = r.answers + Len(r.left)
      /\ r.records = Append(run.records, rec) /\ r.landed = run.landed /\ r.untold = None
  BY <1>1, <1>3, AnsweredTyped DEF Counted
<1> HIDE DEF r
<1>7. /\ run.records \in Seq(CallRecord) /\ run.landed \in Seq(LandedCall)
      /\ Truthful(run.records, run.landed)
  BY <1>1 DEF Counted, RunState
<1>8. Counted(r)
  <2>1. Truthful(Append(run.records, rec), run.landed)
    BY <1>3, <1>7, NothingDoneTold
  <2> QED
    BY <1>6, <2>1 DEF Counted
<1>9. n \in DOMAIN r.records /\ r.records[n] = rec
  BY <1>3, <1>6, <1>7, AppendProperties, LenProperties
<1> DEFINE s == SkipRemaining(r)
           e == [s EXCEPT !.untold = IF rows = row THEN None ELSE "call"]
<1>10. s \in RunState /\ Settled(s) /\ s.asked = {} /\ n \in DOMAIN s.records /\ s.records[n] = rec
  BY <1>6, <1>8, <1>9, SkipRemainingSettles
<1> HIDE DEF s, n
<1>11. /\ e \in RunState /\ e.records = s.records /\ e.landed = s.landed /\ e.calls = s.calls
       /\ e.answers = s.answers /\ e.left = s.left /\ e.asked = s.asked
       /\ e.untold = IF rows = row THEN None ELSE "call"
  BY <1>10 DEF RunState
<1> HIDE DEF e
<1>12. run' = Ended(e, "internal_error", None)
  BY <1>4 DEF e, s
<1>13. CASE rows = row
  <2>1. Settled(e)
    BY <1>10, <1>11, <1>13 DEF Settled, Counted
  <2> QED
    BY <1>4, <1>5, <1>10, <1>11, <1>12, <2>1, EndedGood DEF Reasons
<1>14. CASE rows # row
  <2>1. /\ run' \in RunState /\ run'.pc = "ended" /\ run'.calls = e.calls /\ run'.answers = e.answers
        /\ run'.asked = e.asked /\ run'.untold = "call" /\ run'.records = e.records
        /\ run'.landed = e.landed
    BY <1>11, <1>12, <1>14 DEF Ended, RunState, Reasons
  <2>2. e.calls = e.answers /\ Truthful(e.records, e.landed)
    BY <1>10, <1>11 DEF Settled, Counted, RunState
  <2> QED
    BY <1>3, <1>4, <1>5, <1>10, <1>11, <2>1, <2>2 DEF GoodRun, Untold
<1> QED
  BY <1>13, <1>14

LEMMA CallReturnsGood ==
  ASSUME RowsTyped, GoodRun(run), CallReturns
  PROVE  GoodRun(run') /\ row' \in [Row -> RowState]
<1> DEFINE call == Head(run.left)
<1>1. run \in RunState /\ Counted(run) /\ run.asked = {} /\ run.left # <<>>
  BY InBatch DEF CallReturns
<1>2. call \in Call
  BY <1>1, HeadTailProperties DEF RunState
<1>3. PICK effect \in Effects(call) : row' = effect.rows /\ run' = AfterCall(call, effect)
  BY DEF CallReturns
<1> DEFINE rec == Record(call, effect.came)
           answered == Answered(run, rec)
           landed == LandedAfter(call, effect)
           seen == run.seen \cup {Exchange(call, effect)}
           progressed == run.progressed \/ Exchange(call, effect) \notin run.seen
           malformed == run.malformed \/ effect.came = "invalid"
           r == [answered EXCEPT !.pc = "batch", !.progressed = progressed, !.seen = seen,
                                 !.malformed = malformed, !.landed = landed]
<1>4. effect.rows \in [Row -> RowState] /\ effect.came \in Came
  BY <1>2, EffectTold
<1>5. rec \in CallRecord
  BY <1>2, <1>4, RecordTyped
<1>6. Exchange(call, effect) \in Call \X Came \X RowState
  BY <1>2, <1>4 DEF Exchange, Call
<1>7. AfterCall(call, effect) =
        IF IsAsk(rec)
        THEN Narrated([SkipRemaining(r) EXCEPT !.asked = CandidatesOf(call.on)], "completed")
        ELSE r
  <2>1. /\ answered.progressed = run.progressed /\ answered.seen = run.seen
        /\ answered.malformed = run.malformed /\ answered \in RunState
    BY <1>1, <1>5, AnsweredTyped
  <2> HIDE DEF answered, rec, call
  <2> QED
    BY <2>1 DEF AfterCall, rec, answered, RunState
<1>8. /\ answered \in RunState /\ answered.calls = answered.answers + Len(answered.left)
      /\ answered.records = Append(run.records, rec) /\ answered.asked = {}
      /\ answered.untold = None
  BY <1>1, <1>5, AnsweredTyped DEF Counted
<1>9. /\ run.seen \subseteq Call \X Came \X RowState
      /\ run.progressed \in BOOLEAN /\ run.malformed \in BOOLEAN
      /\ Truthful(run.records, run.landed)
  BY <1>1 DEF RunState, Counted
<1>10. Truthful(Append(run.records, rec), landed) /\ landed \in Seq(LandedCall)
  BY <1>1, <1>2, <1>9, LandedTold
<1> HIDE DEF rec, answered, call, landed
<1>11. seen \subseteq Call \X Came \X RowState /\ progressed \in BOOLEAN /\ malformed \in BOOLEAN
  BY <1>6, <1>9
<1> HIDE DEF seen, progressed, malformed
<1>12. /\ r \in RunState /\ r.left = answered.left /\ r.calls = answered.calls
       /\ r.answers = answered.answers /\ r.records = Append(run.records, rec)
       /\ r.landed = landed /\ r.asked = {} /\ r.pc = "batch" /\ r.untold = None
  <2>1. answered \in RunState
    BY <1>8
  <2>2. r \in RunState
    BY <1>10, <1>11, <2>1 DEF RunState
  <2>3. /\ r.left = answered.left /\ r.calls = answered.calls /\ r.answers = answered.answers
        /\ r.records = answered.records /\ r.landed = landed /\ r.asked = answered.asked
        /\ r.pc = "batch" /\ r.untold = answered.untold
    BY <2>1 DEF RunState
  <2> HIDE DEF r
  <2> QED
    BY <1>8, <2>2, <2>3
<1> HIDE DEF r
<1>13. Counted(r)
  BY <1>8, <1>10, <1>12 DEF Counted
<1>14. CASE ~IsAsk(rec)
  BY <1>3, <1>4, <1>7, <1>12, <1>13, <1>14 DEF GoodRun, InLoop, AskIsPut
<1>15. CASE IsAsk(rec)
  <2> DEFINE s == SkipRemaining(r)
             a == [s EXCEPT !.asked = CandidatesOf(call.on)]
  <2>1. s \in RunState /\ Settled(s)
    BY <1>12, <1>13, SkipRemainingSettles
  <2>2. CandidatesOf(call.on) \in SUBSET Candidate
    BY <1>2 DEF CandidatesOf, Shown, Candidate, RowsTyped, RowState, Call
  <2> HIDE DEF s
  <2>3. /\ a \in RunState /\ a.left = s.left /\ a.calls = s.calls /\ a.answers = s.answers
        /\ a.records = s.records /\ a.landed = s.landed /\ a.untold = s.untold
    BY <2>1, <2>2 DEF RunState
  <2>4. Settled(a)
    BY <2>1, <2>3 DEF Settled, Counted
  <2>5. run' = Narrated(a, "completed")
    BY <1>3, <1>7, <1>15 DEF s
  <2> HIDE DEF a
  <2> QED
    BY <1>3, <1>4, <2>3, <2>4, <2>5, NarratedGood DEF Reasons
<1> QED
  BY <1>14, <1>15

-----------------------------------------------------------------------------
(* A confirmed call *)

LEMMA RedeemGood ==
  ASSUME pending \in Candidate \cup {None}, Redeem
  PROVE  GoodRun(run')
<1> DEFINE yes == <<[tool |-> "trash", on |-> pending.id]>>
<1>1. pending \in Candidate
  BY DEF Redeem
<1>2. yes \in Seq(Call) /\ yes # <<>>
  BY <1>1 DEF Candidate, Call, Tool
<1>3. run' = [NoRun EXCEPT !.pc = "confirmed", !.left = yes]
  BY DEF Redeem
<1> HIDE DEF yes
<1>4. /\ run' \in RunState /\ run'.pc = "confirmed" /\ run'.left = yes /\ run'.calls = 0
      /\ run'.answers = 0 /\ run'.records = <<>> /\ run'.landed = <<>> /\ run'.asked = {}
      /\ run'.untold = None
  BY <1>2, <1>3, NoRunTyped DEF RunState
<1> QED
  BY <1>2, <1>4 DEF GoodRun, Confirming

LEMMA ConfirmedGood ==
  ASSUME RowsTyped, GoodRun(run), ConfirmedReturns \/ ConfirmedCrashes
  PROVE  GoodRun(run') /\ row' \in [Row -> RowState]
<1> DEFINE call == Head(run.left)
<1>1. Confirming(run)
  BY DEF GoodRun, InLoop, Untold, ConfirmedReturns, ConfirmedCrashes
<1>2. run \in RunState /\ run.records = <<>> /\ run.landed = <<>> /\ run.asked = {}
  BY <1>1 DEF Confirming
<1>3. call \in Call
  BY <1>1, HeadTailProperties DEF Confirming, RunState
<1>4. CASE ConfirmedReturns
  <2>1. PICK effect \in Effects(call) :
          /\ row' = effect.rows
          /\ run' = Ended([run EXCEPT !.records = <<Record(call, effect.came)>>, !.left = <<>>,
                                      !.landed = LandedAfter(call, effect)], "completed", "note")
    BY <1>4 DEF ConfirmedReturns
  <2> DEFINE rec == Record(call, effect.came)
             landed == LandedAfter(call, effect)
             r == [run EXCEPT !.records = <<rec>>, !.left = <<>>, !.landed = landed]
  <2>2. effect.rows \in [Row -> RowState] /\ rec \in CallRecord
    BY <1>3, EffectTold, RecordTyped
  <2>3. Truthful(Append(run.records, rec), landed) /\ landed \in Seq(LandedCall)
    BY <1>2, <1>3, EmptyIsTrue, LandedTold
  <2> HIDE DEF rec, landed
  <2>4. Append(run.records, rec) = <<rec>> /\ <<rec>> \in Seq(CallRecord) /\ <<>> \in Seq(Call)
    BY <1>2, <2>2
  <2>5. /\ r \in RunState /\ r.records = <<rec>> /\ r.landed = landed /\ r.left = <<>> /\ r.asked = {}
        /\ r.calls = 0 /\ r.answers = 0 /\ r.untold = None
    BY <1>1, <1>2, <2>3, <2>4 DEF RunState, Confirming
  <2>6. run' = Ended(r, "completed", "note")
    BY <2>1 DEF rec, landed
  <2> HIDE DEF r
  <2>7. Settled(r)
    BY <2>3, <2>4, <2>5 DEF Settled, Counted
  <2> QED
    BY <2>1, <2>2, <2>5, <2>6, <2>7, EndedGood DEF Reasons, Replies
<1>5. CASE ConfirmedCrashes
  <2>1. row' \in [Row -> RowState]
    BY <1>3, <1>5, EffectTold DEF ConfirmedCrashes, RowsTyped
  <2> QED
    BY <1>5, <2>1, NoRunGood DEF ConfirmedCrashes
<1> QED
  BY <1>4, <1>5

-----------------------------------------------------------------------------
(* What is stored of a run, and the invariant *)

Stored == Seq([asked : SUBSET Candidate, done : BOOLEAN])

\* The window keeps the newest turns in their places.
LEMMA FitHistoryKeepsNewest ==
  ASSUME NEW turns \in Stored, Len(turns) > 0
  PROVE  /\ FitHistory(turns) \in Stored
         /\ \E d \in {0, 1} :
              /\ Len(FitHistory(turns)) = Len(turns) - d
              /\ \A i \in 1..(Len(turns) - d) : FitHistory(turns)[i] = turns[i + d]
<1>1. CASE FitHistory(turns) = turns
  <2>1. \A i \in 1..(Len(turns) - 0) : turns[i] = turns[i + 0]
    BY LenProperties DEF Stored
  <2> QED
    BY <1>1, <2>1 DEF Stored
<1>2. CASE FitHistory(turns) = Tail(turns)
  <2>1. Tail(turns) \in Stored /\ Len(Tail(turns)) = Len(turns) - 1
        /\ \A i \in 1..(Len(turns) - 1) : Tail(turns)[i] = turns[i + 1]
    BY DEF Stored
  <2> QED
    BY <1>2, <2>1
<1> QED
  BY <1>1, <1>2 DEF FitHistory

LEMMA StoreKept ==
  ASSUME IInv, Store
  PROVE  IInv'
<1> DEFINE done == \E i \in DOMAIN run.records : Classify(run.records[i]) = "done"
           stored == [asked |-> run.asked, done |-> done]
           turns == Append(history, stored)
           n == Len(history) + 1
<1>1. run \in RunState
  BY DEF IInv, GoodRun, InLoop, Counted, Untold, Confirming
<1>2. WroteOnRecord => done
  <2> SUFFICES ASSUME WroteOnRecord PROVE done
    OBVIOUS
  <2>1. Truthful(run.records, run.landed) /\ run.landed # <<>>
    BY DEF WroteOnRecord, IInv, GoodRun, InLoop, Counted, Untold, Confirming, Store
  <2> QED
    BY <1>1, <2>1, DoneMeansLanded DEF RunState
<1>3. stored \in [asked : SUBSET Candidate, done : BOOLEAN]
  BY <1>1 DEF RunState
<1>4. history \in Stored /\ Len(history) \in Nat
  BY LenProperties DEF IInv, Stored
<1>5. /\ history' = FitHistory(turns) /\ run' = NoRun /\ row' = row /\ pending' = pending
      /\ open' = IF run.asked # {} THEN [put |-> run.reply # None, moved |-> FALSE]
                 ELSE [open EXCEPT !.moved = @ \/ WroteOnRecord]
  BY DEF Store
<1>6. /\ run.asked # {} => run.reply # None
  BY DEF IInv, GoodRun, InLoop, Untold, Confirming, AskIsPut, Store
<1>7. stored.asked = run.asked /\ stored.done = done
  OBVIOUS
<1>8. open \in [put : BOOLEAN, moved : BOOLEAN]
  BY DEF IInv
<1> HIDE DEF done, stored
<1>9. /\ turns \in Stored /\ Len(turns) = n /\ turns[n] = stored
      /\ \A i \in 1..Len(history) : turns[i] = history[i]
  BY <1>3, <1>4, AppendProperties DEF Stored
<1> HIDE DEF turns
<1>10. PICK d \in {0, 1} :
         /\ Len(history') = n - d
         /\ \A i \in 1..(n - d) : history'[i] = turns[i + d]
  BY <1>4, <1>5, <1>9, FitHistoryKeepsNewest
<1>11. history' \in Stored
  BY <1>4, <1>5, <1>9, FitHistoryKeepsNewest
<1>12. DOMAIN history' = 1..(n - d) /\ DOMAIN history = 1..Len(history)
  BY <1>4, <1>10, <1>11, LenProperties DEF Stored
<1>13. open' \in [put : BOOLEAN, moved : BOOLEAN]
  BY <1>5, <1>8
<1>14. ASSUME NEW i \in DOMAIN history', history'[i].asked # {},
              \A j \in DOMAIN history' : j > i => history'[j].asked = {}
       PROVE  open'.put /\ (open'.moved => \E j \in DOMAIN history' : j > i /\ history'[j].done)
  <2>1. i \in 1..(n - d) /\ history'[i] = turns[i + d]
    BY <1>10, <1>12, <1>14
  <2>2. CASE i = n - d
    <3>1. history'[i] = stored
      BY <1>4, <1>9, <2>1, <2>2
    <3> QED
      BY <1>5, <1>6, <1>7, <1>14, <3>1
  <2>3. CASE i # n - d
    <3>1. n - d \in DOMAIN history' /\ n - d > i /\ history'[n - d] = stored
      BY <1>4, <1>9, <1>10, <1>12, <2>1, <2>3
    <3>2. run.asked = {}
      BY <1>7, <1>14, <3>1
    <3>3. i + d \in DOMAIN history /\ history'[i] = history[i + d]
      BY <1>4, <1>9, <1>12, <2>1, <2>3
    <3>4. ASSUME NEW j \in DOMAIN history, j > i + d
          PROVE  j - d \in DOMAIN history' /\ j - d > i /\ history'[j - d] = history[j]
      <4>1. j - d \in 1..(n - d) /\ j - d > i /\ (j - d) + d = j /\ j \in 1..Len(history)
        BY <1>4, <1>12, <2>1, <3>4
      <4> QED
        BY <1>9, <1>10, <1>12, <4>1
    <3>5. /\ history[i + d].asked # {}
          /\ \A j \in DOMAIN history : j > i + d => history[j].asked = {}
      BY <1>14, <3>3, <3>4
    <3>6. open.put /\ (open.moved => \E j \in DOMAIN history : j > i + d /\ history[j].done)
      BY <3>3, <3>5 DEF IInv, OpenIsTold
    <3>7. CASE WroteOnRecord
      BY <1>2, <1>5, <1>7, <1>8, <3>1, <3>2, <3>6, <3>7
    <3>8. CASE ~WroteOnRecord
      <4>1. open' = open
        BY <1>5, <1>8, <3>2, <3>8
      <4> QED
        BY <3>4, <3>6, <4>1
    <3> QED
      BY <3>7, <3>8
  <2> QED
    BY <2>2, <2>3
<1>15. OpenIsTold'
  BY <1>14 DEF OpenIsTold
<1> QED
  BY <1>5, <1>11, <1>13, <1>15, NoRunGood DEF IInv, Stored

LEMMA InitIInv == Init => IInv
<1> SUFFICES ASSUME Init
             PROVE  IInv
  OBVIOUS
<1>1. row \in [Row -> RowState]
  BY DEF Init, RowState
<1>2. history = <<>> /\ run = NoRun /\ open = [put |-> FALSE, moved |-> FALSE] /\ pending = None
  BY DEF Init
<1> QED
  BY <1>1, <1>2, NoRunGood DEF IInv, OpenIsTold

\* One step of anybody.
LEMMA StepIInv == IInv /\ [Next]_vars => IInv'
<1> SUFFICES ASSUME IInv, [Next]_vars
             PROVE  IInv'
  OBVIOUS
<1>0. /\ RowsTyped /\ GoodRun(run) /\ row \in [Row -> RowState]
      /\ history \in Seq([asked : SUBSET Candidate, done : BOOLEAN])
      /\ open \in [put : BOOLEAN, moved : BOOLEAN] /\ OpenIsTold
      /\ pending \in Candidate \cup {None}
  BY DEF IInv, RowsTyped
<1>a. ASSUME GoodRun(run'), row' \in [Row -> RowState], UNCHANGED <<history, open>>,
             pending' \in {pending, None} \/ pending' \in Candidate
      PROVE  IInv'
  BY <1>0, <1>a DEF IInv, OpenIsTold
<1>1. ASSUME NEW delegate \in BOOLEAN, Start(delegate)
      PROVE  IInv'
  <2>1. GoodRun(run')
    BY <1>0, <1>1, StartGood
  <2>2. pending' \in {pending, None} /\ UNCHANGED <<row, history, open>>
    BY <1>1 DEF Start
  <2> QED
    BY <1>0, <1>a, <2>1, <2>2
<1>2. CASE \/ OutOfTurns \/ CancelledBeforeTurn \/ LateBeforeTurn
           \/ BadArguments \/ ProviderFails \/ TurnTruncated \/ FinalText \/ Narration
  <2>1. GoodRun(run')
    BY <1>0, <1>2, TurnsGood
  <2>2. UNCHANGED <<row, history, pending, open>>
    BY <1>2 DEF OutOfTurns, CancelledBeforeTurn, LateBeforeTurn, BadArguments, ProviderFails,
                TurnTruncated, FinalText, Narration, Becomes
  <2> QED
    BY <1>0, <1>a, <2>1, <2>2
<1>3. ASSUME NEW batch \in Batches, Propose(batch)
      PROVE  IInv'
  <2>1. GoodRun(run')
    BY <1>0, <1>3, ProposeGood
  <2> QED
    BY <1>0, <1>3, <1>a, <2>1 DEF Propose, Becomes
<1>4. CASE CallProvider \/ StartCall \/ Stop \/ DeadlinePasses
  <2>1. GoodRun(run')
    BY <1>0, <1>4, MarksGood
  <2> QED
    BY <1>0, <1>4, <1>a, <2>1 DEF CallProvider, StartCall, Stop, DeadlinePasses, Becomes
<1>5. CASE CancelledInBatch \/ LateInBatch \/ OverCap \/ ConfirmFirst \/ TurnDone
  <2>1. GoodRun(run')
    BY <1>0, <1>5, BatchGood
  <2>2. CASE ConfirmFirst
    <3>1. run \in RunState /\ run.left # <<>>
      BY <1>0, <2>2, InBatch DEF ConfirmFirst, Allowed, NextCall
    <3>2. Head(run.left) \in Call
      BY <3>1, HeadTailProperties DEF RunState
    <3>3. Shown(Head(run.left).on) \in Candidate
      BY <1>0, <3>2 DEF Shown, Candidate, Call, RowState
    <3> QED
      BY <1>0, <1>a, <2>1, <2>2, <3>3 DEF ConfirmFirst
  <2>3. CASE ~ConfirmFirst
    BY <1>0, <1>5, <1>a, <2>1, <2>3
       DEF CancelledInBatch, LateInBatch, OverCap, TurnDone, Becomes
  <2> QED
    BY <2>2, <2>3
<1>6. CASE CallCrashes
  <2>1. GoodRun(run') /\ row' \in [Row -> RowState]
    BY <1>0, <1>6, CallCrashesGood
  <2> QED
    BY <1>6, <1>a, <2>1 DEF CallCrashes
<1>7. CASE CallReturns
  <2>1. GoodRun(run') /\ row' \in [Row -> RowState]
    BY <1>0, <1>7, CallReturnsGood
  <2> QED
    BY <1>7, <1>a, <2>1 DEF CallReturns
<1>8. CASE Store
  BY <1>8, StoreKept
<1>9. CASE ProcessDies
  BY <1>0, <1>9, <1>a, NoRunGood DEF ProcessDies
<1>10. ASSUME NEW x \in Row, WrittenElsewhere(x)
       PROVE  IInv'
  <2>1. row' \in [Row -> RowState]
    BY <1>0, <1>10 DEF WrittenElsewhere, RowState
  <2> QED
    BY <1>0, <1>10, <1>a, <2>1 DEF WrittenElsewhere
<1>11. CASE UNCHANGED vars
  BY <1>0, <1>11, <1>a DEF vars
<1>12. CASE GateCrashes
  <2>1. GoodRun(run')
    BY <1>0, <1>12, GateCrashesGood
  <2> QED
    BY <1>0, <1>12, <1>a, <2>1 DEF GateCrashes, Becomes
<1>13. CASE Redeem
  <2>1. GoodRun(run')
    BY <1>0, <1>13, RedeemGood
  <2> QED
    BY <1>0, <1>13, <1>a, <2>1 DEF Redeem
<1>14. CASE ConfirmedReturns \/ ConfirmedCrashes
  <2>1. GoodRun(run') /\ row' \in [Row -> RowState]
    BY <1>0, <1>14, ConfirmedGood
  <2> QED
    BY <1>14, <1>a, <2>1 DEF ConfirmedReturns, ConfirmedCrashes
<1>15. CASE Lapse
  BY <1>0, <1>15, <1>a DEF Lapse
<1> QED
  BY <1>1, <1>2, <1>3, <1>4, <1>5, <1>6, <1>7, <1>8, <1>9, <1>10, <1>11, <1>12, <1>13, <1>14, <1>15,
     Zenon DEF Next, LoopStep

-----------------------------------------------------------------------------
(* The results on runs *)

THEOREM Invariant == Spec => []IInv
<1> QED
  BY InitIInv, StepIInv, PTL DEF Spec

\* At every end of a turn, and before the provider is asked again, each call has one
\* answer: Stop, the deadline, the cap, the gate and a crash of a call answer the rest.
THEOREM AnsweredOnce == Spec => []EveryCallAnsweredOnce
<1>1. IInv => EveryCallAnsweredOnce
  <2> SUFFICES ASSUME IInv, run.pc \in {"turn", "narrating", "ended"}
               PROVE  run.calls = run.answers
    BY DEF EveryCallAnsweredOnce
  <2>1. CASE Untold(run)
    BY <2>1 DEF Untold
  <2>2. CASE InLoop(run)
    <3>1. run.left = <<>> /\ run.calls = run.answers + Len(run.left) /\ run.answers \in Nat
      BY <2>2 DEF InLoop, Counted, RunState
    <3> QED
      BY <3>1
  <2> QED
    BY <2>1, <2>2 DEF IInv, GoodRun, Confirming
<1> QED
  BY <1>1, Invariant, PTL

\* What the record counts as done is what was carried out, call by call and in order;
\* what it cannot tell of it marks as crashed, unless the gate has raised.
THEOREM RecordTrue == Spec => []RecordIsTrue
<1>1. IInv => RecordIsTrue
  <2> SUFFICES ASSUME IInv
               PROVE  RecordIsTrue
    OBVIOUS
  <2>1. None \notin {"run", "call"} \/ run.untold # None \/ run.untold \in {"run", "call"}
    OBVIOUS
  <2>2. CASE run.untold = "run" /\ run.records = <<>>
    BY <2>2 DEF RecordIsTrue
  <2>3. CASE /\ run.untold # "run" /\ Truthful(run.records, run.landed)
             /\ run.untold = "call" => \E i \in DOMAIN run.records : run.records[i].came = "crashed"
    <3>1. PICK at : Matches(at, run.records, run.landed)
      BY <2>3 DEF Truthful
    <3> QED
      BY <2>3, <3>1, Zenon DEF Matches, Done, RecordIsTrue
  <2>4. CASE InLoop(run)
    BY <2>3, <2>4, RunBounds DEF InLoop, Counted
  <2>5. CASE Untold(run)
    BY <2>2, <2>3, <2>5 DEF Untold
  <2>6. CASE Confirming(run)
    BY <2>3, <2>6, EmptyIsTrue, RunBounds DEF Confirming
  <2> QED
    BY <2>4, <2>5, <2>6 DEF IInv, GoodRun
<1> QED
  BY <1>1, Invariant, PTL

\* A run opens with a question only while the user has it to answer.
THEOREM OpensWhatIsOpen == Spec => QuestionIsOpen
<1>1. ASSUME IInv, [Next]_vars, run.pc = "idle", run'.question # {}
      PROVE  open.put /\ ~open.moved /\ \A c \in run'.question : Stands(c)
  <2>1. run = NoRun /\ run.question = {}
    BY <1>1, NoRunTyped DEF IInv, GoodRun, InLoop, Untold, Confirming
  <2>2. \/ \E delegate \in BOOLEAN : Start(delegate)
        \/ Redeem
    <3>1. run' # run
      BY <1>1, <2>1
    <3> QED
      BY <1>1, <2>1, <3>1, Zenon
         DEF Next, LoopStep, vars, OutOfTurns, CancelledBeforeTurn, LateBeforeTurn, MoreTurns,
             CallProvider, BadArguments, ProviderFails, TurnTruncated, FinalText, Propose,
             CancelledInBatch, LateInBatch, OverCap, ConfirmFirst, GateCrashes, NextCall, Allowed,
             StartCall, CallReturns, CallCrashes, TurnDone, Narration, Store, ConfirmedReturns,
             ConfirmedCrashes, Stop, DeadlinePasses, Running, ProcessDies, Lapse, WrittenElsewhere
  <2>3a. ~Redeem
    BY <1>1 DEF Redeem, NoRun
  <2>3b. PICK delegate \in BOOLEAN : Start(delegate)
    BY <2>2, <2>3a
  <2>3. PICK question \in StillOpen(FromHistory(history)) :
          run' = [NoRun EXCEPT !.pc = "turn", !.delegate = delegate, !.question = question,
                               !.answered = IF delegate THEN pending ELSE None]
    BY <2>3b DEF Start
  <2>4. run'.question = question
    BY <2>3 DEF NoRun
  <2>5. question = FromHistory(history) /\ \A c \in question : Stands(c)
    BY <1>1, <2>4 DEF StillOpen
  <2>6. PICK i \in DOMAIN history :
          /\ FromHistory(history) = history[i].asked
          /\ \A j \in DOMAIN history : j > i => history[j].asked = {} /\ ~history[j].done
    BY <1>1, <2>4, <2>5, NewestAsk DEF IInv
  <2>7. open.put /\ ~open.moved
    BY <1>1, <2>4, <2>5, <2>6 DEF IInv, OpenIsTold
  <2> QED
    BY <2>4, <2>5, <2>7
<1>2. IInv /\ [Next]_vars
        => [run.pc = "idle" /\ run'.question # {} =>
              open.put /\ ~open.moved /\ \A c \in run'.question : Stands(c)]_vars
  BY <1>1
<1> QED
  BY <1>2, Invariant, PTL DEF Spec, QuestionIsOpen

-----------------------------------------------------------------------------
(* The gather and its cache: whoever replaces the cache, from whatever        *)
(* snapshot, puts vectors of one name under that name (Held), so a snapshot   *)
(* whose name and lengths fit the query's holds nothing else                  *)

Names == {make.name : make \in Make} \cup {Unnamed}

\* Vectors by key, all made under the name they are filed under.
Vectors == UNION {[docs -> Make] : docs \in SUBSET Key}

Held ==
  {c \in [model : Names, vectors : Vectors] :
     \A key \in DOMAIN c.vectors : c.vectors[key].name = c.model}

GatherState ==
  [pc : {"idle", "read", "compare"}, docs : SUBSET Key, seen : Held,
   compared : SUBSET Make, by : Make \cup {Down}]

WarmState ==
  [pc : {"idle", "read", "embed", "replace", "save"}, docs : SUBSET Key, seen : Held,
   made : Make \cup {Down}]

GInv ==
  /\ corpus \subseteq Key /\ service \in Make \cup {Down}
  /\ cache \in Held /\ file \in Held
  /\ gathering \in [Gatherer -> GatherState]
  /\ warming \in WarmState
  /\ OneModelCompared

-----------------------------------------------------------------------------
(* What the cache holds *)

LEMMA EmptyHeld == Empty \in Held
<1>1. NoVectors \in [{} -> Make] /\ DOMAIN NoVectors = {}
  BY DEF NoVectors
<1>2. NoVectors \in Vectors
  BY <1>1 DEF Vectors
<1> QED
  BY <1>1, <1>2 DEF Empty, Held, Names

LEMMA HeldVectors ==
  ASSUME NEW c \in Held
  PROVE  /\ DOMAIN c.vectors \subseteq Key
         /\ \A key \in DOMAIN c.vectors : c.vectors[key] \in Make /\ c.vectors[key].name = c.model
<1>1. PICK docs \in SUBSET Key : c.vectors \in [docs -> Make]
  BY DEF Held, Vectors
<1> QED
  BY <1>1 DEF Held

LEMMA NoGatherTyped == NoGather \in GatherState /\ NoGather.compared = {}
BY EmptyHeld DEF NoGather, GatherState

LEMMA NoWarmTyped == NoWarm \in WarmState
BY EmptyHeld DEF NoWarm, WarmState

\* What a thread puts in the cache was made under the name it is put under.
LEMMA WarmedHeld ==
  ASSUME NEW w \in WarmState
  PROVE  Warmed(w) \in Held
<1> DEFINE kept == IF w.made # Down /\ w.made.name # w.seen.model THEN {} ELSE DOMAIN w.seen.vectors
           made == IF w.made = Down THEN {} ELSE w.docs \ DOMAIN w.seen.vectors
           docs == w.docs \cap (kept \cup made)
           vectors == [key \in docs |-> IF key \in made THEN w.made ELSE w.seen.vectors[key]]
           model == IF w.made = Down THEN w.seen.model ELSE w.made.name
<1>1. w.seen \in Held /\ w.docs \subseteq Key /\ w.made \in Make \cup {Down}
  BY DEF WarmState
<1>2. Warmed(w) = [model |-> model, vectors |-> vectors]
  BY DEF Warmed
<1>3. model \in Names
  BY <1>1 DEF Names, Held
<1>4. ASSUME NEW key \in docs
      PROVE  vectors[key] \in Make /\ vectors[key].name = model
  <2>1. CASE key \in made
    BY <1>1, <2>1
  <2>2. CASE key \notin made
    <3>1. key \in DOMAIN w.seen.vectors /\ (w.made # Down => w.made.name = w.seen.model)
      BY <1>4, <2>2
    <3> QED
      BY <1>1, <1>4, <2>2, <3>1, HeldVectors
  <2> QED
    BY <2>1, <2>2
<1>5. docs \in SUBSET Key
  BY <1>1
<1> HIDE DEF model
<1>6. vectors \in [docs -> Make] /\ DOMAIN vectors = docs
  BY <1>4
<1>7. vectors \in Vectors
  <2> HIDE DEF vectors, docs
  <2> QED
    BY <1>5, <1>6 DEF Vectors
<1>8. \A key \in DOMAIN vectors : vectors[key].name = model
  BY <1>4, <1>6
<1> HIDE DEF vectors
<1> QED
  BY <1>2, <1>3, <1>7, <1>8 DEF Held

\* Vectors of one name, as long as the query's, are of the query's make.
LEMMA SameMake ==
  ASSUME NEW a \in Make, NEW b \in Make, a.name = b.name, a.length = b.length
  PROVE  a = b
<1>1. a \in [name : STRING, length : Nat] /\ b \in [name : STRING, length : Nat]
  BY GatherBounds
<1> QED
  BY <1>1

-----------------------------------------------------------------------------
(* Each step *)

LEMMA GatherStepKept ==
  ASSUME GInv, NEW g \in Gatherer, GatherReads(g) \/ GatherStep(g)
  PROVE  GInv'
<1>1. /\ gathering \in [Gatherer -> GatherState] /\ gathering[g] \in GatherState
      /\ cache \in Held /\ corpus \subseteq Key
      /\ \A h \in Gatherer : gathering[h].compared \subseteq {gathering[h].by}
  BY DEF GInv, OneModelCompared
<1>2. /\ gathering[g].seen \in Held /\ gathering[g].docs \subseteq Key
  BY <1>1 DEF GatherState
<1>a. ASSUME NEW e \in GatherState, e.compared \subseteq {e.by},
             gathering' = [gathering EXCEPT ![g] = e], cache' \in {cache, Empty},
             UNCHANGED <<corpus, service, file, warming>>
      PROVE  GInv'
  <2>1. gathering' \in [Gatherer -> GatherState] /\ OneModelCompared'
    BY <1>1, <1>a DEF OneModelCompared
  <2> QED
    BY <1>a, <2>1, EmptyHeld DEF GInv
<1>3. CASE GatherReads(g)
  <2> DEFINE e == [NoGather EXCEPT !.pc = "read", !.docs = corpus]
  <2>1. e \in GatherState /\ e.compared = {}
    BY <1>1, NoGatherTyped DEF GatherState
  <2> HIDE DEF e
  <2>2. gathering' = [gathering EXCEPT ![g] = e]
    BY <1>3 DEF GatherReads, e
  <2> QED
    BY <1>3, <1>a, <2>1, <2>2 DEF GatherReads
<1>4. CASE GatherSnapshots(g)
  <2> DEFINE e == [gathering[g] EXCEPT !.pc = "compare", !.seen = cache]
  <2>1. e \in GatherState /\ e.compared = gathering[g].compared /\ e.by = gathering[g].by
    BY <1>1 DEF GatherState
  <2>2. gathering' = [gathering EXCEPT ![g] = e]
    BY <1>1, <1>4 DEF GatherSnapshots, GatherState
  <2> HIDE DEF e
  <2> QED
    BY <1>1, <1>4, <1>a, <2>1, <2>2 DEF GatherSnapshots
<1>5. CASE GatherTooFew(g) \/ GatherUnavailable(g)
  BY <1>5, <1>a, NoGatherTyped DEF GatherTooFew, GatherUnavailable, ByKeyword
<1>6. CASE GatherFindsStale(g)
  BY <1>6, <1>a, NoGatherTyped DEF GatherFindsStale, ByKeyword
<1>7. CASE GatherCompares(g)
  <2> DEFINE e == [NoGather EXCEPT !.compared = Compared(g), !.by = service]
             seen == gathering[g].seen
  <2>1. service \in Make /\ seen.model = service.name
        /\ \A make \in Compared(g) : make.length = service.length
    BY <1>7 DEF GatherCompares, Stale, GInv
  <2>2. \A make \in Compared(g) : make \in Make /\ make.name = seen.model
    BY <1>2, HeldVectors DEF Compared, Embedded
  <2>3. Compared(g) \subseteq {service}
    BY <2>1, <2>2, SameMake
  <2>4. e \in GatherState /\ e.compared = Compared(g) /\ e.by = service
    BY <2>1, <2>3, NoGatherTyped DEF GatherState
  <2>5. gathering' = [gathering EXCEPT ![g] = e]
    BY <1>7 DEF GatherCompares
  <2> HIDE DEF e
  <2> QED
    BY <1>7, <1>a, <2>3, <2>4, <2>5 DEF GatherCompares
<1> QED
  BY <1>3, <1>4, <1>5, <1>6, <1>7 DEF GatherStep

LEMMA WarmStepKept ==
  ASSUME GInv, WarmStep
  PROVE  GInv'
<1>1. /\ warming \in WarmState /\ cache \in Held /\ file \in Held /\ corpus \subseteq Key
      /\ service \in Make \cup {Down} /\ gathering \in [Gatherer -> GatherState]
      /\ OneModelCompared
  BY DEF GInv
<1>a. ASSUME warming' \in WarmState, cache' \in Held, file' \in Held,
             UNCHANGED <<corpus, service, gathering>>
      PROVE  GInv'
  BY <1>1, <1>a DEF GInv, OneModelCompared
<1>2. CASE WarmTakesLock
  <2>1. warming' \in WarmState
    BY <1>1, <1>2, NoWarmTyped DEF WarmTakesLock, WarmState
  <2> QED
    BY <1>1, <1>2, <1>a, <2>1 DEF WarmTakesLock
<1>3. CASE WarmSnapshots
  <2>1. warming' \in WarmState
    BY <1>1, <1>3 DEF WarmSnapshots, WarmState
  <2> QED
    BY <1>1, <1>3, <1>a, <2>1 DEF WarmSnapshots
<1>4. CASE WarmFails
  BY <1>1, <1>4, <1>a, NoWarmTyped DEF WarmFails
<1>5. CASE WarmEmbeds
  <2>1. warming' \in WarmState
    BY <1>1, <1>5 DEF WarmEmbeds, WarmState
  <2> QED
    BY <1>1, <1>5, <1>a, <2>1 DEF WarmEmbeds
<1>6. CASE WarmReplaces
  <2>1. Warmed(warming) \in Held
    BY <1>1, WarmedHeld
  <2>2. [warming EXCEPT !.pc = "save", !.seen = Warmed(warming)] \in WarmState
    BY <1>1, <2>1 DEF WarmState
  <2> QED
    BY <1>1, <1>6, <1>a, <2>1, <2>2, NoWarmTyped DEF WarmReplaces
<1>7. CASE WarmSaves
  <2>1. warming.seen \in Held
    BY <1>1 DEF WarmState
  <2> QED
    BY <1>1, <1>7, <1>a, <2>1, NoWarmTyped DEF WarmSaves
<1> QED
  BY <1>2, <1>3, <1>4, <1>5, <1>6, <1>7 DEF WarmStep

LEMMA InitGInv == GatherInit => GInv
<1> SUFFICES ASSUME GatherInit
             PROVE  GInv
  OBVIOUS
<1>1. gathering \in [Gatherer -> GatherState] /\ \A g \in Gatherer : gathering[g] = NoGather
  BY NoGatherTyped DEF GatherInit
<1>2. OneModelCompared
  BY <1>1, NoGatherTyped DEF OneModelCompared
<1> QED
  BY <1>1, <1>2, EmptyHeld, NoWarmTyped DEF GInv, GatherInit

LEMMA StepGInv == GInv /\ [GatherNext]_gatherVars => GInv'
<1> SUFFICES ASSUME GInv, [GatherNext]_gatherVars
             PROVE  GInv'
  OBVIOUS
<1>1. ASSUME NEW g \in Gatherer, GatherReads(g) \/ GatherStep(g)
      PROVE  GInv'
  BY <1>1, GatherStepKept
<1>2. CASE WarmStep
  BY <1>2, WarmStepKept
<1>3. CASE RestOver \/ ServiceChanges \/ CorpusWritten \/ UNCHANGED gatherVars
  BY <1>3 DEF RestOver, ServiceChanges, CorpusWritten, gatherVars, GInv, OneModelCompared
<1>4. CASE Restart
  <2>1. gathering' \in [Gatherer -> GatherState] /\ \A g \in Gatherer : gathering'[g] = NoGather
    BY <1>4, NoGatherTyped DEF Restart
  <2>2. OneModelCompared'
    BY <2>1, NoGatherTyped DEF OneModelCompared
  <2> QED
    BY <1>4, <2>1, <2>2, NoWarmTyped DEF Restart, GInv
<1> QED
  BY <1>1, <1>2, <1>3, <1>4, Zenon DEF GatherNext

-----------------------------------------------------------------------------
(* The result on the gather *)

\* Every hybrid answer compared the query with vectors of the make that embedded it,
\* whatever the service, the warming threads and restarts did meanwhile.
THEOREM WithinOneModel == GatherSpec => []OneModelCompared
<1>1. GInv => OneModelCompared
  BY DEF GInv
<1> QED
  BY <1>1, InitGInv, StepGInv, PTL DEF GatherSpec
=============================================================================
