------------------------------ MODULE AgentRun ------------------------------
(***************************************************************************)
(* ai/loop.py: one run after another on one conversation, each from the      *)
(* question it opens with (ai/clarification.py, ai/state_block.py) to the    *)
(* turn that is stored of it (ai/run_record.py says what its calls did), and *)
(* the confirmed calls between them (ai/confirmation.py).  AgentThread has   *)
(* the requests, locks and tokens around a run; here a run is alone on its   *)
(* conversation, and everybody else writes the rows meanwhile.               *)
(*                                                                          *)
(* A call is a tool and the row it is about; the one row ask_user offers     *)
(* stands for its list of candidates, which is kept or dropped whole.  An    *)
(* answer is the row it shows, so that the stall rule tells a repeat from    *)
(* news.  Prompts, traces, the gather and the words of a reply are left out. *)
(***************************************************************************)
EXTENDS Naturals, Sequences

CONSTANTS
  Row,             \* the rows the calls are about
  Batches,         \* bound: the calls one provider turn may ask for, in order
  MaxIterations, MaxCorrections, MaxToolCalls,
  MaxRuns,         \* bound: how many messages are sent
  MaxEdits,        \* bound: how far others bring a row's updated_at
  Window,          \* fit_history: how many stored turns a run is given
  None

ReadTools == {"read", "ask"}
Tool == ReadTools \cup {"edit", "trash", "unknown"}

Call == [tool : Tool, on : Row]

\* What a turn may say: the narrator's words, or the code's in its place.
Replies == {"narrated", "question", "note", "handoff"}

ASSUME RunBounds ==
  /\ Batches \subseteq Seq(Call) \ {<<>>}
  /\ MaxIterations \in Nat \ {0} /\ MaxToolCalls \in Nat \ {0} /\ MaxCorrections \in Nat
  /\ MaxRuns \in Nat /\ MaxEdits \in Nat /\ Window \in Nat \ {0}
  /\ None \notin Row \cup Replies \cup {"call", "run"}

VARIABLES
  row,      \* the rows: live, and at for updated_at
  history,  \* the conversation's stored assistant turns, as far as a run reads them
  sent,     \* how many messages were sent
  run,      \* the run in flight
  pending,  \* the confirmation the thread waits on: the row it would trash, as asked
  open      \* history: of the newest stored question, was it put to the user, and
            \* has a run written anything since of which a record is stored

vars == <<row, history, sent, run, pending, open>>

\* The loop's own variables.  A record is a call and what came of it.
NoRun ==
  [pc          |-> "idle",
   question    |-> {},      \* the candidates of the question it opens with
   delegate    |-> FALSE,   \* a delegate's run: destructive calls are gated
   answered    |-> None,    \* the confirmation its message may answer
   stopped     |-> FALSE,   \* its cancel event
   late        |-> FALSE,   \* its deadline is behind
   turn        |-> 0,
   corrections |-> 0,
   dispatched  |-> 0,
   seen        |-> {},      \* the exchanges it has seen
   left        |-> <<>>,    \* the calls of this turn that have no answer yet
   calls       |-> 0,       \* how many calls this turn has
   answers     |-> 0,       \* how many tool messages follow it
   progressed  |-> FALSE,
   malformed   |-> FALSE,   \* schema_error_this_turn
   records     |-> <<>>,
   asked       |-> {},      \* the candidates of a landed ask
   reason      |-> None,
   reply       |-> None,
   landed      |-> <<>>,    \* history: the calls the service layer carried out and
                            \* answered, in order, and whether each wrote
   untold      |-> None]    \* history: what its records cannot tell of

Init ==
  /\ row = [x \in Row |-> [live |-> TRUE, at |-> 0]]
  /\ history = <<>> /\ sent = 0 /\ run = NoRun /\ pending = None
  /\ open = [put |-> FALSE, moved |-> FALSE]

-----------------------------------------------------------------------------
(* What a record says *)

Landed(rec) == rec.came = "result"

\* Mutant of Classify: the read tools are told by their names.
ClassifyByName(rec) ==
  IF Landed(rec) THEN IF rec.tool = "read" THEN "looked_up" ELSE "done"
  ELSE IF rec.came \in {"notRun", "invalid"} THEN "not_run"
  ELSE "refused"

Classify(rec) ==
  IF Landed(rec) THEN IF rec.tool \in ReadTools THEN "looked_up" ELSE "done"
  ELSE IF rec.came \in {"notRun", "invalid"} THEN "not_run"
  ELSE "refused"

AnyRan(records) == \E i \in DOMAIN records : Classify(records[i]) # "not_run"

IsAsk(rec) == rec.tool = "ask" /\ Landed(rec)

\* A row as it is shown, in a list of candidates or a preview.
Shown(x) == [id |-> x, at |-> row[x].at]
CandidatesOf(x) == {Shown(x)}

\* Mutant of FromHistory: a later write does not close the question.
FromHistoryKeeps(stored) ==
  LET asks == {i \in DOMAIN stored : stored[i].asked # {}}
  IN  IF asks = {} THEN {} ELSE stored[CHOOSE i \in asks : \A j \in asks : j <= i].asked

\* The newest landed ask, unless a write landed after it.
FromHistory(stored) ==
  LET asks == {i \in DOMAIN stored : stored[i].asked # {}}
      last == CHOOSE i \in asks : \A j \in asks : j <= i
  IN  IF asks = {} \/ \E i \in DOMAIN stored : i > last /\ stored[i].done
      THEN {} ELSE stored[last].asked

Stands(candidate) == row[candidate.id].live /\ row[candidate.id].at = candidate.at

\* A question whose check fails is dropped like one that is stale.
StillOpen(question) ==
  {{}} \cup (IF \A c \in question : Stands(c) THEN {question} ELSE {})

-----------------------------------------------------------------------------
(* Ending a run *)

Ended(r, reason, reply) == [r EXCEPT !.pc = "ended", !.reason = reason, !.reply = reply]

Narrated(r, reason) ==
  IF r.delegate THEN Ended(r, reason, "handoff")
  ELSE [r EXCEPT !.pc = "narrating", !.reason = reason]

\* A limit stop has something to say only when a call reached the service layer.
LimitStop(r, reason) ==
  IF AnyRan(r.records) THEN Narrated(r, reason) ELSE Ended(r, reason, None)

Record(call, came) == [tool |-> call.tool, on |-> call.on, came |-> came]

Answered(r, rec) ==
  [r EXCEPT !.records = Append(@, rec), !.answers = @ + 1, !.left = Tail(@)]

SkipRemaining(r) ==
  [r EXCEPT !.records = @ \o [i \in DOMAIN r.left |-> Record(r.left[i], "notRun")],
            !.answers = @ + Len(r.left), !.left = <<>>]

Corrected(r) ==
  LET again == [r EXCEPT !.corrections = @ + 1, !.pc = "turn"]
  IN  IF again.corrections > MaxCorrections THEN LimitStop(again, "correction_limit") ELSE again

Running == run.pc \notin {"idle", "ended"}
Becomes(r) == run' = r /\ UNCHANGED <<row, history, sent, pending, open>>

-----------------------------------------------------------------------------
(* One run *)

\* A delegate's message settles the thread's confirmation: what is left of it is the
\* identical call, should this run make it.
Start(delegate) ==
  /\ run.pc = "idle" /\ sent < MaxRuns
  /\ sent' = sent + 1
  /\ \E question \in StillOpen(FromHistory(history)) :
       run' = [NoRun EXCEPT !.pc = "turn", !.delegate = delegate, !.question = question,
                            !.answered = IF delegate THEN pending ELSE None]
  /\ pending' = IF delegate THEN None ELSE pending
  /\ UNCHANGED <<row, history, open>>

\* The budget of turns, then Stop, then the deadline.
MoreTurns == run.pc = "turn" /\ run.turn < MaxIterations

OutOfTurns ==
  /\ run.pc = "turn" /\ run.turn = MaxIterations
  /\ Becomes(LimitStop(run, "max_iterations"))

CancelledBeforeTurn ==
  /\ MoreTurns /\ run.stopped
  /\ Becomes(Ended(run, "cancelled", None))

LateBeforeTurn ==
  /\ MoreTurns /\ ~run.stopped /\ run.late
  /\ Becomes(Ended(run, "timed_out", None))

CallProvider ==
  /\ MoreTurns /\ ~run.stopped /\ ~run.late
  /\ Becomes([run EXCEPT !.pc = "calling", !.turn = @ + 1])

\* Mutant of BadArguments: the correction is not charged to the run, nor its turn.
BadArgumentsFree ==
  /\ run.pc = "calling"
  /\ Becomes([run EXCEPT !.pc = "turn", !.turn = @ - 1])

\* Arguments that do not parse: a correction as a user message, no calls.
BadArguments ==
  /\ run.pc = "calling"
  /\ Becomes(Corrected(run))

\* A fault the provider reports is a timeout when the deadline passed meanwhile;
\* one it does not report is the run's own failure.
ProviderFails ==
  /\ run.pc = "calling"
  /\ \E reason \in {IF run.late THEN "timed_out" ELSE "provider_error", "internal_error"} :
       Becomes(Ended(run, reason, None))

TurnTruncated ==
  /\ run.pc = "calling"
  /\ Becomes(LimitStop(run, "truncated"))

FinalText ==
  /\ run.pc = "calling"
  /\ Becomes(Narrated(run, "completed"))

Propose(batch) ==
  /\ run.pc = "calling"
  /\ Becomes([run EXCEPT !.pc = "batch", !.left = batch, !.calls = Len(batch), !.answers = 0,
                         !.progressed = FALSE, !.malformed = FALSE])

-----------------------------------------------------------------------------
(* The calls of one turn, in order: Stop, the deadline, the cap, the gate *)

NextCall == run.pc = "batch" /\ run.left # <<>>
Allowed == NextCall /\ ~run.stopped /\ ~run.late /\ run.dispatched < MaxToolCalls

CancelledInBatch ==
  /\ NextCall /\ run.stopped
  /\ Becomes(Ended(SkipRemaining(run), "cancelled", None))

LateInBatch ==
  /\ NextCall /\ ~run.stopped /\ run.late
  /\ Becomes(Ended(SkipRemaining(run), "timed_out", None))

OverCap ==
  /\ NextCall /\ ~run.stopped /\ ~run.late /\ run.dispatched >= MaxToolCalls
  /\ Becomes(LimitStop(SkipRemaining(run), "tool_call_limit"))

\* A delegate may not trash unasked.
Gated == run.delegate /\ Head(run.left).tool = "trash"

\* Gate.allows: the identical call of a yes, on the row as it was previewed.
Confirmed ==
  /\ run.answered # None /\ run.answered.id = Head(run.left).on
  /\ Stands(run.answered)

\* The identical call uses the yes up, whatever becomes of it.
AnsweredAfter ==
  IF Gated /\ run.answered # None /\ run.answered.id = Head(run.left).on THEN None ELSE run.answered

\* Gate.arm: the run ends on the question.  So it does when the yes has expired.
ConfirmFirst ==
  /\ Allowed /\ Gated /\ row[Head(run.left).on].live
  /\ run' = Ended(SkipRemaining([run EXCEPT !.answered = AnsweredAfter]),
                  "confirm_required", "question")
  /\ pending' = Shown(Head(run.left).on)
  /\ UNCHANGED <<row, history, sent, open>>

\* A row that is not there cannot be asked about: the service layer refuses the call.
StartCall ==
  /\ Allowed
  /\ Gated => Confirmed \/ ~row[Head(run.left).on].live
  /\ Becomes([run EXCEPT !.pc = "running", !.dispatched = @ + 1, !.answered = AnsweredAfter])

\* The gate looks at arguments nobody has validated, and reads the rows: it may
\* raise, and the run's backstop keeps nothing of what the run has done.
GateCrashes ==
  /\ Allowed /\ Gated
  /\ Becomes(Ended([run EXCEPT !.records = <<>>, !.left = <<>>, !.calls = 0, !.answers = 0,
                               !.untold = "run"], "internal_error", None))

\* What the service layer may make of a call: the rows after it, and the answer.  An
\* edit may have nothing to change.
Effects(call) ==
  IF call.tool = "unknown" THEN {[rows |-> row, came |-> "invalid"]}
  ELSE IF ~row[call.on].live THEN {[rows |-> row, came |-> "refused"]}
  ELSE CASE call.tool \in ReadTools -> {[rows |-> row, came |-> "result"]}
         [] call.tool = "edit" ->
              {[rows |-> rows, came |-> "result"] :
                 rows \in {row, [row EXCEPT ![call.on].at = @ + 1]}}
         [] call.tool = "trash" ->
              {[rows |-> [row EXCEPT ![call.on] = [live |-> FALSE, at |-> @.at + 1]],
                came |-> "result"]}

\* Tool, arguments and answer.
Exchange(call, effect) == <<call, effect.came, effect.rows[call.on]>>

\* The calls of a run that were carried out, after this one.
LandedAfter(call, effect) ==
  IF effect.rows = row /\ (effect.came # "result" \/ call.tool \in ReadTools) THEN run.landed
  ELSE Append(run.landed, [tool |-> call.tool, on |-> call.on, wrote |-> effect.rows # row])

AfterCall(call, effect) ==
  LET rec == Record(call, effect.came)
      r   == [Answered(run, rec) EXCEPT
                !.pc         = "batch",
                !.progressed = @ \/ Exchange(call, effect) \notin run.seen,
                !.seen       = @ \cup {Exchange(call, effect)},
                !.malformed  = @ \/ effect.came = "invalid",
                !.landed     = LandedAfter(call, effect)]
  IN  IF IsAsk(rec)
      THEN Narrated([SkipRemaining(r) EXCEPT !.asked = CandidatesOf(call.on)], "completed")
      ELSE r

CallReturns ==
  /\ run.pc = "running"
  /\ \E effect \in Effects(Head(run.left)) :
       /\ row' = effect.rows
       /\ run' = AfterCall(Head(run.left), effect)
  /\ UNCHANGED <<history, sent, pending, open>>

\* Mutant of CallCrashes: the rest of the turn is left without an answer.
CallCrashesAlone ==
  /\ run.pc = "running"
  /\ Becomes(Ended(Answered(run, Record(Head(run.left), "crashed")), "internal_error", None))

\* Whether the call was carried out before it raised, nobody knows; the run ends, and
\* the rest of its turn with it.
CallCrashes ==
  /\ run.pc = "running"
  /\ \E rows \in {row} \cup {effect.rows : effect \in Effects(Head(run.left))} :
       /\ row' = rows
       /\ run' = Ended([SkipRemaining(Answered(run, Record(Head(run.left), "crashed"))) EXCEPT
                          !.untold = IF rows = row THEN None ELSE "call"], "internal_error", None)
  /\ UNCHANGED <<history, sent, pending, open>>

TurnDone ==
  /\ run.pc = "batch" /\ run.left = <<>>
  /\ Becomes(IF run.malformed THEN Corrected(run)
             ELSE IF ~run.progressed THEN LimitStop(run, "no_progress")
             ELSE [run EXCEPT !.pc = "turn"])

\* The narrator may not speak: a question is then asked in the code's words, and a
\* finished run falls back to the planner's note.
Narration ==
  /\ run.pc = "narrating"
  /\ \E spoken \in {TRUE, FALSE} :
       /\ spoken => ~run.stopped /\ ~run.late
       /\ Becomes(Ended(run, run.reason,
            IF spoken THEN "narrated"
            ELSE IF run.asked # {} THEN "question"
            ELSE IF run.reason = "completed" THEN "note"
            ELSE None))

\* The stored turns that fit the model's context, the newest.
FitHistory(turns) == IF Len(turns) > Window THEN Tail(turns) ELSE turns

\* The run has written, and its records are kept.
WroteOnRecord == run.untold # "run" /\ \E k \in DOMAIN run.landed : run.landed[k].wrote

\* append_assistant_message, whatever the run came to.
Store ==
  /\ run.pc = "ended"
  /\ LET stored == [asked |-> run.asked,
                    done  |-> \E i \in DOMAIN run.records : Classify(run.records[i]) = "done"]
     IN  history' = FitHistory(Append(history, stored))
  /\ open' = IF run.asked # {} THEN [put |-> run.reply # None, moved |-> FALSE]
             ELSE [open EXCEPT !.moved = @ \/ WroteOnRecord]
  /\ run' = NoRun
  /\ UNCHANGED <<row, sent, pending>>

-----------------------------------------------------------------------------
(* A confirmed call: a message that carries the token, with no turn of the planner *)

\* redeem: the token is spent before the row is looked at again.
Redeem ==
  /\ run.pc = "idle" /\ sent < MaxRuns
  /\ pending # None /\ Stands(pending)
  /\ sent' = sent + 1
  /\ run' = [NoRun EXCEPT !.pc = "confirmed", !.left = <<[tool |-> "trash", on |-> pending.id]>>]
  /\ pending' = None
  /\ UNCHANGED <<row, history, open>>

\* dispatch_confirmed: the turn that is stored is the record of this one call.
ConfirmedReturns ==
  /\ run.pc = "confirmed"
  /\ LET call == Head(run.left)
     IN  \E effect \in Effects(call) :
           /\ row' = effect.rows
           /\ run' = Ended([run EXCEPT !.records = <<Record(call, effect.came)>>, !.left = <<>>,
                                       !.landed = LandedAfter(call, effect)],
                           "completed", "note")
  /\ UNCHANGED <<history, sent, pending, open>>

\* It raises, carried out or not: the message keeps no answer.
ConfirmedCrashes ==
  /\ run.pc = "confirmed"
  /\ row' \in {row} \cup {effect.rows : effect \in Effects(Head(run.left))}
  /\ run' = NoRun
  /\ UNCHANGED <<history, sent, pending, open>>

-----------------------------------------------------------------------------
(* Everybody else *)

\* The confirmation expires, or is spent on a row that has changed.  It is looked at
\* between runs only.
Lapse ==
  /\ run.pc = "idle" /\ pending # None
  /\ pending' = None
  /\ UNCHANGED <<row, history, sent, run, open>>

Stop ==
  /\ Running /\ run.pc # "confirmed" /\ ~run.stopped
  /\ Becomes([run EXCEPT !.stopped = TRUE])

DeadlinePasses ==
  /\ Running /\ run.pc # "confirmed" /\ ~run.late
  /\ Becomes([run EXCEPT !.late = TRUE])

\* Another client edits, trashes or restores a row.
WrittenElsewhere(x) ==
  /\ row[x].at < MaxEdits
  /\ \E live \in BOOLEAN : row' = [row EXCEPT ![x] = [live |-> live, at |-> @.at + 1]]
  /\ UNCHANGED <<history, sent, run, pending, open>>

\* The process dies: what the run wrote is there, its turn and the tokens are not.
ProcessDies ==
  /\ run.pc # "idle" \/ pending # None
  /\ run' = NoRun /\ pending' = None
  /\ UNCHANGED <<row, history, sent, open>>

LoopStep ==
  \/ OutOfTurns \/ CancelledBeforeTurn \/ LateBeforeTurn \/ CallProvider
  \/ BadArguments \/ ProviderFails \/ TurnTruncated \/ FinalText
  \/ \E batch \in Batches : Propose(batch)
  \/ CancelledInBatch \/ LateInBatch \/ OverCap \/ ConfirmFirst \/ GateCrashes
  \/ StartCall \/ CallReturns \/ CallCrashes \/ TurnDone
  \/ Narration \/ Store
  \/ ConfirmedReturns \/ ConfirmedCrashes

Next ==
  \/ \E delegate \in BOOLEAN : Start(delegate)
  \/ Redeem
  \/ LoopStep
  \/ Stop \/ DeadlinePasses \/ ProcessDies \/ Lapse
  \/ \E x \in Row : WrittenElsewhere(x)

\* The provider and the narrator answer or time out, a call returns or raises.
Spec == Init /\ [][Next]_vars /\ WF_vars(LoopStep)

-----------------------------------------------------------------------------
(* Properties *)

\* Before the provider is asked again, and at every end but a crash of the process,
\* each call of the turn has one answer: a transcript with a call unanswered or
\* answered twice is refused by the provider, and by every later run built on it.
EveryCallAnsweredOnce ==
  run.pc \in {"turn", "narrating", "ended"} => run.calls = run.answers

\* The record tells the truth: the calls it counts as done are, one for one and in
\* their order, those the service layer carried out and answered, through refusals,
\* skips, caps, confirmations and crashes.  A call that may have landed without an
\* answer is recorded as crashed.  Only when the gate raised is there no record at all.
\* The narrator, the receipts and the next run's recall speak from nothing else.
RecordIsTrue ==
  LET done == {i \in DOMAIN run.records : Classify(run.records[i]) = "done"}
  IN  IF run.untold = "run" THEN run.records = <<>>
      ELSE /\ run.untold = "call" =>
                \E i \in DOMAIN run.records : run.records[i].came = "crashed"
           /\ \E at \in [DOMAIN run.landed -> done] :
                /\ \A i \in done : \E k \in DOMAIN run.landed : at[k] = i
                /\ \A j, k \in DOMAIN run.landed : j < k => at[j] < at[k]
                /\ \A k \in DOMAIN run.landed :
                     /\ run.records[at[k]].tool = run.landed[k].tool
                     /\ run.records[at[k]].on = run.landed[k].on

\* A run opens with a question only while it is open as far as stored turns can tell:
\* it was put to the user, no stored record has a write since, and every row it
\* offered is as it was offered.  A run whose records a raising gate loses, and a call
\* that crashed after it wrote, leave the question standing.
QuestionIsOpen ==
  [][run.pc = "idle" /\ run'.question # {} =>
       open.put /\ ~open.moved /\ \A c \in run'.question : Stands(c)]_vars

\* Whatever the provider answers, and however often, the run comes to an end.
RunEnds == Running ~> ~Running
=============================================================================
