------------------------------ MODULE ThreadLog ------------------------------
(***************************************************************************)
(* What a conversation promises whoever posts to it, whatever locks, crashes *)
(* and retries are behind it (services/conversations.py find_exchange,       *)
(* api/routes_agent.py): a thread is a sequence of exchanges, one at a time, *)
(* in a live thread, at most one per idempotency key.                        *)
(***************************************************************************)
EXTENDS Sequences, Naturals

CONSTANTS
  Request,  \* the posts
  Key,      \* idempotency keys
  NoKey

VARIABLES
  turns,  \* the stored turns, oldest first
  open,   \* an exchange is under way: asked, and neither answered nor given up
  live    \* the thread is not in the trash

UserTurn(r, k) == [role |-> "user", by |-> r, key |-> k]
AssistantTurn(r) == [role |-> "assistant", by |-> r, key |-> NoKey]

KeysUsed == {turns[i].key : i \in DOMAIN turns} \ {NoKey}

LogInit == turns = <<>> /\ open = FALSE /\ live = TRUE

Ask(r, k) ==
  /\ live /\ ~open
  /\ k \notin KeysUsed
  /\ turns' = Append(turns, UserTurn(r, k))
  /\ open' = TRUE
  /\ UNCHANGED live

\* An answer follows its own question.
Answer ==
  /\ open
  /\ turns' = Append(turns, AssistantTurn(turns[Len(turns)].by))
  /\ open' = FALSE
  /\ UNCHANGED live

\* The process died, or the database refused the answer: the question stands alone.
Abandon == open /\ open' = FALSE /\ UNCHANGED <<turns, live>>

\* Only an idle thread is trashed.
Trash == live /\ ~open /\ live' = FALSE /\ UNCHANGED <<turns, open>>
Restore == ~live /\ live' = TRUE /\ UNCHANGED <<turns, open>>

LogNext ==
  \/ \E r \in Request, k \in Key \cup {NoKey} : Ask(r, k)
  \/ Answer
  \/ Abandon
  \/ Trash
  \/ Restore

LogSpec == LogInit /\ [][LogNext]_<<turns, open, live>>
=============================================================================
