---------------------------- MODULE AgentGather ----------------------------
(***************************************************************************)
(* ai/gather.py and ai/embeddings.py: what a run's words are likely about,   *)
(* searched before the model sees them.  Every run of the process gathers    *)
(* with one vector cache; threads that fill it, other processes that write   *)
(* the tasks, and an embeddings service that comes, goes and changes its     *)
(* model under the same or another name all work at once.                    *)
(*                                                                          *)
(* A document is its key, the hash of its text; a vector is the make of the  *)
(* service that made it, and two makes compare when their vectors are as     *)
(* long.  Keyword scores, the fusion of the two rankings and the rows shown  *)
(* are left out: an answer is what was compared with what.                    *)
(***************************************************************************)
EXTENDS Naturals, FiniteSets

CONSTANTS
  Gatherer,        \* the runs that gather at one time
  Key,             \* the texts a task or a commitment may have
  Make,            \* what the service may run: records [name, length]
  MinCorpus,       \* MIN_VECTOR_CORPUS
  MaxEvents,       \* bound: changes of the service and the corpus, and restarts, in all
  Down

ASSUME GatherBounds ==
  /\ Make \subseteq [name : STRING, length : Nat]
  /\ MinCorpus \in Nat \ {0}
  /\ MaxEvents \in Nat
  /\ Down \notin Make

VARIABLES
  corpus,     \* the keys of the live tasks and commitments
  service,    \* the make it runs, or Down: refused, slow, changed in a batch
  cache,      \* VectorCache: the name it is under, and a vector by key
  file,       \* the cache as saved
  gathering,  \* the gather of each run
  warming,    \* the thread that holds _warming
  queued,     \* threads that found _warming free and wait for it
  resting,    \* the last warm failed under RETRY_WARM_S ago
  left        \* bound: the events to come

gatherVars == <<corpus, service, cache, file, gathering, warming, queued, resting, left>>

Unnamed == ""
NoVectors == [key \in {} |-> Down]
Empty == [model |-> Unnamed, vectors |-> NoVectors]

\* History: an answer that used meaning leaves what it compared, and with what.
NoGather == [pc |-> "idle", docs |-> {}, seen |-> Empty, compared |-> {}, by |-> Down]
NoWarm == [pc |-> "idle", docs |-> {}, seen |-> Empty, made |-> Down]

GatherInit ==
  /\ corpus \in SUBSET Key /\ service \in Make
  /\ cache = Empty /\ file = Empty
  /\ gathering = [g \in Gatherer |-> NoGather]
  /\ warming = NoWarm /\ queued = 0 /\ resting = FALSE
  /\ left = MaxEvents

Embedded(docs, seen) == docs \cap DOMAIN seen.vectors

-----------------------------------------------------------------------------
(* Gathering *)

\* warm_in_background looks whether the lock is taken, and takes it later in the
\* thread it starts: two runs may each start one.  (Bound: as many wait as there
\* are runs; one more would find nothing left to embed.)
WarmInBackground ==
  queued' = IF warming.pc # "idle" \/ resting \/ queued = Cardinality(Gatherer)
            THEN queued ELSE queued + 1

Compared(g) ==
  LET seen == gathering[g].seen
  IN  {seen.vectors[key] : key \in Embedded(gathering[g].docs, seen)}

ByKeyword(g) == gathering' = [gathering EXCEPT ![g] = NoGather]

\* The live documents, in a session of their own.
GatherReads(g) ==
  /\ gathering[g].pc = "idle"
  /\ gathering' = [gathering EXCEPT ![g] = [NoGather EXCEPT !.pc = "read", !.docs = corpus]]
  /\ UNCHANGED <<corpus, service, cache, file, warming, queued, resting, left>>

\* The name and the vectors of one moment; what is missing is asked for, and with
\* too few vectors the service is not.
GatherSnapshots(g) ==
  /\ gathering[g].pc = "read"
  /\ gathering' = [gathering EXCEPT ![g].pc = "compare", ![g].seen = cache]
  /\ IF gathering[g].docs \subseteq DOMAIN cache.vectors
     THEN UNCHANGED queued ELSE WarmInBackground
  /\ UNCHANGED <<corpus, service, cache, file, warming, resting, left>>

TooFew(g) == Cardinality(Embedded(gathering[g].docs, gathering[g].seen)) < MinCorpus

GatherTooFew(g) ==
  /\ gathering[g].pc = "compare" /\ TooFew(g)
  /\ ByKeyword(g)
  /\ UNCHANGED <<corpus, service, cache, file, warming, queued, resting, left>>

GatherUnavailable(g) ==
  /\ gathering[g].pc = "compare" /\ ~TooFew(g) /\ service = Down
  /\ ByKeyword(g)
  /\ WarmInBackground
  /\ UNCHANGED <<corpus, service, cache, file, warming, resting, left>>

\* The query comes under another name, or some vector is not as long as it is.
Stale(g) ==
  \/ gathering[g].seen.model # service.name
  \/ \E make \in Compared(g) : make.length # service.length

\* Mutant of GatherFindsStale: the cache is left as it is.
GatherFindsStaleKeeps(g) ==
  /\ gathering[g].pc = "compare" /\ ~TooFew(g) /\ service # Down /\ Stale(g)
  /\ ByKeyword(g)
  /\ WarmInBackground
  /\ UNCHANGED <<corpus, service, cache, file, warming, resting, left>>

\* The cache is emptied, whatever it holds by now.
GatherFindsStale(g) ==
  /\ gathering[g].pc = "compare" /\ ~TooFew(g) /\ service # Down /\ Stale(g)
  /\ ByKeyword(g)
  /\ cache' = Empty
  /\ WarmInBackground
  /\ UNCHANGED <<corpus, service, file, warming, resting, left>>

GatherCompares(g) ==
  /\ gathering[g].pc = "compare" /\ ~TooFew(g) /\ service # Down /\ ~Stale(g)
  /\ gathering' = [gathering EXCEPT ![g] =
       [NoGather EXCEPT !.compared = Compared(g),
                        !.by = service]]
  /\ UNCHANGED <<corpus, service, cache, file, warming, queued, resting, left>>

-----------------------------------------------------------------------------
(* Warming, one thread at a time *)

WarmTakesLock ==
  /\ warming.pc = "idle" /\ queued > 0
  /\ queued' = queued - 1
  /\ warming' = [NoWarm EXCEPT !.pc = "read", !.docs = corpus]
  /\ UNCHANGED <<corpus, service, cache, file, gathering, resting, left>>

WarmSnapshots ==
  /\ warming.pc = "read"
  /\ warming' = [warming EXCEPT !.seen = cache,
                   !.pc = IF warming.docs \subseteq DOMAIN cache.vectors THEN "replace" ELSE "embed"]
  /\ UNCHANGED <<corpus, service, cache, file, gathering, queued, resting, left>>

WarmFails ==
  /\ warming.pc = "embed" /\ service = Down
  /\ resting' = TRUE /\ warming' = NoWarm
  /\ UNCHANGED <<corpus, service, cache, file, gathering, queued, left>>

WarmEmbeds ==
  /\ warming.pc = "embed" /\ service # Down
  /\ warming' = [warming EXCEPT !.pc = "replace", !.made = service]
  /\ UNCHANGED <<corpus, service, cache, file, gathering, queued, resting, left>>

\* Mutant of Warmed: vectors of another model are kept beside the new ones.
WarmedKeeps(w) ==
  LET kept == DOMAIN w.seen.vectors
  IN  [model   |-> IF w.made = Down THEN w.seen.model ELSE w.made.name,
       vectors |-> [key \in (IF w.made = Down THEN kept \cap w.docs ELSE w.docs) |->
                      IF key \in kept THEN w.seen.vectors[key] ELSE w.made]]

\* The old vectors, unless the service answered under another name, the new ones of
\* the keys they did not cover, and of both only what the corpus had.  (Asked for
\* nothing, the service was not called.)
Warmed(w) ==
  LET kept == IF w.made # Down /\ w.made.name # w.seen.model THEN {} ELSE DOMAIN w.seen.vectors
      made == IF w.made = Down THEN {} ELSE w.docs \ DOMAIN w.seen.vectors
  IN  [model   |-> IF w.made = Down THEN w.seen.model ELSE w.made.name,
       vectors |-> [key \in w.docs \cap (kept \cup made) |->
                      IF key \in made THEN w.made ELSE w.seen.vectors[key]]]

WarmReplaces ==
  /\ warming.pc = "replace"
  /\ cache' = Warmed(warming)
  /\ warming' = IF warming.made = Down THEN NoWarm
                ELSE [warming EXCEPT !.pc = "save", !.seen = Warmed(warming)]
  /\ UNCHANGED <<corpus, service, file, gathering, queued, resting, left>>

\* os.replace: the old file or the new one.  A save that fails is let go.
WarmSaves ==
  /\ warming.pc = "save"
  /\ file' \in {file, warming.seen}
  /\ warming' = NoWarm
  /\ UNCHANGED <<corpus, service, cache, gathering, queued, resting, left>>

WarmStep == WarmTakesLock \/ WarmSnapshots \/ WarmFails \/ WarmEmbeds \/ WarmReplaces \/ WarmSaves

-----------------------------------------------------------------------------
(* Everybody else *)

RestOver ==
  /\ resting /\ resting' = FALSE
  /\ UNCHANGED <<corpus, service, cache, file, gathering, warming, queued, left>>

ServiceChanges ==
  /\ left > 0 /\ left' = left - 1
  /\ service' \in (Make \cup {Down}) \ {service}
  /\ UNCHANGED <<corpus, cache, file, gathering, warming, queued, resting>>

\* A task is created, edited, trashed or restored, in this process or another.
CorpusWritten ==
  /\ left > 0 /\ left' = left - 1
  /\ corpus' \in (SUBSET Key) \ {corpus}
  /\ UNCHANGED <<service, cache, file, gathering, warming, queued, resting>>

Restart ==
  /\ left > 0 /\ left' = left - 1
  /\ cache' = file
  /\ gathering' = [g \in Gatherer |-> NoGather]
  /\ warming' = NoWarm /\ queued' = 0 /\ resting' = FALSE
  /\ UNCHANGED <<corpus, service, file>>

GatherStep(g) ==
  GatherSnapshots(g) \/ GatherTooFew(g) \/ GatherUnavailable(g) \/ GatherFindsStale(g)
    \/ GatherCompares(g)

GatherNext ==
  \/ \E g \in Gatherer : GatherReads(g) \/ GatherStep(g)
  \/ WarmStep \/ RestOver
  \/ ServiceChanges \/ CorpusWritten \/ Restart

\* A gather in flight is answered or times out, a thread runs, time passes.
GatherFair ==
  /\ \A g \in Gatherer : WF_gatherVars(GatherStep(g))
  /\ WF_gatherVars(WarmStep) /\ WF_gatherVars(RestOver)

GatherSpec == GatherInit /\ [][GatherNext]_gatherVars /\ GatherFair

-----------------------------------------------------------------------------
(* Properties *)

\* A hybrid answer compared the query with vectors of the same make, each of them:
\* whatever the service, the warming threads and a restart did in between, meaning
\* is never measured across two models.
OneModelCompared ==
  \A g \in Gatherer : gathering[g].compared \subseteq {gathering[g].by}

\* While runs keep gathering over a corpus large enough, the cache comes to cover it
\* with vectors of the model that runs, and stays so: threads that empty the cache
\* on an old snapshot, or fill it from one, do not keep each other from it.  (The
\* service and the corpus come to rest by the bounds.)
CacheCatchesUp ==
  (\A g \in Gatherer : []<><<GatherReads(g)>>_gatherVars) =>
    <>[](service # Down /\ Cardinality(corpus) >= MinCorpus =>
           corpus \subseteq DOMAIN cache.vectors /\ \A key \in corpus : cache.vectors[key] = service)
=============================================================================
