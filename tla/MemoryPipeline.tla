--------------------------- MODULE MemoryPipeline ---------------------------
(***************************************************************************)
(* From an ingested chunk to sealed summaries: the handlers of the job     *)
(* kinds extract_chunk, append_buffer, seal, topic_route and flush_stale   *)
(* (memory/tree/jobs/handlers/mod.rs), ingest, and the worker pool that    *)
(* interleaves them.  An await point of a handler is a boundary between    *)
(* two actions; a transaction is part of one action.                       *)
(*                                                                         *)
(* The queue is seen through its dedupe keys: by DedupeUnique of JobQueue  *)
(* a key has at most one active row, so the table is a function from keys  *)
(* to the latest row.  Leases and clocks are JobQueue's matter.  Topic     *)
(* trees exist from the start.                                             *)
(***************************************************************************)
EXTENDS SummaryTree

CONSTANTS
  SourceOf,     \* the source tree of each chunk's source_id
  Mentions,     \* the topic trees of each chunk's entities
  Workers,      \* worker tasks
  LocalLlm,     \* llm_backend = Local
  MaxAttempts,  \* DEFAULT_MAX_ATTEMPTS
  FaultKinds,   \* faults of this instance
  MaxFaults,    \* bound: how many faults
  MaxFlushes    \* bound: how often the scheduler fires

ASSUME MemoryPipelineAssumption ==
  /\ SourceOf \in [Chunks -> SourceTrees]
  /\ Mentions \in [Chunks -> SUBSET TopicTrees]
  /\ LocalLlm \in BOOLEAN
  /\ MaxAttempts \in Nat \ {0}
  /\ FaultKinds \subseteq {"error", "late_error", "busy", "crash"}
  /\ MaxFaults \in Nat /\ MaxFlushes \in Nat

-----------------------------------------------------------------------------
(* Jobs by dedupe key.                                                     *)

ExtractKey(c)   == [kind |-> "extract_chunk", node |-> c]
AppendKey(t, i) == [kind |-> "append_buffer", tree |-> t, node |-> i]
SealKey(t, l)   == [kind |-> "seal", tree |-> t, level |-> l]
RouteKey(i)     == [kind |-> "topic_route", node |-> i]
FlushKey        == [kind |-> "flush_stale"]

Keys ==
  {ExtractKey(c) : c \in Chunks}
  \cup {AppendKey(SourceOf[c], c) : c \in Chunks}
  \cup {AppendKey(t, i) : t \in TopicTrees, i \in Items}
  \cup {SealKey(t, l) : t \in Trees, l \in Levels}
  \cup {RouteKey(i) : i \in Items}
  \cup {FlushKey}

\* The ORDER BY of claim_next.
Rank(k) == CASE k.kind = "seal"          -> 1
             [] k.kind = "flush_stale"   -> 2
             [] k.kind = "topic_route"   -> 3
             [] k.kind = "append_buffer" -> 4
             [] OTHER                    -> 5

\* The jobs that bring a chunk or a summary into a buffer.
Placing == {"extract_chunk", "append_buffer", "topic_route"}

LlmBound(k) == k.kind \in {"extract_chunk", "seal", "topic_route"}

\* The latest row of a key; "none" stands for no row and for a done one.
JobRow == [status : {"none", "ready", "running", "failed"},
           attempts : Nat, forced : BOOLEAN]

NoJob == [status |-> "none", attempts |-> 0, forced |-> FALSE]

VARIABLES
  chunk,     \* lifecycle_status of each chunk
  buffer,    \* mem_tree_buffers
  summary,   \* mem_tree_summaries; NULL where there is no row
  parent,    \* parent_summary_id of chunks, parent_id of summaries
  top,       \* root_id and max_level of each tree
  queue,     \* mem_tree_jobs
  at,        \* at[w]: where the worker is in run_once
  held,      \* held[w]: the key of the job it claimed
  seen,      \* seen[w]: the buffer a seal has read
  faults,    \* faults so far
  flushes,   \* flush jobs enqueued so far
  \* History:
  caught,    \* entries pushed into a buffer between the read and the commit of its seal
  unheard,   \* seal jobs whose last wake-up came after they had looked, before they were settled
  again      \* items with a job that is handed out again although it has written

store == <<chunk, buffer, summary, parent, top>>
marks == <<caught, unheard, again>>
vars  == <<store, queue, at, held, seen, faults, flushes, marks>>

Lifecycle == {"absent", "pending_extraction", "admitted", "buffered", "dropped"}

TypeOK ==
  /\ chunk   \in [Chunks -> Lifecycle]
  /\ buffer  \in [Trees -> [0..MaxLevel + 1 -> SUBSET Items]]
  /\ summary \in [SummaryIds -> Summary \cup {NULL}]
  /\ parent  \in [Items -> SummaryIds \cup {NULL}]
  /\ top     \in [Trees -> [root : SummaryIds \cup {NULL}, level : Nat]]
  /\ queue   \in [Keys -> JobRow]
  /\ at      \in [Workers -> {"idle", "work", "llm", "done", "error"}]
  /\ held    \in [Workers -> Keys \cup {NULL}]
  /\ seen    \in [Workers -> SUBSET Items]
  /\ faults  \in Nat
  /\ flushes \in Nat
  /\ caught  \subseteq [tree : Trees, level : 0..MaxLevel + 1, item : Items]
  /\ unheard \subseteq Keys
  /\ again   \subseteq Items

Init ==
  /\ chunk   = [c \in Chunks |-> "absent"]
  /\ buffer  = [t \in Trees |-> [l \in 0..MaxLevel + 1 |-> {}]]
  /\ summary = [s \in SummaryIds |-> NULL]
  /\ parent  = [i \in Items |-> NULL]
  /\ top     = [t \in Trees |-> [root |-> NULL, level |-> 0]]
  /\ queue   = [k \in Keys |-> NoJob]
  /\ at      = [w \in Workers |-> "idle"]
  /\ held    = [w \in Workers |-> NULL]
  /\ seen    = [w \in Workers |-> {}]
  /\ faults  = 0
  /\ flushes = 0
  /\ caught  = {} /\ unheard = {} /\ again = {}

-----------------------------------------------------------------------------
(* enqueue_tx: a key with an active row is ignored.                        *)

IsActive(k) == queue[k].status \in {"ready", "running"}

Queued(forced) == [status |-> "ready", attempts |-> 0, forced |-> forced]

\* Mutant: the second of two enqueues is forgotten.
Enqueued_One(ks, forced) ==
  [k \in Keys |-> IF k \in ks /\ ~IsActive(k) /\ k = (CHOOSE j \in ks : TRUE)
                   THEN Queued(forced) ELSE queue[k]]

Enqueued(ks, forced) ==
  [k \in Keys |-> IF k \in ks /\ ~IsActive(k) THEN Queued(forced) ELSE queue[k]]

Fault(kind) ==
  /\ kind \in FaultKinds
  /\ faults < MaxFaults
  /\ faults' = faults + 1

-----------------------------------------------------------------------------
(* persist: only chunks that are new or still pending are scheduled; the   *)
(* upsert leaves the lifecycle of the others alone.                        *)

\* Mutant: every chunk of the batch is scheduled.
Unprocessed_All(batch) == batch

Unprocessed(batch) ==
  {c \in batch : chunk[c] \in {"absent", "pending_extraction"}}

Ingest(batch) ==
  /\ Unprocessed(batch) # {}
  /\ chunk' = [c \in Chunks |-> IF c \in Unprocessed(batch)
                                  THEN "pending_extraction" ELSE chunk[c]]
  /\ queue' = Enqueued({ExtractKey(c) : c \in Unprocessed(batch)}, FALSE)
  /\ UNCHANGED <<buffer, summary, parent, top, at, held, seen, faults, flushes, marks>>

\* enqueue_daily_jobs, as far as flush_stale goes.
ScheduleFlush ==
  /\ flushes < MaxFlushes
  /\ flushes' = flushes + 1
  /\ queue' = Enqueued({FlushKey}, FALSE)
  /\ UNCHANGED <<store, at, held, seen, faults, marks>>

-----------------------------------------------------------------------------
(* run_once: the LLM permit is taken before the claim.  A local backend    *)
(* keeps it while an LLM-bound handler runs, so nothing is claimed then;   *)
(* a cloud backend drops it right after the claim.                         *)

PermitTaken ==
  LocalLlm /\ \E w \in Workers : at[w] \in {"work", "llm"} /\ LlmBound(held[w])

\* A row that is tried again may still be waiting out its backoff, and then
\* does not hold back the kinds behind it.
Claimable(k) ==
  /\ queue[k].status = "ready"
  /\ \A j \in Keys :
       queue[j].status = "ready" /\ Rank(j) < Rank(k) => queue[j].attempts > 0

Claim(w) ==
  /\ at[w] = "idle"
  /\ ~PermitTaken
  /\ \E k \in {k \in Keys : Claimable(k)} :
        /\ held'  = [held EXCEPT ![w] = k]
        /\ queue' = [queue EXCEPT ![k].status = "running", ![k].attempts = @ + 1]
  /\ at' = [at EXCEPT ![w] = "work"]
  /\ UNCHANGED <<store, seen, faults, flushes, marks>>

Running(w, kind) == at[w] = "work" /\ held[w].kind = kind

Returns(w, result) == at' = [at EXCEPT ![w] = result]

\* The handler has done its writes; what follows them may still fail.
ReturnsLate(w) ==
  \/ Returns(w, "done") /\ UNCHANGED <<faults, again>>
  \/ Returns(w, "error") /\ Fault("late_error") /\ again' = again \cup {held[w].node}

\* History, on a push: a seal of this buffer waits for the model; and it asks for
\* a seal while a worker who has nothing more to do keeps the row of the last one.
NoteCaught(t, l, i) ==
  caught' = IF \E v \in Workers : at[v] = "llm" /\ held[v] = SealKey(t, l)
              THEN caught \cup {[tree |-> t, level |-> l, item |-> i]} ELSE caught

NoteUnheard(t, l, items) ==
  unheard' = IF ~ShouldSeal(l, items) THEN unheard
             ELSE IF \E v \in Workers : at[v] = "done" /\ held[v] = SealKey(t, l)
                    THEN unheard \cup {SealKey(t, l)} ELSE unheard \ {SealKey(t, l)}

NotePush(t, l, i, items) == NoteCaught(t, l, i) /\ NoteUnheard(t, l, items) /\ UNCHANGED again

\* History, when jobs are left unsettled: some of them have written.
NoteUnsettled(ws) ==
  again' = again \cup {held[w].node : w \in {w \in ws : /\ at[w] = "done"
                                                     /\ held[w].kind \in Placing}}

-----------------------------------------------------------------------------
(* handle_extract: scores the chunk, embeds it if it is kept, and commits  *)
(* verdict and follow-up jobs together, whatever the chunk's status was.   *)
(* The reads after the commit may fail the job.                            *)

HandleExtract(w) ==
  /\ Running(w, "extract_chunk")
  /\ LET c == held[w].node IN
       \/ /\ chunk' = [chunk EXCEPT ![c] = "admitted"]
          /\ queue' = Enqueued({AppendKey(SourceOf[c], c), RouteKey(c)}, FALSE)
          /\ ReturnsLate(w)
       \/ /\ chunk' = [chunk EXCEPT ![c] = "dropped"]
          /\ Returns(w, "done")
          /\ UNCHANGED <<queue, faults, again>>
  /\ UNCHANGED <<buffer, summary, parent, top, held, seen, flushes, caught, unheard>>

-----------------------------------------------------------------------------
(* handle_append_buffer: push, seal job and lifecycle in one transaction.  *)

\* Mutant: no seal job with the push.
SealIfDue_Never(t, l, items) == queue

SealIfDue(t, l, items) ==
  IF ShouldSeal(l, items) THEN Enqueued({SealKey(t, l)}, FALSE) ELSE queue

HandleAppend(w) ==
  /\ Running(w, "append_buffer")
  /\ LET t == held[w].tree
         i == held[w].node
     IN  /\ buffer' = Pushed(buffer, t, i)
         /\ queue'  = SealIfDue(t, 0, buffer'[t][0])
         /\ chunk'  = IF t \in SourceTrees THEN [chunk EXCEPT ![i] = "buffered"] ELSE chunk
         /\ NotePush(t, 0, i, buffer'[t][0])
  /\ Returns(w, "done")
  /\ UNCHANGED <<summary, parent, top, held, seen, faults, flushes>>

-----------------------------------------------------------------------------
(* handle_seal: reads the buffer, waits for the summariser, the extractor  *)
(* and the embedder, then commits what it has read.                        *)

SealReads(w) ==
  /\ Running(w, "seal")
  /\ LET items == buffer[held[w].tree][held[w].level]
         due   == items # {} /\ (queue[held[w]].forced \/ ShouldSeal(held[w].level, items))
     IN  \/ ~due /\ Returns(w, "done") /\ UNCHANGED seen
         \/ /\ due /\ Hydrated(held[w].level, items) = {}
            /\ Returns(w, "error")
            /\ UNCHANGED seen
         \/ /\ due /\ Hydrated(held[w].level, items) # {}
            /\ Returns(w, "llm")
            /\ seen' = [seen EXCEPT ![w] = items]
  /\ UNCHANGED <<store, queue, held, faults, flushes, marks>>

FollowUps(t, l, id, items) ==
  (IF ShouldSeal(l, items) THEN {SealKey(t, l)} ELSE {})
  \cup (IF t \in SourceTrees THEN {RouteKey(id)} ELSE {})

SealCommits(w, id, topics) ==
  LET t == held[w].tree
      l == held[w].level
  IN  /\ at[w] = "llm"
      /\ summary[id] = NULL
      /\ t \in TopicTrees => topics = {}
      /\ summary' = [summary EXCEPT ![id] = [tree |-> t, level |-> l + 1,
                                             children |-> seen[w], topics |-> topics]]
      /\ parent' = Backlinked(parent, l, seen[w], id)
      /\ buffer' = BuffersAfterSeal(buffer, t, l, id)
      /\ queue'  = Enqueued(FollowUps(t, l + 1, id, buffer'[t][l + 1]), FALSE)
      /\ top'    = Climbed(top, t, l + 1, id)
      /\ NotePush(t, l + 1, id, buffer'[t][l + 1])
      /\ Returns(w, "done")
      /\ UNCHANGED <<chunk, held, seen, faults, flushes>>

-----------------------------------------------------------------------------
(* handle_topic_route: one append job per topic tree of the node's         *)
(* entities, each in a transaction of its own.                             *)

TopicsOf(i) == IF i \in Chunks THEN Mentions[i] ELSE summary[i].topics

HandleRoute(w) ==
  /\ Running(w, "topic_route")
  /\ LET i == held[w].node IN
       \/ /\ queue' = Enqueued({AppendKey(t, i) : t \in TopicsOf(i)}, FALSE)
          /\ Returns(w, "done")
          /\ UNCHANGED <<faults, again>>
       \/ \E reached \in SUBSET TopicsOf(i) :
            /\ reached # TopicsOf(i)
            /\ queue' = Enqueued({AppendKey(t, i) : t \in reached}, FALSE)
            /\ Returns(w, "error")
            /\ Fault("error")
            /\ again' = IF reached = {} THEN again ELSE again \cup {i}
  /\ UNCHANGED <<store, held, seen, flushes, caught, unheard>>

\* handle_flush_stale: forced seals of stale level-0 buffers.  Any buffer with
\* items may be stale: oldest_at is the time of the content, not of the push.
HandleFlush(w) ==
  /\ Running(w, "flush_stale")
  /\ \E stale \in SUBSET {t \in Trees : buffer[t][0] # {}} :
        queue' = Enqueued({SealKey(t, 0) : t \in stale}, TRUE)
  /\ \/ Returns(w, "done") /\ UNCHANGED faults
     \/ Returns(w, "error") /\ Fault("error")
  /\ UNCHANGED <<store, held, seen, flushes, marks>>

\* Any handler before its first write: a read, the model or the disk fails.
HandlerFails(w) ==
  /\ at[w] \in {"work", "llm"}
  /\ Returns(w, "error")
  /\ Fault("error")
  /\ UNCHANGED <<store, queue, held, seen, flushes, marks>>

-----------------------------------------------------------------------------
(* mark_done and mark_failed, a settlement lost to SQLITE_BUSY, and a      *)
(* crash with its restart: the rows whose locks have run out by then are   *)
(* requeued, the others stay running.                                      *)

Poll(w) ==
  /\ at'   = [at EXCEPT ![w] = "idle"]
  /\ held' = [held EXCEPT ![w] = NULL]
  /\ seen' = [seen EXCEPT ![w] = {}]

Settled(w) ==
  LET row == queue[held[w]]
  IN  IF at[w] = "done" THEN NoJob
      ELSE [row EXCEPT !.status = IF row.attempts < MaxAttempts THEN "ready" ELSE "failed"]

Settle(w) ==
  /\ at[w] \in {"done", "error"}
  /\ queue' = [queue EXCEPT ![held[w]] = Settled(w)]
  /\ Poll(w)
  /\ UNCHANGED <<store, faults, flushes, marks>>

SettleBusy(w) ==
  /\ at[w] \in {"done", "error"}
  /\ Fault("busy")
  /\ Poll(w) /\ NoteUnsettled({w})
  /\ UNCHANGED <<store, queue, flushes, caught, unheard>>

CrashAndRestart ==
  /\ Fault("crash")
  /\ at'   = [w \in Workers |-> "idle"]
  /\ held' = [w \in Workers |-> NULL]
  /\ seen' = [w \in Workers |-> {}]
  /\ \E stale \in SUBSET {k \in Keys : queue[k].status = "running"} :
        queue' = [k \in Keys |-> IF k \in stale
                                   THEN [queue[k] EXCEPT !.status = "ready"] ELSE queue[k]]
  /\ NoteUnsettled(Workers)
  /\ UNCHANGED <<store, flushes, caught, unheard>>

SealStep(w) ==
  SealReads(w) \/ \E id \in SummaryIds, topics \in SUBSET TopicTrees : SealCommits(w, id, topics)

HandlerStep(w) ==
  \/ HandleExtract(w) \/ HandleAppend(w) \/ SealStep(w)
  \/ HandleRoute(w) \/ HandleFlush(w)

WorkerStep(w) ==
  Claim(w) \/ HandlerStep(w) \/ HandlerFails(w) \/ Settle(w) \/ SettleBusy(w)

Next ==
  \/ \E batch \in SUBSET Chunks : Ingest(batch)
  \/ ScheduleFlush
  \/ \E w \in Workers : WorkerStep(w)
  \/ CrashAndRestart

Spec == Init /\ [][Next]_vars

\* Fairness: workers keep polling, handlers return, settlements are written.
\* Ingest, the scheduler and faults are not fair.
FairSpec ==
  Spec /\ \A w \in Workers : /\ WF_vars(Claim(w))
                             /\ WF_vars(HandlerStep(w))
                             /\ WF_vars(Settle(w))

-----------------------------------------------------------------------------
(* Properties *)

Sealed(t) == {s \in SummaryIds : summary[s] # NULL /\ summary[s].tree = t}

Caught(t, l, i) == [tree |-> t, level |-> l, item |-> i] \in caught

Holds(t, l, i) ==
  \/ i \in buffer[t][l]
  \/ \E s \in Sealed(t) : summary[s].level = l + 1 /\ i \in summary[s].children

\* Nothing is lost but to one race: a chunk whose status is buffered waits at level
\* 0 of its source tree or is a child of a summary there, and a summary waits at its
\* level or is a child of one above (bucket_seal.rs: "its items move into the new
\* summary's child_ids"), unless it was pushed while a seal of that very buffer
\* waited for the model.
NothingLost ==
  /\ \A c \in Chunks : chunk[c] = "buffered" /\ ~Caught(SourceOf[c], 0, c) => Holds(SourceOf[c], 0, c)
  /\ \A t \in Trees : \A s \in Sealed(t) :
       ~Caught(t, summary[s].level, s) => Holds(t, summary[s].level, s)

\* Nothing is counted twice, whatever workers interleave: an item is a child of at
\* most one summary of a tree (bucket_seal.rs: "a child seals at most once"), unless a
\* job that brings it there was handed out again after its writes.
SealedOnce ==
  \A t \in Trees : \A s, r \in Sealed(t) :
    s # r => summary[r].children \cap summary[s].children \subseteq again

\* A buffer that meets its gate has a seal job that is queued, running or given up
\* (handlers/mod.rs: "If the gate is met, enqueue a seal job atomically"), unless the
\* push that met it came while the last seal of the buffer, through with its work, was
\* not settled yet.
GateArmed ==
  \A t \in Trees, l \in Levels :
    ShouldSeal(l, buffer[t][l]) =>
      queue[SealKey(t, l)].status # "none" \/ SealKey(t, l) \in unheard

\* The root is a summary of the highest level that has sealed, and
\* backlinks name a summary that has the item among its children.
RootIsTop ==
  /\ \A t \in Trees :
       IF Sealed(t) = {} THEN top[t] = [root |-> NULL, level |-> 0]
       ELSE /\ top[t].root \in Sealed(t)
            /\ summary[top[t].root].level = top[t].level
            /\ \A s \in Sealed(t) : summary[s].level <= top[t].level
  /\ \A i \in Items : parent[i] # NULL => i \in summary[parent[i]].children

\* What is stored of a tree is well typed, and its root and backlinks agree with
\* the summaries that have sealed, whatever order the levels seal in.
TreeInv == TypeOK /\ RootIsTop

\* Action property: a backlink is final, although an item may be sealed again
\* after a crash or in another tree.
BacklinksFinal ==
  [][\A i \in Items : parent[i] # NULL => parent'[i] = parent[i]]_vars

\* The trees implement the ledger, whatever workers and faults do: but for the items
\* that were caught or come again, each arrives once at a level and is rolled up once.
Waiting ==
  UNION {{[tree |-> t, level |-> l, item |-> i] : i \in buffer[t][l]} :
           t \in Trees, l \in 0..MaxLevel + 1}

RolledUp ==
  UNION {{[tree |-> summary[s].tree, level |-> summary[s].level - 1, item |-> i] :
            i \in summary[s].children} : s \in {s \in SummaryIds : summary[s] # NULL}}

Rollup == INSTANCE RollupLedger WITH waiting <- Waiting, rolled <- RolledUp

ImplementsRollup == Rollup!RollupSpec

\* Liveness of the pool: an ingested chunk is eventually dropped or in its tree, through
\* extraction, admission and re-ingests (ChunksPlaced), and a buffer that meets its gate
\* is eventually sealed unless its wake-up was not heard (GatesDrain).
ChunksPlaced ==
  \A c \in Chunks :
    chunk[c] = "pending_extraction" ~> chunk[c] \in {"buffered", "dropped"}

GatesDrain ==
  \A t \in Trees, l \in Levels :
    ShouldSeal(l, buffer[t][l]) ~> ~ShouldSeal(l, buffer[t][l]) \/ SealKey(t, l) \in unheard

PipelineFlows == ChunksPlaced /\ GatesDrain
=============================================================================
