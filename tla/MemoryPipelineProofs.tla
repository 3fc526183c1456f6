------------------------ MODULE MemoryPipelineProofs ------------------------
(***************************************************************************)
(* Theorems about MemoryPipeline, for any chunks, trees, workers, limits   *)
(* and faults.  What goes wrong in the code goes wrong for single entries  *)
(* and items: those that history records as caught, unheard or again.  The *)
(* theorems speak of all the others, in every behaviour.                   *)
(***************************************************************************)
EXTENDS MemoryPipeline, TLAPS

-----------------------------------------------------------------------------
(* Keys.                                                                   *)

\* The dedupe keys of different kinds differ, and the payload of a job is that
\* of its key.
LEMMA KeyFields ==
  ASSUME NEW k \in Keys
  PROVE  /\ k.kind \in {"extract_chunk", "append_buffer", "seal", "topic_route", "flush_stale"}
         /\ k.kind = "extract_chunk" => k.node \in Chunks /\ k = ExtractKey(k.node)
         /\ k.kind = "append_buffer" =>
              /\ k = AppendKey(k.tree, k.node) /\ k.tree \in Trees /\ k.node \in Items
              /\ \/ k.tree \in TopicTrees
                 \/ k.tree \in SourceTrees /\ k.node \in Chunks /\ k.tree = SourceOf[k.node]
         /\ k.kind = "seal" =>
              k.tree \in Trees /\ k.level \in Levels /\ k = SealKey(k.tree, k.level)
         /\ k.kind = "topic_route" => k.node \in Items /\ k = RouteKey(k.node)
<1> USE DEF ExtractKey, AppendKey, SealKey, RouteKey, FlushKey
<1>1. CASE \E c \in Chunks : k = ExtractKey(c)
  BY <1>1
<1>2. CASE \E c \in Chunks : k = AppendKey(SourceOf[c], c)
  <2>1. PICK c \in Chunks : k = AppendKey(SourceOf[c], c)
    BY <1>2
  <2>2. k.kind = "append_buffer" /\ k.tree = SourceOf[c] /\ k.node = c
    BY <2>1
  <2>3. SourceOf[c] \in SourceTrees
    BY MemoryPipelineAssumption
  <2> QED
    BY <2>1, <2>2, <2>3 DEF Trees, Items
<1>3. CASE \E t \in TopicTrees, i \in Items : k = AppendKey(t, i)
  BY <1>3 DEF Trees
<1>4. CASE \E t \in Trees, l \in Levels : k = SealKey(t, l)
  BY <1>4
<1>5. CASE \E i \in Items : k = RouteKey(i)
  BY <1>5
<1>6. CASE k = FlushKey
  BY <1>6
<1> QED
  BY <1>1, <1>2, <1>3, <1>4, <1>5, <1>6 DEF Keys

\* Two keys are the same only when kind and payload are.
LEMMA KeysApart ==
  /\ \A c, d : ExtractKey(c) = ExtractKey(d) => c = d
  /\ \A t, i, u, j : AppendKey(t, i) = AppendKey(u, j) => t = u /\ i = j
  /\ \A t, l, u, m : SealKey(t, l) = SealKey(u, m) => t = u /\ l = m
  /\ \A i, j : RouteKey(i) = RouteKey(j) => i = j
  /\ \A c : ExtractKey(c).kind = "extract_chunk"
  /\ \A t, i : AppendKey(t, i).kind = "append_buffer"
  /\ \A t, l : SealKey(t, l).kind = "seal"
  /\ \A i : RouteKey(i).kind = "topic_route"
  /\ FlushKey.kind = "flush_stale"
<1> USE DEF ExtractKey, AppendKey, SealKey, RouteKey, FlushKey
<1>1. \A c, d : ExtractKey(c) = ExtractKey(d) => c = d
  <2> TAKE c, d
  <2>1. ExtractKey(c).node = c /\ ExtractKey(d).node = d
    OBVIOUS
  <2> QED
    BY <2>1
<1>2. \A t, i, u, j : AppendKey(t, i) = AppendKey(u, j) => t = u /\ i = j
  <2> TAKE t, i, u, j
  <2>1. /\ AppendKey(t, i).tree = t /\ AppendKey(u, j).tree = u
        /\ AppendKey(t, i).node = i /\ AppendKey(u, j).node = j
    OBVIOUS
  <2> QED
    BY <2>1
<1>3. \A t, l, u, m : SealKey(t, l) = SealKey(u, m) => t = u /\ l = m
  <2> TAKE t, l, u, m
  <2>1. /\ SealKey(t, l).tree = t /\ SealKey(u, m).tree = u
        /\ SealKey(t, l).level = l /\ SealKey(u, m).level = m
    OBVIOUS
  <2> QED
    BY <2>1
<1>4. \A i, j : RouteKey(i) = RouteKey(j) => i = j
  <2> TAKE i, j
  <2>1. RouteKey(i).node = i /\ RouteKey(j).node = j
    OBVIOUS
  <2> QED
    BY <2>1
<1> QED
  BY <1>1, <1>2, <1>3, <1>4

LEMMA KeysOf ==
  /\ \A c \in Chunks : ExtractKey(c) \in Keys /\ AppendKey(SourceOf[c], c) \in Keys
  /\ \A t \in TopicTrees, i \in Items : AppendKey(t, i) \in Keys
  /\ \A t \in Trees, l \in Levels : SealKey(t, l) \in Keys
  /\ \A i \in Items : RouteKey(i) \in Keys
  /\ FlushKey \in Keys
BY DEF Keys

-----------------------------------------------------------------------------
(* The job table.                                                          *)

Table == [Keys -> JobRow]

\* enqueue_tx makes the keys it is given active and leaves every other row, and
\* every active one, alone.
LEMMA EnqueuedFacts ==
  ASSUME queue \in Table, NEW ks, NEW forced \in BOOLEAN
  PROVE  /\ Enqueued(ks, forced) \in Table
         /\ \A k \in Keys :
              /\ k \in ks => Enqueued(ks, forced)[k].status \in {"ready", "running"}
              /\ k \notin ks \/ IsActive(k) => Enqueued(ks, forced)[k] = queue[k]
              /\ k \in ks /\ ~IsActive(k) => Enqueued(ks, forced)[k].status = "ready"
<1>1. Queued(forced) \in JobRow /\ Queued(forced).status = "ready"
  BY DEF Queued, JobRow
<1> HIDE DEF Queued
<1>2. Enqueued(ks, forced) \in Table
  BY <1>1 DEF Enqueued, Table
<1>3. ASSUME NEW k \in Keys
      PROVE  Enqueued(ks, forced)[k] = IF k \in ks /\ ~IsActive(k) THEN Queued(forced) ELSE queue[k]
  BY DEF Enqueued
<1> QED
  BY <1>1, <1>2, <1>3 DEF IsActive

\* The claim of one ready row.
LEMMA ClaimFacts ==
  ASSUME TypeOK, NEW w \in Workers, Claim(w)
  PROVE  \E k \in Keys :
           /\ queue[k].status = "ready"
           /\ queue' \in Table /\ queue'[k].status = "running"
           /\ \A j \in Keys \ {k} : queue'[j] = queue[j]
           /\ held' = [held EXCEPT ![w] = k] /\ at' = [at EXCEPT ![w] = "work"]
           /\ at[w] = "idle" /\ UNCHANGED <<store, seen, faults, flushes, marks>>
<1>1. PICK k \in {k \in Keys : Claimable(k)} :
        /\ held'  = [held EXCEPT ![w] = k]
        /\ queue' = [queue EXCEPT ![k].status = "running", ![k].attempts = @ + 1]
  BY DEF Claim
<1>2. k \in Keys /\ queue[k].status = "ready" /\ queue \in Table
  BY DEF Claimable, TypeOK, Table
<1>3. PICK s, n, f : queue[k] = [status |-> s, attempts |-> n, forced |-> f]
                     /\ n \in Nat /\ f \in BOOLEAN
  BY <1>2 DEF Table, JobRow
<1>4. queue'[k] = [status |-> "running", attempts |-> n + 1, forced |-> f]
  BY <1>1, <1>2, <1>3 DEF Table
<1>5. queue'[k] \in JobRow /\ queue'[k].status = "running"
  <2>1. n + 1 \in Nat
    BY <1>3
  <2> QED
    BY <1>3, <1>4, <2>1 DEF JobRow
<1>6. \A j \in Keys \ {k} : queue'[j] = queue[j]
  BY <1>1, <1>2 DEF Table
<1>7. queue' \in Table
  BY <1>1, <1>2, <1>5, <1>6 DEF Table
<1> QED
  BY <1>1, <1>2, <1>5, <1>6, <1>7 DEF Claim

\* A settlement ends or requeues one row.
LEMMA SettledFacts ==
  ASSUME TypeOK, NEW w \in Workers, held[w] \in Keys
  PROVE  /\ Settled(w) \in JobRow
         /\ at[w] = "done" => Settled(w).status = "none"
         /\ at[w] # "done" => Settled(w).status \in {"ready", "failed"}
<1> DEFINE row == queue[held[w]]
<1>1. row \in JobRow
  BY DEF TypeOK
<1>2. PICK s, n, f : row = [status |-> s, attempts |-> n, forced |-> f]
                     /\ n \in Nat /\ f \in BOOLEAN
  BY <1>1 DEF JobRow
<1>3. CASE at[w] = "done"
  <2>1. Settled(w) = NoJob
    BY <1>3 DEF Settled
  <2> QED
    BY <1>3, <2>1 DEF NoJob, JobRow
<1>4. CASE at[w] # "done"
  <2> DEFINE x == IF row.attempts < MaxAttempts THEN "ready" ELSE "failed"
  <2>1. Settled(w) = [row EXCEPT !.status = x]
    BY <1>4 DEF Settled
  <2>2. x \in {"ready", "failed"}
    OBVIOUS
  <2> HIDE DEF x
  <2>3. [row EXCEPT !.status = x] \in JobRow /\ [row EXCEPT !.status = x].status = x
    BY <1>2, <2>2 DEF JobRow
  <2> QED
    BY <1>4, <2>1, <2>2, <2>3
<1> QED
  BY <1>3, <1>4

-----------------------------------------------------------------------------
(* The tables of the trees.                                                *)

Frontiers == [Trees -> [0..MaxLevel + 1 -> SUBSET Items]]

LEMMA LevelFacts ==
  /\ Levels \subseteq 0..MaxLevel + 1 /\ 0 \in 0..MaxLevel + 1 /\ 0 \in Levels
  /\ \A l \in Levels : /\ l \in Nat /\ l + 1 \in Nat /\ l + 1 # l
                        /\ l \in 0..MaxLevel + 1 /\ l + 1 \in 0..MaxLevel + 1
BY SummaryTreeAssumption DEF Levels

\* append_to_buffer touches level 0 of one tree.
LEMMA PushedFacts ==
  ASSUME buffer \in Frontiers, NEW t \in Trees, NEW i \in Items
  PROVE  /\ Pushed(buffer, t, i) \in Frontiers
         /\ Pushed(buffer, t, i)[t][0] = buffer[t][0] \cup {i}
         /\ \A u \in Trees, m \in 0..MaxLevel + 1 :
              u # t \/ m # 0 => Pushed(buffer, t, i)[u][m] = buffer[u][m]
<1> DEFINE row == [buffer[t] EXCEPT ![0] = @ \cup {i}]
<1>1. Pushed(buffer, t, i) = [buffer EXCEPT ![t] = row]
  BY DEF Pushed
<1>2. buffer[t] \in [0..MaxLevel + 1 -> SUBSET Items]
  BY DEF Frontiers
<1>3. /\ row \in [0..MaxLevel + 1 -> SUBSET Items] /\ row[0] = buffer[t][0] \cup {i}
      /\ \A m \in 0..MaxLevel + 1 : m # 0 => row[m] = buffer[t][m]
  BY <1>2, LevelFacts
<1> HIDE DEF row
<1> QED
  BY <1>1, <1>3 DEF Frontiers

\* The commit of a seal empties its level and adds the summary one level above.
LEMMA SealedBufferFacts ==
  ASSUME buffer \in Frontiers, NEW t \in Trees, NEW l \in Levels, NEW id \in Items
  PROVE  /\ BuffersAfterSeal(buffer, t, l, id) \in Frontiers
         /\ BuffersAfterSeal(buffer, t, l, id)[t][l] = {}
         /\ BuffersAfterSeal(buffer, t, l, id)[t][l + 1] = buffer[t][l + 1] \cup {id}
         /\ \A u \in Trees, m \in 0..MaxLevel + 1 :
              u # t \/ (m # l /\ m # l + 1) =>
                BuffersAfterSeal(buffer, t, l, id)[u][m] = buffer[u][m]
<1> DEFINE row == LevelsAfterSeal(buffer[t], l, id)
<1>0. l \in 0..MaxLevel + 1 /\ l + 1 \in 0..MaxLevel + 1 /\ l + 1 # l
  BY LevelFacts
<1>1. BuffersAfterSeal(buffer, t, l, id) = [buffer EXCEPT ![t] = row]
  BY DEF BuffersAfterSeal
<1>2. buffer[t] \in [0..MaxLevel + 1 -> SUBSET Items]
  BY DEF Frontiers
<1>4. row \in [0..MaxLevel + 1 -> SUBSET Items]
  BY <1>0, <1>2 DEF LevelsAfterSeal
<1>5. /\ row[l] = {} /\ row[l + 1] = buffer[t][l + 1] \cup {id}
      /\ \A m \in 0..MaxLevel + 1 : m # l /\ m # l + 1 => row[m] = buffer[t][m]
  BY <1>0, <1>2 DEF LevelsAfterSeal
<1> HIDE DEF row
<1> QED
  BY <1>1, <1>4, <1>5 DEF Frontiers

\* What a committed seal leaves in the table of summaries.
NewSummary(w, topics) ==
  [tree |-> held[w].tree, level |-> held[w].level + 1, children |-> seen[w], topics |-> topics]

\* What the steps of a seal and of a push are about.
HeldInv ==
  /\ \A w \in Workers : at[w] # "idle" =>
       held[w] \in Keys /\ queue[held[w]].status = "running"
  /\ \A w \in Workers : at[w] = "llm" => held[w].kind = "seal"
  /\ \A v, w \in Workers :
       v # w /\ at[v] # "idle" /\ at[w] # "idle" => held[v] # held[w]

TypeInv == TypeOK /\ HeldInv

MarksTyped ==
  /\ caught  \subseteq [tree : Trees, level : 0..MaxLevel + 1, item : Items]
  /\ unheard \subseteq Keys
  /\ again   \subseteq Items

\* What a push records is well typed.
LEMMA NotesTyped ==
  ASSUME HeldInv, MarksTyped, NEW t \in Trees, NEW l \in 0..MaxLevel + 1, NEW i \in Items,
         NEW items, NotePush(t, l, i, items)
  PROVE  MarksTyped'
<1>1. [tree |-> t, level |-> l, item |-> i] \in [tree : Trees, level : 0..MaxLevel + 1, item : Items]
  OBVIOUS
<1>2. caught' \subseteq [tree : Trees, level : 0..MaxLevel + 1, item : Items]
  BY <1>1 DEF NotePush, NoteCaught, MarksTyped
<1>3. unheard' \subseteq Keys
  BY DEF NotePush, NoteUnheard, MarksTyped, HeldInv
<1> QED
  BY <1>2, <1>3 DEF NotePush, MarksTyped

LEMMA SealFacts ==
  ASSUME TypeInv, NEW w \in Workers, NEW id \in SummaryIds, NEW topics \in SUBSET TopicTrees,
         SealCommits(w, id, topics)
  PROVE  /\ held[w].tree \in Trees /\ held[w].level \in Levels
         /\ held[w] = SealKey(held[w].tree, held[w].level) /\ held[w] \in Keys
         /\ NewSummary(w, topics) \in Summary
         /\ summary' = [summary EXCEPT ![id] = NewSummary(w, topics)]
         /\ id \in Items
<1>1. at[w] = "llm" /\ held[w] \in Keys /\ held[w].kind = "seal"
  BY DEF SealCommits, TypeInv, HeldInv
<1>2. /\ held[w].tree \in Trees /\ held[w].level \in Levels
      /\ held[w] = SealKey(held[w].tree, held[w].level)
  BY <1>1, KeyFields
<1>3. held[w].level + 1 \in Nat /\ seen[w] \subseteq Items
  <2>1. held[w].level + 1 \in Nat
    BY <1>2, LevelFacts, Zenon
  <2> QED
    BY <2>1 DEF TypeInv, TypeOK
<1>4. NewSummary(w, topics) \in Summary
  BY <1>2, <1>3 DEF NewSummary, Summary
<1> QED
  BY <1>1, <1>2, <1>4 DEF SealCommits, NewSummary, Items

LEMMA TypeInit == Init => TypeInv
<1>1. Levels \subseteq 0..MaxLevel + 1
  BY LevelFacts
<1>2. NoJob \in JobRow
  BY DEF NoJob, JobRow
<1> QED
  BY <1>1, <1>2 DEF Init, TypeInv, TypeOK, HeldInv, Lifecycle

LEMMA TypeStep == TypeInv /\ [Next]_vars => TypeInv'
<1> SUFFICES ASSUME TypeInv, [Next]_vars PROVE TypeInv'
  OBVIOUS
<1>0. /\ TypeOK /\ HeldInv /\ queue \in Table /\ buffer \in Frontiers
      /\ chunk \in [Chunks -> Lifecycle]
      /\ at \in [Workers -> {"idle", "work", "llm", "done", "error"}]
      /\ held \in [Workers -> Keys \cup {NULL}] /\ seen \in [Workers -> SUBSET Items]
      /\ faults \in Nat /\ flushes \in Nat /\ flushes + 1 \in Nat
      /\ top \in [Trees -> [root : SummaryIds \cup {NULL}, level : Nat]]
      /\ summary \in [SummaryIds -> Summary \cup {NULL}]
      /\ parent \in [Items -> SummaryIds \cup {NULL}]
      /\ MarksTyped
  BY DEF TypeInv, TypeOK, Table, Frontiers, MarksTyped
<1>q. ASSUME NEW ks, NEW forced \in BOOLEAN, queue' = Enqueued(ks, forced)
      PROVE  queue' \in Table /\ \A k \in Keys : IsActive(k) => queue'[k] = queue[k]
  BY <1>0, <1>q, EnqueuedFacts
<1>a. ASSUME NEW w \in Workers, NEW result \in {"work", "llm", "done", "error"},
             at[w] # "idle", Returns(w, result), UNCHANGED held,
             result = "llm" => held[w].kind = "seal",
             queue' \in Table,
             \A k \in Keys : IsActive(k) => queue'[k] = queue[k]
      PROVE  HeldInv' /\ at' \in [Workers -> {"idle", "work", "llm", "done", "error"}]
  BY <1>0, <1>a DEF Returns, HeldInv, IsActive
<1>n. ASSUME NEW w \in Workers, held[w] \in Keys, held[w].kind \in Placing
      PROVE  held[w].node \in Items
  BY <1>n, KeyFields DEF Placing, Items
<1>u. ASSUME NEW ws \in SUBSET Workers, NoteUnsettled(ws), UNCHANGED <<caught, unheard>>
      PROVE  MarksTyped'
  <2> SUFFICES ASSUME NEW w \in ws, at[w] = "done", held[w].kind \in Placing
               PROVE  held[w].node \in Items
    BY <1>0, <1>u DEF NoteUnsettled, MarksTyped
  <2> QED
    BY <1>0, <1>n DEF HeldInv
<1>b. ASSUME NEW w \in Workers, Fault("error") \/ Fault("late_error") \/ UNCHANGED faults
      PROVE  faults' \in Nat
  BY <1>0, <1>b DEF Fault
<1>1. ASSUME NEW batch \in SUBSET Chunks, Ingest(batch) PROVE TypeInv'
  <2> DEFINE ks == {ExtractKey(c) : c \in Unprocessed(batch)}
  <2>1. queue' = Enqueued(ks, FALSE)
    BY <1>1 DEF Ingest
  <2> HIDE DEF ks
  <2>2. queue' \in Table /\ \A k \in Keys : IsActive(k) => queue'[k] = queue[k]
    BY <1>q, <2>1
  <2>3. chunk' \in [Chunks -> Lifecycle]
    BY <1>0, <1>1 DEF Ingest, Lifecycle
  <2>4. HeldInv'
    BY <1>0, <1>1, <2>2 DEF Ingest, HeldInv, IsActive
  <2> QED
    BY <1>0, <1>1, <2>2, <2>3, <2>4 DEF Ingest, TypeInv, TypeOK, Table, marks, MarksTyped
<1>2. CASE ScheduleFlush
  <2>1. queue' \in Table /\ \A k \in Keys : IsActive(k) => queue'[k] = queue[k]
    BY <1>2, <1>q DEF ScheduleFlush
  <2>2. HeldInv'
    BY <1>0, <1>2, <2>1 DEF ScheduleFlush, HeldInv, IsActive
  <2> QED
    BY <1>0, <1>2, <2>1, <2>2 DEF ScheduleFlush, TypeInv, TypeOK, Table, store, marks, MarksTyped
<1>3. ASSUME NEW w \in Workers, Claim(w) PROVE TypeInv'
  <2>1. PICK k \in Keys :
           /\ queue[k].status = "ready"
           /\ queue' \in Table /\ queue'[k].status = "running"
           /\ \A j \in Keys \ {k} : queue'[j] = queue[j]
           /\ held' = [held EXCEPT ![w] = k] /\ at' = [at EXCEPT ![w] = "work"]
           /\ at[w] = "idle" /\ UNCHANGED <<store, seen, faults, flushes, marks>>
    BY <1>0, <1>3, ClaimFacts
  <2>2. \A v \in Workers : at[v] # "idle" => held[v] # k /\ held[v] \in Keys
    BY <1>0, <2>1 DEF HeldInv
  <2>3. HeldInv'
    BY <1>0, <2>1, <2>2 DEF HeldInv
  <2> QED
    BY <1>0, <2>1, <2>3 DEF TypeInv, TypeOK, Table, store, marks, MarksTyped
<1>4. ASSUME NEW w \in Workers, HandleExtract(w) PROVE TypeInv'
  <2>1. held[w] \in Keys /\ at[w] # "idle" /\ held[w].kind = "extract_chunk"
    BY <1>0, <1>4 DEF HandleExtract, Running, HeldInv
  <2>2. held[w].node \in Chunks
    BY <2>1, KeyFields
  <2>3. chunk' \in [Chunks -> Lifecycle]
    BY <1>0, <1>4, <2>2 DEF HandleExtract, Lifecycle
  <2>4. queue' \in Table /\ \A k \in Keys : IsActive(k) => queue'[k] = queue[k]
    BY <1>0, <1>4, <1>q DEF HandleExtract
  <2>5. Returns(w, "done") \/ Returns(w, "error")
    BY <1>4 DEF HandleExtract, ReturnsLate
  <2>6. UNCHANGED <<buffer, summary, parent, top, held, seen, flushes>>
    BY <1>4 DEF HandleExtract
  <2>7. HeldInv' /\ at' \in [Workers -> {"idle", "work", "llm", "done", "error"}]
    BY <1>a, <2>1, <2>4, <2>5, <2>6
  <2>8. faults' \in Nat
    BY <1>4, <1>b DEF HandleExtract, ReturnsLate
  <2>9. MarksTyped'
    BY <1>0, <1>4, <2>2 DEF HandleExtract, ReturnsLate, MarksTyped, Items
  <2> QED
    BY <1>0, <2>3, <2>4, <2>6, <2>7, <2>8, <2>9 DEF TypeInv, TypeOK, Table, marks, MarksTyped
<1>5. ASSUME NEW w \in Workers, HandleAppend(w) PROVE TypeInv'
  <2> DEFINE t == held[w].tree
             i == held[w].node
  <2>1. held[w] \in Keys /\ at[w] # "idle" /\ held[w].kind = "append_buffer"
    BY <1>0, <1>5 DEF HandleAppend, Running, HeldInv
  <2>2. t \in Trees /\ i \in Items
    BY <2>1, KeyFields
  <2>3. /\ buffer' = Pushed(buffer, t, i)
        /\ queue' = SealIfDue(t, 0, buffer'[t][0])
        /\ chunk' = IF t \in SourceTrees THEN [chunk EXCEPT ![i] = "buffered"] ELSE chunk
        /\ NotePush(t, 0, i, buffer'[t][0])
        /\ Returns(w, "done") /\ UNCHANGED <<summary, parent, top, held, seen, faults, flushes>>
    BY <1>5 DEF HandleAppend
  <2> HIDE DEF t, i
  <2>4. buffer' \in Frontiers
    BY <1>0, <2>2, <2>3, PushedFacts
  <2>5. queue' \in Table /\ \A k \in Keys : IsActive(k) => queue'[k] = queue[k]
    BY <1>0, <1>q, <2>3 DEF SealIfDue
  <2>6. chunk' \in [Chunks -> Lifecycle]
    BY <1>0, <2>3 DEF Lifecycle
  <2>7. HeldInv' /\ at' \in [Workers -> {"idle", "work", "llm", "done", "error"}]
    BY <1>a, <2>1, <2>3, <2>5
  <2>8. MarksTyped'
    BY <1>0, <2>2, <2>3, LevelFacts, NotesTyped
  <2> QED
    BY <1>0, <2>3, <2>4, <2>5, <2>6, <2>7, <2>8 DEF TypeInv, TypeOK, Table, Frontiers, marks, MarksTyped
<1>6. ASSUME NEW w \in Workers, SealReads(w) PROVE TypeInv'
  <2>1. held[w] \in Keys /\ at[w] # "idle" /\ held[w].kind = "seal"
    BY <1>0, <1>6 DEF SealReads, Running, HeldInv
  <2>2. held[w].tree \in Trees /\ held[w].level \in 0..MaxLevel + 1
    BY <2>1, KeyFields, LevelFacts
  <2>3. UNCHANGED <<store, queue, held, faults, flushes, marks>>
    BY <1>6 DEF SealReads
  <2>4. \/ Returns(w, "done") \/ Returns(w, "error") \/ Returns(w, "llm")
    BY <1>6 DEF SealReads
  <2>5. seen' \in [Workers -> SUBSET Items]
    <3>0. buffer[held[w].tree] \in [0..MaxLevel + 1 -> SUBSET Items]
      BY <1>0, <2>2 DEF Frontiers
    <3>1. buffer[held[w].tree][held[w].level] \subseteq Items
      BY <2>2, <3>0
    <3> QED
      BY <1>0, <1>6, <3>1 DEF SealReads
  <2>6. HeldInv' /\ at' \in [Workers -> {"idle", "work", "llm", "done", "error"}]
    BY <1>0, <1>a, <2>1, <2>3, <2>4
  <2> QED
    BY <1>0, <2>3, <2>5, <2>6 DEF TypeInv, TypeOK, store, marks, MarksTyped
<1>7. ASSUME NEW w \in Workers, NEW id \in SummaryIds, NEW topics \in SUBSET TopicTrees,
             SealCommits(w, id, topics)
      PROVE  TypeInv'
  <2> DEFINE t == held[w].tree
             l == held[w].level
             ks == FollowUps(t, l + 1, id, buffer'[t][l + 1])
  <2>1. /\ t \in Trees /\ l \in Levels /\ held[w] \in Keys /\ id \in Items
        /\ NewSummary(w, topics) \in Summary
        /\ summary' = [summary EXCEPT ![id] = NewSummary(w, topics)]
    BY <1>7, SealFacts
  <2>2. /\ at[w] = "llm"
        /\ parent' = Backlinked(parent, l, seen[w], id)
        /\ buffer' = BuffersAfterSeal(buffer, t, l, id)
        /\ queue'  = Enqueued(ks, FALSE)
        /\ top'    = Climbed(top, t, l + 1, id)
        /\ NotePush(t, l + 1, id, buffer'[t][l + 1])
        /\ Returns(w, "done")
        /\ UNCHANGED <<chunk, held, seen, faults, flushes>>
    BY <1>7 DEF SealCommits
  <2> HIDE DEF t, l, ks
  <2>3. summary' \in [SummaryIds -> Summary \cup {NULL}]
    BY <1>0, <2>1
  <2>4. parent' \in [Items -> SummaryIds \cup {NULL}]
    BY <1>0, <2>2 DEF Backlinked
  <2>5. buffer' \in Frontiers
    BY <1>0, <2>1, <2>2, SealedBufferFacts
  <2>6. top' \in [Trees -> [root : SummaryIds \cup {NULL}, level : Nat]]
    <3>1. l + 1 \in Nat
      BY <2>1, LevelFacts
    <3>2. [root |-> id, level |-> l + 1] \in [root : SummaryIds \cup {NULL}, level : Nat]
      BY <3>1
    <3> QED
      BY <1>0, <2>1, <2>2, <3>2 DEF Climbed
  <2>7. queue' \in Table /\ \A k \in Keys : IsActive(k) => queue'[k] = queue[k]
    BY <1>q, <2>2
  <2>8. HeldInv' /\ at' \in [Workers -> {"idle", "work", "llm", "done", "error"}]
    BY <1>a, <2>2, <2>7
  <2>9. MarksTyped'
    <3>1. l + 1 \in 0..MaxLevel + 1
      BY <2>1, LevelFacts
    <3> QED
      BY <1>0, <2>1, <2>2, <3>1, NotesTyped
  <2> QED
    BY <1>0, <2>2, <2>3, <2>4, <2>5, <2>6, <2>7, <2>8, <2>9 DEF TypeInv, TypeOK, Table, Frontiers, marks, MarksTyped
<1>8. ASSUME NEW w \in Workers, HandleRoute(w) \/ HandleFlush(w) PROVE TypeInv'
  <2>1. at[w] # "idle"
    BY <1>8 DEF HandleRoute, HandleFlush, Running
  <2>2. UNCHANGED <<store, held, seen, flushes>>
    BY <1>8 DEF HandleRoute, HandleFlush
  <2>3. (\E ks : queue' = Enqueued(ks, FALSE)) \/ (\E ks : queue' = Enqueued(ks, TRUE))
    BY <1>8 DEF HandleRoute, HandleFlush
  <2>4. queue' \in Table /\ \A k \in Keys : IsActive(k) => queue'[k] = queue[k]
    BY <1>q, <2>3
  <2>5. Returns(w, "done") \/ Returns(w, "error")
    BY <1>8 DEF HandleRoute, HandleFlush
  <2>6. HeldInv' /\ at' \in [Workers -> {"idle", "work", "llm", "done", "error"}]
    BY <1>a, <2>1, <2>2, <2>4, <2>5
  <2>7. faults' \in Nat
    BY <1>8, <1>b DEF HandleRoute, HandleFlush
  <2>8. MarksTyped'
    <3>1. CASE HandleRoute(w)
      <4>1. held[w].node \in Items
        BY <1>0, <1>n, <2>1, <3>1 DEF HandleRoute, Running, HeldInv, Placing
      <4> QED
        BY <1>0, <3>1, <4>1 DEF HandleRoute, MarksTyped
    <3>2. CASE HandleFlush(w)
      BY <1>0, <3>2 DEF HandleFlush, MarksTyped, marks
    <3> QED
      BY <1>8, <3>1, <3>2
  <2> QED
    BY <1>0, <2>2, <2>4, <2>6, <2>7, <2>8 DEF TypeInv, TypeOK, Table, store, marks, MarksTyped
<1>9. ASSUME NEW w \in Workers, HandlerFails(w) PROVE TypeInv'
  <2>1. at[w] # "idle" /\ Returns(w, "error") /\ UNCHANGED <<store, queue, held, seen, flushes, marks>>
    BY <1>9 DEF HandlerFails
  <2>2. HeldInv' /\ at' \in [Workers -> {"idle", "work", "llm", "done", "error"}]
    BY <1>0, <1>a, <2>1
  <2>3. faults' \in Nat
    BY <1>0, <1>9 DEF HandlerFails, Fault
  <2> QED
    BY <1>0, <2>1, <2>2, <2>3 DEF TypeInv, TypeOK, store, marks, MarksTyped
<1>10. ASSUME NEW w \in Workers, Settle(w) \/ SettleBusy(w) PROVE TypeInv'
  <2>1. at[w] # "idle" /\ held[w] \in Keys
    BY <1>0, <1>10 DEF Settle, SettleBusy, HeldInv
  <2>2. /\ at' = [at EXCEPT ![w] = "idle"] /\ held' = [held EXCEPT ![w] = NULL]
        /\ seen' = [seen EXCEPT ![w] = {}]
        /\ UNCHANGED <<store, flushes>>
    BY <1>10 DEF Settle, SettleBusy, Poll
  <2>3. queue' \in Table /\ \A k \in Keys \ {held[w]} : queue'[k] = queue[k]
    <3>1. Settled(w) \in JobRow
      BY <1>0, <2>1, SettledFacts
    <3> QED
      BY <1>0, <1>10, <2>1, <3>1 DEF Settle, SettleBusy, Table
  <2>4. HeldInv'
    <3>1. \A v \in Workers \ {w} : at'[v] = at[v] /\ held'[v] = held[v]
      BY <1>0, <2>2
    <3>2. at'[w] = "idle"
      BY <1>0, <2>2
    <3>3. \A v \in Workers \ {w} : at[v] # "idle" => held[v] \in Keys \ {held[w]}
      BY <1>0, <2>1 DEF HeldInv
    <3>4. \A v \in Workers : at'[v] # "idle" =>
            /\ v # w /\ held'[v] \in Keys /\ queue'[held'[v]].status = "running"
            /\ at'[v] = "llm" => held'[v].kind = "seal"
      BY <1>0, <2>3, <3>1, <3>2, <3>3 DEF HeldInv
    <3>5. \A u, v \in Workers :
            u # v /\ at'[u] # "idle" /\ at'[v] # "idle" => held'[u] # held'[v]
      BY <1>0, <3>1, <3>2 DEF HeldInv
    <3> QED
      BY <3>4, <3>5 DEF HeldInv
  <2>5. faults' \in Nat
    BY <1>0, <1>10 DEF Settle, SettleBusy, Fault
  <2>6. MarksTyped'
    <3>1. CASE Settle(w)
      BY <1>0, <3>1 DEF Settle, marks, MarksTyped
    <3>2. CASE SettleBusy(w)
      BY <1>u, <3>2 DEF SettleBusy
    <3> QED
      BY <1>10, <3>1, <3>2
  <2> QED
    BY <1>0, <2>2, <2>3, <2>4, <2>5, <2>6 DEF TypeInv, TypeOK, Table, store, marks, MarksTyped
<1>11. CASE CrashAndRestart
  <2>1. PICK stale \in SUBSET {k \in Keys : queue[k].status = "running"} :
          queue' = [k \in Keys |-> IF k \in stale
                                     THEN [queue[k] EXCEPT !.status = "ready"] ELSE queue[k]]
    BY <1>11 DEF CrashAndRestart
  <2>2. ASSUME NEW k \in Keys
        PROVE  queue[k] \in JobRow /\ [queue[k] EXCEPT !.status = "ready"] \in JobRow
    BY <1>0 DEF Table, JobRow
  <2>3. queue' \in Table
    BY <2>1, <2>2 DEF Table
  <2>4. HeldInv'
    BY <1>11 DEF CrashAndRestart, HeldInv
  <2>5. faults' \in Nat
    BY <1>0, <1>11 DEF CrashAndRestart, Fault
  <2>6. MarksTyped'
    BY <1>11, <1>u DEF CrashAndRestart
  <2>7. /\ at' = [w \in Workers |-> "idle"] /\ held' = [w \in Workers |-> NULL]
        /\ seen' = [w \in Workers |-> {}] /\ UNCHANGED <<store, flushes>>
    BY <1>11 DEF CrashAndRestart
  <2>8. /\ at' \in [Workers -> {"idle", "work", "llm", "done", "error"}]
        /\ held' \in [Workers -> Keys \cup {NULL}] /\ seen' \in [Workers -> SUBSET Items]
    BY <2>7
  <2>9. /\ chunk' = chunk /\ buffer' = buffer /\ summary' = summary /\ parent' = parent
        /\ top' = top /\ flushes' = flushes
    BY <2>7 DEF store
  <2> QED
    BY <1>0, <2>3, <2>4, <2>5, <2>6, <2>8, <2>9 DEF TypeInv, TypeOK, Table, MarksTyped
<1>12. CASE UNCHANGED vars
  <2>1. /\ UNCHANGED <<chunk, buffer, summary, parent, top>>
        /\ UNCHANGED <<queue, at, held, seen, faults, flushes>>
        /\ UNCHANGED <<caught, unheard, again>>
    BY <1>12 DEF vars, store, marks
  <2>2. TypeOK'
    BY <1>0, <2>1 DEF TypeOK
  <2>3. HeldInv'
    BY <1>0, <2>1 DEF HeldInv
  <2> QED
    BY <2>2, <2>3 DEF TypeInv
<1> QED
  BY <1>1, <1>2, <1>3, <1>4, <1>5, <1>6, <1>7, <1>8, <1>9, <1>10, <1>11, <1>12
  DEF Next, WorkerStep, HandlerStep, SealStep

\* Every reachable state is well typed, and no two workers hold one job.
THEOREM TypeCorrect == Spec => []TypeInv
BY TypeInit, TypeStep, PTL DEF Spec

-----------------------------------------------------------------------------
(* Roots and backlinks.  Only the commit of a seal writes them.            *)

LEMMA OnlySealsSummarise ==
  ASSUME [Next]_vars,
         ~ \E w \in Workers, id \in SummaryIds, topics \in SUBSET TopicTrees :
             SealCommits(w, id, topics)
  PROVE  UNCHANGED <<summary, parent, top>>
<1>1. ASSUME NEW w \in Workers, WorkerStep(w) PROVE UNCHANGED <<summary, parent, top>>
  BY <1>1 DEF WorkerStep, HandlerStep, SealStep, Claim, HandleExtract, HandleAppend, SealReads,
              HandleRoute, HandleFlush, HandlerFails, Settle, SettleBusy, store
<1> QED
  BY <1>1 DEF Next, vars, Ingest, ScheduleFlush, CrashAndRestart, store

\* The new summary joins the sealed ones of its tree.
LEMMA SealedAfter ==
  ASSUME TypeInv, NEW w \in Workers, NEW id \in SummaryIds, NEW topics \in SUBSET TopicTrees,
         SealCommits(w, id, topics)
  PROVE  /\ summary[id] = NULL /\ summary'[id] # NULL
         /\ summary'[id] = NewSummary(w, topics)
         /\ summary'[id].tree = held[w].tree /\ summary'[id].level = held[w].level + 1
         /\ summary'[id].children = seen[w] /\ summary'[id].topics = topics
         /\ \A s \in SummaryIds \ {id} : summary'[s] = summary[s]
         /\ \A t \in Trees :
              Sealed(t)' = IF t = held[w].tree THEN Sealed(t) \cup {id} ELSE Sealed(t)
<1>1. /\ NewSummary(w, topics) \in Summary
      /\ summary' = [summary EXCEPT ![id] = NewSummary(w, topics)]
      /\ summary \in [SummaryIds -> Summary \cup {NULL}]
      /\ summary[id] = NULL
  BY SealFacts DEF SealCommits, TypeInv, TypeOK
<1>2. summary'[id] = NewSummary(w, topics) /\ \A s \in SummaryIds \ {id} : summary'[s] = summary[s]
  BY <1>1
<1>3. /\ summary'[id].tree = held[w].tree /\ summary'[id].level = held[w].level + 1
      /\ summary'[id].children = seen[w] /\ summary'[id].topics = topics
  BY <1>2 DEF NewSummary
<1>4. summary'[id] # NULL
  BY <1>1, <1>2, SummaryTreeAssumption
<1>5. ASSUME NEW t \in Trees
      PROVE  Sealed(t)' = IF t = held[w].tree THEN Sealed(t) \cup {id} ELSE Sealed(t)
  <2>1. \A s \in SummaryIds : (summary'[s] # NULL /\ summary'[s].tree = t)
                  <=> \/ summary[s] # NULL /\ summary[s].tree = t
                      \/ t = held[w].tree /\ s = id
    BY <1>1, <1>2, <1>3, <1>4
  <2> QED
    BY <2>1 DEF Sealed
<1> QED
  BY <1>1, <1>2, <1>3, <1>4, <1>5

\* A backlink names a summary that exists and has the item.
LinksInv ==
  \A i \in Items : parent[i] # NULL =>
    parent[i] \in SummaryIds /\ summary[parent[i]] # NULL /\ i \in summary[parent[i]].children

RootInv ==
  \A t \in Trees :
    /\ Sealed(t) = {} => top[t] = [root |-> NULL, level |-> 0]
    /\ Sealed(t) # {} => /\ top[t].root \in Sealed(t)
                         /\ summary[top[t].root].level = top[t].level
    /\ \A s \in Sealed(t) : summary[s].level <= top[t].level

LEMMA RootInit == Init => RootInv /\ LinksInv
BY DEF Init, RootInv, LinksInv, Sealed

LEMMA LinksStep == TypeInv /\ LinksInv /\ [Next]_vars => LinksInv'
<1> SUFFICES ASSUME TypeInv, LinksInv, [Next]_vars PROVE LinksInv'
  OBVIOUS
<1>1. CASE UNCHANGED <<summary, parent, top>>
  BY <1>1 DEF LinksInv
<1>2. ASSUME NEW w \in Workers, NEW id \in SummaryIds, NEW topics \in SUBSET TopicTrees,
             SealCommits(w, id, topics), NEW i \in Items, parent'[i] # NULL
      PROVE  parent'[i] \in SummaryIds /\ summary'[parent'[i]] # NULL
             /\ i \in summary'[parent'[i]].children
  <2>1. /\ summary[id] = NULL /\ summary'[id] # NULL /\ summary'[id].children = seen[w]
        /\ \A s \in SummaryIds \ {id} : summary'[s] = summary[s]
    BY <1>2, SealedAfter
  <2>2. parent' = Backlinked(parent, held[w].level, seen[w], id)
    BY <1>2 DEF SealCommits
  <2>3. CASE parent'[i] = parent[i]
    <3>1. parent[i] \in SummaryIds \ {id} /\ i \in summary[parent[i]].children
          /\ summary[parent[i]] # NULL
      BY <1>2, <2>1, <2>3 DEF LinksInv
    <3> QED
      BY <2>1, <2>3, <3>1
  <2>4. CASE parent'[i] # parent[i]
    <3>1. parent'[i] = id /\ i \in Hydrated(held[w].level, seen[w])
      BY <2>2, <2>4 DEF Backlinked
    <3>2. i \in seen[w]
      BY <3>1 DEF Hydrated
    <3> QED
      BY <2>1, <3>1, <3>2
  <2> QED
    BY <2>3, <2>4
<1> QED
  BY <1>1, <1>2, OnlySealsSummarise DEF LinksInv

LEMMA RootStep == TypeInv /\ RootInv /\ [Next]_vars => RootInv'
<1> SUFFICES ASSUME TypeInv, RootInv, [Next]_vars PROVE RootInv'
  OBVIOUS
<1>1. CASE UNCHANGED <<summary, parent, top>>
  BY <1>1 DEF RootInv, Sealed
<1>2. ASSUME NEW w \in Workers, NEW id \in SummaryIds, NEW topics \in SUBSET TopicTrees,
             SealCommits(w, id, topics)
      PROVE  RootInv'
  <2> DEFINE u == held[w].tree
             up == held[w].level + 1
  <2>1. /\ summary[id] = NULL /\ summary'[id].level = up
        /\ \A s \in SummaryIds \ {id} : summary'[s] = summary[s]
        /\ \A t \in Trees : Sealed(t)' = IF t = u THEN Sealed(t) \cup {id} ELSE Sealed(t)
    BY <1>2, SealedAfter
  <2>2. u \in Trees /\ up \in Nat /\ up > 0
    <3>1. u \in Trees /\ held[w].level \in Levels
      BY <1>2, SealFacts
    <3>2. held[w].level \in Nat
      BY <3>1, LevelFacts
    <3> QED
      BY <3>1, <3>2
  <2>3. top' = Climbed(top, u, up, id) /\ held' = held
    BY <1>2 DEF SealCommits
  <2>4. /\ top \in [Trees -> [root : SummaryIds \cup {NULL}, level : Nat]]
        /\ summary \in [SummaryIds -> Summary \cup {NULL}]
    BY DEF TypeInv, TypeOK
  <2>5. \A t \in Trees : \A s \in Sealed(t) : s \in SummaryIds \ {id} /\ summary[s].level \in Nat
    BY <2>1, <2>4 DEF Sealed, Summary
  <2> HIDE DEF u, up
  <2>6. ASSUME NEW t \in Trees
        PROVE  /\ Sealed(t)' = {} => top'[t] = [root |-> NULL, level |-> 0]
               /\ Sealed(t)' # {} => /\ top'[t].root \in Sealed(t)'
                                     /\ summary'[top'[t].root].level = top'[t].level
               /\ \A s \in Sealed(t)' : summary'[s].level <= top'[t].level
    <3> DEFINE S == Sealed(t)
               T == Sealed(t)'
    <3>0. /\ S = {} => top[t] = [root |-> NULL, level |-> 0]
          /\ S # {} => top[t].root \in S /\ summary[top[t].root].level = top[t].level
          /\ \A s \in S : summary[s].level <= top[t].level
          /\ \A s \in S : s \in SummaryIds \ {id} /\ summary[s].level \in Nat
          /\ top[t].level \in Nat
      BY <2>4, <2>5 DEF RootInv
    <3>1. CASE t # u
      <4>1. T = S
        BY <2>1, <3>1
      <4>2. top'[t] = top[t]
        BY <2>3, <2>4, <3>1 DEF Climbed
      <4> HIDE DEF S, T
      <4>3. \A s \in S : summary'[s] = summary[s]
        BY <2>1, <3>0
      <4> QED
        BY <3>0, <4>1, <4>2, <4>3 DEF T
    <3>2. CASE t = u
      <4>1. T = S \cup {id}
        BY <2>1, <3>2
      <4> HIDE DEF S, T
      <4>2. CASE up > top[u].level
        <5>1. top'[t] = [root |-> id, level |-> up]
          BY <2>2, <2>3, <2>4, <3>2, <4>2 DEF Climbed
        <5>2. top'[t].root = id /\ top'[t].level = up
          BY <5>1
        <5>3. \A s \in S : summary'[s].level <= up
          BY <2>1, <2>2, <3>0, <3>2, <4>2
        <5> QED
          BY <2>1, <2>2, <4>1, <5>2, <5>3 DEF T
      <4>3. CASE ~(up > top[u].level)
        <5>1. top' = top
          BY <2>3, <4>3 DEF Climbed
        <5>2. S # {}
          <6> SUFFICES ASSUME S = {} PROVE FALSE
            OBVIOUS
          <6>1. top[u].level = 0
            BY <3>0, <3>2
          <6> QED
            BY <2>2, <4>3, <6>1
        <5>3. \A s \in S : summary'[s] = summary[s]
          BY <2>1, <3>0
        <5>4. up <= top[t].level
          BY <2>2, <3>0, <3>2, <4>3
        <5> QED
          BY <2>1, <3>0, <4>1, <5>1, <5>2, <5>3, <5>4 DEF T
      <4> QED
        BY <4>2, <4>3
    <3> QED
      BY <3>1, <3>2
  <2> QED
    BY <2>6 DEF RootInv
<1> QED
  BY <1>1, <1>2, OnlySealsSummarise

\* What is stored of a tree stays well typed, its root is a summary of the highest
\* level that has sealed and a backlink names a summary with that child, whatever
\* order the levels seal in and whichever faults interrupt the handlers.
THEOREM TreeCorrect == Spec => []TreeInv
<1> DEFINE Inv == TypeInv /\ RootInv /\ LinksInv
<1>1. Init => Inv
  BY TypeInit, RootInit
<1>2. Inv /\ [Next]_vars => Inv'
  BY TypeStep, RootStep, LinksStep
<1>3. Inv => TreeInv
  BY DEF TypeInv, RootInv, LinksInv, TreeInv, RootIsTop
<1> QED
  BY <1>1, <1>2, <1>3, PTL DEF Spec

\* A backlink is never changed once it is set: a second seal of the item, in another
\* tree or after a crash, leaves it alone (the UPDATE asks for a NULL parent).
THEOREM BacklinksCorrect == Spec => BacklinksFinal
<1>1. [Next]_vars => \A i \in Items : parent[i] # NULL => parent'[i] = parent[i]
  <2> SUFFICES ASSUME [Next]_vars, NEW i \in Items, parent[i] # NULL
               PROVE  parent'[i] = parent[i]
    OBVIOUS
  <2>1. CASE UNCHANGED <<summary, parent, top>>
    BY <2>1
  <2>2. ASSUME NEW w \in Workers, NEW id \in SummaryIds, NEW topics \in SUBSET TopicTrees,
               SealCommits(w, id, topics)
        PROVE  parent'[i] = parent[i]
    BY <2>2 DEF SealCommits, Backlinked
  <2> QED
    BY <2>1, <2>2, OnlySealsSummarise
<1> QED
  BY <1>1, PTL DEF Spec, BacklinksFinal

-----------------------------------------------------------------------------
(* The gates and the leaves.  seal_one_level clears what the buffer holds   *)
(* when it commits, and the seal job that a push enqueues is ignored while *)
(* the last one is not settled.  Nothing in the code keeps another worker  *)
(* from pushing in between; history says which entries that concerned.     *)

\* What a seal has read still waits when it commits, what has come since is
\* caught, and a seal is not done with a buffer that meets its gate, unless the
\* push that met it was not heard.
SealsInv ==
  \A w \in Workers, t \in Trees, l \in Levels :
    held[w] = SealKey(t, l) =>
      /\ at[w] = "llm" =>
           /\ seen[w] # {} /\ seen[w] \subseteq buffer[t][l]
           /\ \A i \in buffer[t][l] \ seen[w] : Caught(t, l, i)
      /\ at[w] = "done" => ~ShouldSeal(l, buffer[t][l]) \/ SealKey(t, l) \in unheard

\* An empty buffer never meets its gate.
LEMMA EmptyGate == \A l, items : ShouldSeal(l, items) => items # {}
BY Zenon DEF ShouldSeal

\* Only pushes and seals change a buffer or the history of pushes.
LEMMA BufferChange ==
  ASSUME [Next]_vars
  PROVE  \/ UNCHANGED <<buffer, caught, unheard>>
         \/ \E w \in Workers : HandleAppend(w)
         \/ \E w \in Workers, id \in SummaryIds, topics \in SUBSET TopicTrees :
              SealCommits(w, id, topics)
<1>1. ASSUME NEW w \in Workers, WorkerStep(w)
      PROVE  \/ UNCHANGED <<buffer, caught, unheard>>
             \/ HandleAppend(w)
             \/ \E id \in SummaryIds, topics \in SUBSET TopicTrees : SealCommits(w, id, topics)
  BY <1>1 DEF WorkerStep, HandlerStep, SealStep, Claim, HandleExtract, SealReads,
              HandleRoute, HandleFlush, HandlerFails, Settle, SettleBusy, store, marks
<1> QED
  BY <1>1 DEF Next, vars, Ingest, ScheduleFlush, CrashAndRestart, store, marks

\* A push by its effect on the buffers.
LEMMA AppendFacts ==
  ASSUME TypeInv, NEW w \in Workers, HandleAppend(w)
  PROVE  LET t == held[w].tree
             i == held[w].node
         IN  /\ held[w] \in Keys /\ held[w].kind = "append_buffer" /\ at[w] = "work"
             /\ t \in Trees /\ i \in Items
             /\ held[w] = AppendKey(t, i)
             /\ \/ t \in TopicTrees
                \/ t \in SourceTrees /\ i \in Chunks /\ t = SourceOf[i]
             /\ buffer' \in Frontiers
             /\ buffer'[t][0] = buffer[t][0] \cup {i}
             /\ \A u \in Trees, m \in 0..MaxLevel + 1 :
                  u # t \/ m # 0 => buffer'[u][m] = buffer[u][m]
<1> DEFINE t == held[w].tree
           i == held[w].node
<1>1. held[w] \in Keys /\ held[w].kind = "append_buffer" /\ at[w] = "work"
  BY DEF HandleAppend, Running, TypeInv, HeldInv
<1>2. /\ t \in Trees /\ i \in Items /\ held[w] = AppendKey(t, i)
      /\ \/ t \in TopicTrees
         \/ t \in SourceTrees /\ i \in Chunks /\ t = SourceOf[i]
  <2>1. \A k \in Keys : k.kind = "append_buffer" =>
          /\ k = AppendKey(k.tree, k.node) /\ k.tree \in Trees /\ k.node \in Items
          /\ \/ k.tree \in TopicTrees
             \/ k.tree \in SourceTrees /\ k.node \in Chunks /\ k.tree = SourceOf[k.node]
    BY KeyFields
  <2> DEFINE k == held[w]
  <2>2. k \in Keys /\ k.kind = "append_buffer"
    BY <1>1
  <2> HIDE DEF k
  <2>3. /\ k.tree \in Trees /\ k.node \in Items /\ k = AppendKey(k.tree, k.node)
        /\ \/ k.tree \in TopicTrees
           \/ k.tree \in SourceTrees /\ k.node \in Chunks /\ k.tree = SourceOf[k.node]
    BY <2>1, <2>2
  <2> QED
    BY <2>3 DEF k
<1>3. buffer \in Frontiers /\ buffer' = Pushed(buffer, t, i)
  BY DEF HandleAppend, TypeInv, TypeOK, Frontiers
<1> HIDE DEF t, i
<1>4. /\ buffer' \in Frontiers
      /\ buffer'[t][0] = buffer[t][0] \cup {i}
      /\ \A u \in Trees, m \in 0..MaxLevel + 1 :
           u # t \/ m # 0 => buffer'[u][m] = buffer[u][m]
  BY <1>2, <1>3, PushedFacts
<1> QED
  BY <1>1, <1>2, <1>4 DEF t, i

\* A seal by its effect on the buffers.
LEMMA CommitFacts ==
  ASSUME TypeInv, NEW w \in Workers, NEW id \in SummaryIds, NEW topics \in SUBSET TopicTrees,
         SealCommits(w, id, topics)
  PROVE  LET t == held[w].tree
             l == held[w].level
         IN  /\ held[w] \in Keys /\ at[w] = "llm"
             /\ t \in Trees /\ l \in Levels /\ held[w] = SealKey(t, l)
             /\ buffer' \in Frontiers
             /\ buffer'[t][l] = {} /\ buffer'[t][l + 1] = buffer[t][l + 1] \cup {id}
             /\ \A u \in Trees, m \in 0..MaxLevel + 1 :
                  u # t \/ (m # l /\ m # l + 1) => buffer'[u][m] = buffer[u][m]
<1> DEFINE t == held[w].tree
           l == held[w].level
<1>1. /\ held[w] \in Keys /\ at[w] = "llm" /\ id \in Items
      /\ t \in Trees /\ l \in Levels /\ held[w] = SealKey(t, l)
  BY SealFacts DEF SealCommits
<1>2. buffer \in Frontiers /\ buffer' = BuffersAfterSeal(buffer, t, l, id)
  BY DEF SealCommits, TypeInv, TypeOK, Frontiers
<1> HIDE DEF t, l
<1>3. /\ buffer' \in Frontiers
      /\ buffer'[t][l] = {} /\ buffer'[t][l + 1] = buffer[t][l + 1] \cup {id}
      /\ \A u \in Trees, m \in 0..MaxLevel + 1 :
           u # t \/ (m # l /\ m # l + 1) => buffer'[u][m] = buffer[u][m]
  BY <1>1, <1>2, SealedBufferFacts
<1> QED
  BY <1>1, <1>3 DEF t, l

\* A worker that is not the one that steps is left alone.
LEMMA WorkersApart ==
  ASSUME TypeInv, NEW v \in Workers, WorkerStep(v), NEW w \in Workers, w # v
  PROVE  at'[w] = at[w] /\ held'[w] = held[w] /\ seen'[w] = seen[w]
<1>1. /\ at \in [Workers -> {"idle", "work", "llm", "done", "error"}]
      /\ held \in [Workers -> Keys \cup {NULL}] /\ seen \in [Workers -> SUBSET Items]
  BY DEF TypeInv, TypeOK
<1> QED
  BY <1>1 DEF WorkerStep, HandlerStep, SealStep, Claim, HandleExtract, HandleAppend, SealReads,
              SealCommits, HandleRoute, HandleFlush, HandlerFails, Settle, SettleBusy,
              ReturnsLate, Returns, Poll

\* What is recorded of a push.
LEMMA Noted ==
  ASSUME NEW t, NEW l, NEW i, NEW items, NotePush(t, l, i, items)
  PROVE  /\ caught \subseteq caught' /\ again' = again
         /\ \A v \in Workers : at[v] = "llm" /\ held[v] = SealKey(t, l) => Caught(t, l, i)'
         /\ \A v \in Workers : at[v] = "done" /\ held[v] = SealKey(t, l) /\ ShouldSeal(l, items)
                                 => SealKey(t, l) \in unheard'
         /\ \A k \in unheard : k # SealKey(t, l) \/ ~ShouldSeal(l, items) => k \in unheard'
BY DEF NotePush, NoteCaught, NoteUnheard, Caught

\* What is caught stays caught, and what comes again stays so.
LEMMA MarksKept ==
  ASSUME [Next]_vars
  PROVE  /\ caught \subseteq caught' /\ again \subseteq again'
         /\ \A t, l, i : Caught(t, l, i) => Caught(t, l, i)'
<1>1. ASSUME NEW w \in Workers, HandleAppend(w)
      PROVE  caught \subseteq caught' /\ again \subseteq again'
  BY <1>1, Noted DEF HandleAppend
<1>2. ASSUME NEW w \in Workers, NEW id \in SummaryIds, NEW topics \in SUBSET TopicTrees,
             SealCommits(w, id, topics)
      PROVE  caught \subseteq caught' /\ again \subseteq again'
  BY <1>2, Noted DEF SealCommits
<1>3. ASSUME NEW w \in Workers, WorkerStep(w)
      PROVE  caught \subseteq caught' /\ again \subseteq again'
  BY <1>1, <1>2, <1>3 DEF WorkerStep, HandlerStep, SealStep, Claim, HandleExtract, SealReads,
       HandleRoute, HandleFlush, HandlerFails, Settle, SettleBusy, ReturnsLate, NoteUnsettled, marks
<1>4. caught \subseteq caught' /\ again \subseteq again'
  BY <1>3 DEF Next, vars, Ingest, ScheduleFlush, CrashAndRestart, NoteUnsettled, marks
<1> QED
  BY <1>4 DEF Caught

\* A seal that waits while another worker pushes, into its buffer or another one.
LEMMA SealWaits ==
  ASSUME SealsInv, NEW w \in Workers, NEW t \in Trees, NEW l \in Levels,
         held[w] = SealKey(t, l), at[w] \in {"llm", "done"},
         at'[w] = at[w], seen'[w] = seen[w],
         NEW u, NEW m, NEW i, NotePush(u, m, i, buffer'[u][m]),
         \/ t = u /\ l = m /\ buffer'[t][l] = buffer[t][l] \cup {i}
         \/ SealKey(t, l) # SealKey(u, m) /\ buffer'[t][l] = buffer[t][l]
  PROVE  /\ at'[w] = "llm" =>
              /\ seen'[w] # {} /\ seen'[w] \subseteq buffer'[t][l]
              /\ \A j \in buffer'[t][l] \ seen'[w] : Caught(t, l, j)'
         /\ at'[w] = "done" => ~ShouldSeal(l, buffer'[t][l]) \/ SealKey(t, l) \in unheard'
<1> DEFINE items == buffer'[u][m]
<1>1. /\ caught \subseteq caught'
      /\ \A v \in Workers : at[v] = "llm" /\ held[v] = SealKey(u, m) => Caught(u, m, i)'
      /\ \A v \in Workers : at[v] = "done" /\ held[v] = SealKey(u, m) /\ ShouldSeal(m, items)
                              => SealKey(u, m) \in unheard'
      /\ \A k \in unheard : k # SealKey(u, m) \/ ~ShouldSeal(m, items) => k \in unheard'
  BY Noted
<1>2. \A j : Caught(t, l, j) => Caught(t, l, j)'
  BY <1>1 DEF Caught
<1>3. CASE t = u /\ l = m /\ buffer'[t][l] = buffer[t][l] \cup {i}
  <2>1. CASE at[w] = "llm"
    <3>1. Caught(t, l, i)'
      BY <1>1, <1>3, <2>1
    <3>2. /\ seen[w] # {} /\ seen[w] \subseteq buffer[t][l]
          /\ \A j \in buffer[t][l] \ seen[w] : Caught(t, l, j)
      BY <2>1 DEF SealsInv
    <3> QED
      BY <1>2, <1>3, <2>1, <3>1, <3>2
  <2>2. CASE at[w] = "done"
    BY <1>1, <1>3, <2>2
  <2> QED
    BY <2>1, <2>2
<1>4. CASE SealKey(t, l) # SealKey(u, m) /\ buffer'[t][l] = buffer[t][l]
  <2>1. CASE at[w] = "llm"
    <3>1. /\ seen[w] # {} /\ seen[w] \subseteq buffer[t][l]
          /\ \A j \in buffer[t][l] \ seen[w] : Caught(t, l, j)
      BY <2>1 DEF SealsInv
    <3> QED
      BY <1>2, <1>4, <2>1, <3>1
  <2>2. CASE at[w] = "done"
    <3>1. ~ShouldSeal(l, buffer[t][l]) \/ SealKey(t, l) \in unheard
      BY <2>2 DEF SealsInv
    <3> QED
      BY <1>1, <1>4, <2>2, <3>1
  <2> QED
    BY <2>1, <2>2
<1> QED
  BY <1>3, <1>4

LEMMA SealsStep == TypeInv /\ SealsInv /\ [Next]_vars => SealsInv'
<1> SUFFICES ASSUME TypeInv, SealsInv, [Next]_vars,
                    NEW w \in Workers, NEW t \in Trees, NEW l \in Levels,
                    held'[w] = SealKey(t, l), at'[w] \in {"llm", "done"}
             PROVE  /\ at'[w] = "llm" =>
                         /\ seen'[w] # {} /\ seen'[w] \subseteq buffer'[t][l]
                         /\ \A j \in buffer'[t][l] \ seen'[w] : Caught(t, l, j)'
                    /\ at'[w] = "done" => ~ShouldSeal(l, buffer'[t][l]) \/ SealKey(t, l) \in unheard'
  BY DEF SealsInv
<1> DEFINE Goal == /\ at'[w] = "llm" =>
                        /\ seen'[w] # {} /\ seen'[w] \subseteq buffer'[t][l]
                        /\ \A j \in buffer'[t][l] \ seen'[w] : Caught(t, l, j)'
                   /\ at'[w] = "done" => ~ShouldSeal(l, buffer'[t][l]) \/ SealKey(t, l) \in unheard'
<1>0. /\ at \in [Workers -> {"idle", "work", "llm", "done", "error"}]
      /\ held \in [Workers -> Keys \cup {NULL}] /\ seen \in [Workers -> SUBSET Items]
      /\ l \in 0..MaxLevel + 1 /\ HeldInv
  BY LevelFacts DEF TypeInv, TypeOK
<1>1. ASSUME UNCHANGED <<buffer, caught, unheard>>,
             at'[w] = at[w], held'[w] = held[w], seen'[w] = seen[w]
      PROVE  Goal
  BY <1>1 DEF SealsInv, Caught
<1>2. CASE \/ \E batch \in SUBSET Chunks : Ingest(batch)
           \/ ScheduleFlush \/ UNCHANGED vars
  <2>1. UNCHANGED <<buffer, caught, unheard, at, held, seen>>
    BY <1>2 DEF Ingest, ScheduleFlush, vars, store, marks
  <2> QED
    BY <1>1, <2>1
<1>3. ~CrashAndRestart
  BY DEF CrashAndRestart
<1>4. ASSUME NEW v \in Workers, WorkerStep(v), v # w PROVE Goal
  <2>1. at'[w] = at[w] /\ held'[w] = held[w] /\ seen'[w] = seen[w]
    BY <1>4, WorkersApart
  <2>2. CASE UNCHANGED <<buffer, caught, unheard>>
    BY <1>1, <2>1, <2>2
  <2>3. ASSUME NEW u \in Workers, HandleAppend(u) PROVE Goal
    <3> DEFINE x == held[u].tree
               i == held[u].node
    <3>1. /\ x \in Trees /\ buffer'[x][0] = buffer[x][0] \cup {i}
          /\ \A y \in Trees, n \in 0..MaxLevel + 1 :
               y # x \/ n # 0 => buffer'[y][n] = buffer[y][n]
      BY <2>3, AppendFacts
    <3>2. NotePush(x, 0, i, buffer'[x][0])
      BY <2>3 DEF HandleAppend
    <3> HIDE DEF x, i
    <3>3. \/ t = x /\ l = 0 /\ buffer'[t][l] = buffer[t][l] \cup {i}
          \/ SealKey(t, l) # SealKey(x, 0) /\ buffer'[t][l] = buffer[t][l]
      BY <1>0, <3>1, KeysApart
    <3> QED
      BY <2>1, <3>2, <3>3, SealWaits
  <2>4. ASSUME NEW u \in Workers, NEW id \in SummaryIds, NEW topics \in SUBSET TopicTrees,
               SealCommits(u, id, topics)
        PROVE  Goal
    <3>1. /\ at[u] = "llm" /\ held[u] = SealKey(held[u].tree, held[u].level)
          /\ at'[u] = "done"
      BY <1>0, <2>4, CommitFacts DEF SealCommits, Returns
    <3>2. CASE u = w
      <4>1. held[w].tree = t /\ held[w].level = l
        BY <2>1, <3>1, <3>2, KeysApart
      <4>2. buffer'[t][l] = {}
        BY <2>4, <3>2, <4>1, CommitFacts
      <4> QED
        BY <3>1, <3>2, <4>2, EmptyGate
    <3>3. CASE u # w
      <4> DEFINE x == held[u].tree
                 m == held[u].level
      <4>1. held[u] # held[w]
        BY <1>0, <2>1, <3>1, <3>3 DEF HeldInv
      <4>2. x # t \/ m # l
        BY <2>1, <3>1, <4>1
      <4>3. /\ x \in Trees /\ buffer'[x][m + 1] = buffer[x][m + 1] \cup {id}
            /\ \A y \in Trees, n \in 0..MaxLevel + 1 :
                 y # x \/ (n # m /\ n # m + 1) => buffer'[y][n] = buffer[y][n]
        BY <2>4, CommitFacts
      <4>4. NotePush(x, m + 1, id, buffer'[x][m + 1])
        BY <2>4 DEF SealCommits
      <4> HIDE DEF x, m
      <4>5. \/ t = x /\ l = m + 1 /\ buffer'[t][l] = buffer[t][l] \cup {id}
            \/ SealKey(t, l) # SealKey(x, m + 1) /\ buffer'[t][l] = buffer[t][l]
        BY <1>0, <4>2, <4>3, KeysApart
      <4> QED
        BY <2>1, <4>4, <4>5, SealWaits
    <3> QED
      BY <3>2, <3>3
  <2> QED
    BY <2>2, <2>3, <2>4, BufferChange
<1>5. CASE WorkerStep(w)
  <2>1. CASE SealReads(w)
    <3>1. held' = held /\ buffer' = buffer
      BY <2>1 DEF SealReads, store
    <3>2. held[w].tree = t /\ held[w].level = l
      <4>1. held[w] \in Keys /\ held[w].kind = "seal"
        BY <1>0, <2>1 DEF SealReads, Running, HeldInv
      <4> QED
        BY <3>1, <4>1, KeyFields, KeysApart
    <3> DEFINE items == buffer[t][l]
               due == items # {} /\ (queue[held[w]].forced \/ ShouldSeal(l, items))
    <3>3. \/ ~due /\ Returns(w, "done") /\ UNCHANGED seen
          \/ Returns(w, "error")
          \/ due /\ Returns(w, "llm") /\ seen' = [seen EXCEPT ![w] = items]
      BY <2>1, <3>2 DEF SealReads
    <3>4. CASE ~due /\ Returns(w, "done")
      <4>1. at'[w] = "done"
        BY <1>0, <3>4 DEF Returns
      <4>2. ~ShouldSeal(l, items)
        BY <3>4, EmptyGate
      <4> QED
        BY <3>1, <4>1, <4>2
    <3>5. CASE Returns(w, "error")
      BY <1>0, <3>5 DEF Returns
    <3>6. CASE due /\ Returns(w, "llm") /\ seen' = [seen EXCEPT ![w] = items]
      <4>1. at'[w] = "llm" /\ seen'[w] = items /\ items # {}
        BY <1>0, <3>6 DEF Returns
      <4> QED
        BY <3>1, <4>1
    <3> QED
      BY <3>3, <3>4, <3>5, <3>6
  <2>2. ASSUME NEW id \in SummaryIds, NEW topics \in SUBSET TopicTrees, SealCommits(w, id, topics)
        PROVE  Goal
    <3>1. /\ held[w] = SealKey(held[w].tree, held[w].level) /\ held' = held
          /\ at'[w] = "done"
      BY <1>0, <2>2, CommitFacts DEF SealCommits, Returns
    <3>2. held[w].tree = t /\ held[w].level = l
      BY <3>1, KeysApart
    <3>3. buffer'[t][l] = {}
      BY <2>2, <3>2, CommitFacts
    <3> QED
      BY <3>1, <3>3, EmptyGate
  <2>3. CASE Claim(w)
    BY <1>0, <2>3 DEF Claim
  <2>4. CASE HandlerFails(w)
    BY <1>0, <2>4 DEF HandlerFails, Returns
  <2>5. CASE Settle(w) \/ SettleBusy(w)
    BY <1>0, <2>5 DEF Settle, SettleBusy, Poll
  <2>6. CASE HandleExtract(w) \/ HandleAppend(w) \/ HandleRoute(w) \/ HandleFlush(w)
    <3>1. held' = held /\ held[w].kind # "seal"
      BY <2>6 DEF HandleExtract, HandleAppend, HandleRoute, HandleFlush, Running
    <3> QED
      BY <3>1, KeysApart
  <2> QED
    BY <1>5, <2>1, <2>2, <2>3, <2>4, <2>5, <2>6 DEF WorkerStep, HandlerStep, SealStep
<1> QED
  BY <1>2, <1>3, <1>4, <1>5 DEF Next

\* Only the settlement of a finished job ends the activity of its key.
LEMMA QueueKept ==
  ASSUME TypeInv, [Next]_vars, NEW k \in Keys, queue[k].status # "none",
         queue'[k].status = "none"
  PROVE  \E w \in Workers : Settle(w) /\ held[w] = k /\ at[w] = "done"
<1>0. TypeOK /\ queue \in Table
  BY DEF TypeInv, TypeOK, Table
<1>1. ASSUME NEW ks, NEW forced \in BOOLEAN, queue' = Enqueued(ks, forced) PROVE FALSE
  <2>1. /\ k \in ks /\ ~IsActive(k) => queue'[k].status = "ready"
        /\ k \notin ks \/ IsActive(k) => queue'[k] = queue[k]
    BY <1>0, <1>1, EnqueuedFacts
  <2> QED
    BY <2>1
<1>2. queue' # queue
  OBVIOUS
<1>3. ASSUME NEW w \in Workers, WorkerStep(w)
      PROVE  Settle(w) /\ held[w] = k /\ at[w] = "done"
  <2>1. CASE Settle(w)
    <3>1. held[w] \in Keys /\ queue' = [queue EXCEPT ![held[w]] = Settled(w)]
      BY <2>1 DEF Settle, TypeInv, HeldInv
    <3>2. held[w] = k /\ queue'[k] = Settled(w)
      BY <1>0, <3>1 DEF Table
    <3>3. at[w] = "done"
      BY <1>0, <3>1, <3>2, SettledFacts
    <3> QED
      BY <2>1, <3>2, <3>3
  <2>2. ~Claim(w)
    <3> SUFFICES ASSUME Claim(w) PROVE FALSE
      OBVIOUS
    <3>1. PICK j \in Keys : /\ queue'[j].status = "running"
                            /\ \A h \in Keys \ {j} : queue'[h] = queue[h]
      BY <1>0, ClaimFacts
    <3> QED
      BY <3>1
  <2>3. ~HandleExtract(w)
    BY <1>1, <1>2 DEF HandleExtract
  <2>4. ~HandleAppend(w)
    BY <1>1, <1>2 DEF HandleAppend, SealIfDue
  <2>5. \A id \in SummaryIds, topics \in SUBSET TopicTrees : ~SealCommits(w, id, topics)
    BY <1>1 DEF SealCommits
  <2>6. ~HandleRoute(w)
    BY <1>1 DEF HandleRoute
  <2>7. ~HandleFlush(w)
    BY <1>1 DEF HandleFlush
  <2>8. ~SealReads(w) /\ ~HandlerFails(w) /\ ~SettleBusy(w)
    BY <1>2 DEF SealReads, HandlerFails, SettleBusy
  <2> QED
    BY <1>3, <2>1, <2>2, <2>3, <2>4, <2>5, <2>6, <2>7, <2>8 DEF WorkerStep, HandlerStep, SealStep
<1>4. \A batch \in SUBSET Chunks : ~Ingest(batch)
  BY <1>1 DEF Ingest
<1>5. ~ScheduleFlush
  BY <1>1 DEF ScheduleFlush
<1>6. ~CrashAndRestart
  <2> SUFFICES ASSUME CrashAndRestart PROVE FALSE
    OBVIOUS
  <2>1. PICK stale \in SUBSET {j \in Keys : queue[j].status = "running"} :
          queue' = [j \in Keys |-> IF j \in stale
                                     THEN [queue[j] EXCEPT !.status = "ready"] ELSE queue[j]]
    BY DEF CrashAndRestart
  <2>2. queue[k] \in JobRow
    BY <1>0 DEF Table
  <2>3. [queue[k] EXCEPT !.status = "ready"].status = "ready"
    BY <2>2 DEF JobRow
  <2> QED
    BY <2>1, <2>3
<1>7. ~UNCHANGED vars
  BY <1>2 DEF vars
<1> QED
  BY <1>3, <1>4, <1>5, <1>6, <1>7 DEF Next

LEMMA GatesStep == TypeInv /\ SealsInv /\ GateArmed /\ [Next]_vars => GateArmed'
<1> SUFFICES ASSUME TypeInv, SealsInv, GateArmed, [Next]_vars,
                    NEW t \in Trees, NEW l \in Levels, ShouldSeal(l, buffer'[t][l])
             PROVE  queue'[SealKey(t, l)].status # "none" \/ SealKey(t, l) \in unheard'
  BY DEF GateArmed
<1> DEFINE k == SealKey(t, l)
           Goal == queue'[k].status # "none" \/ k \in unheard'
<1>0. k \in Keys /\ l \in 0..MaxLevel + 1 /\ TypeOK /\ queue \in Table
  BY KeysOf, LevelFacts DEF TypeInv, TypeOK, Table
<1>q. ASSUME NEW ks, NEW forced \in BOOLEAN, k \in ks, queue' = Enqueued(ks, forced)
      PROVE  queue'[k].status # "none"
  <2> HIDE DEF k
  <2>1. Enqueued(ks, forced)[k].status \in {"ready", "running"}
    BY <1>0, <1>q, EnqueuedFacts
  <2> QED
    BY <1>q, <2>1
<1>1. ASSUME buffer'[t][l] = buffer[t][l], k \in unheard => k \in unheard'
      PROVE  Goal
  <2>1. queue[k].status # "none" \/ k \in unheard
    BY <1>1 DEF GateArmed
  <2>2. ASSUME queue[k].status # "none", queue'[k].status = "none" PROVE k \in unheard
    <3>1. PICK w \in Workers : held[w] = k /\ at[w] = "done"
      BY <1>0, <2>2, QueueKept
    <3> QED
      BY <1>1, <3>1 DEF SealsInv
  <2> QED
    BY <1>1, <2>1, <2>2
<1>2. ASSUME NEW w \in Workers, HandleAppend(w) PROVE Goal
  <2> DEFINE x == held[w].tree
             i == held[w].node
  <2>1. /\ queue' = SealIfDue(x, 0, buffer'[x][0])
        /\ NotePush(x, 0, i, buffer'[x][0])
        /\ \A y \in Trees, n \in 0..MaxLevel + 1 : y # x \/ n # 0 => buffer'[y][n] = buffer[y][n]
    BY <1>2, AppendFacts DEF HandleAppend
  <2> HIDE DEF x, i
  <2>2. CASE t = x /\ l = 0
    <3>1. queue' = Enqueued({k}, FALSE)
      BY <2>1, <2>2 DEF SealIfDue
    <3> QED
      BY <1>q, <3>1
  <2>3. CASE t # x \/ l # 0
    <3>1. k # SealKey(x, 0)
      BY <2>3, KeysApart
    <3>2. k \in unheard => k \in unheard'
      BY <2>1, <3>1, Noted
    <3> QED
      BY <1>0, <1>1, <2>1, <2>3, <3>2
  <2> QED
    BY <2>2, <2>3
<1>3. ASSUME NEW w \in Workers, NEW id \in SummaryIds, NEW topics \in SUBSET TopicTrees,
             SealCommits(w, id, topics)
      PROVE  Goal
  <2> DEFINE x == held[w].tree
             m == held[w].level
  <2>1. /\ queue' = Enqueued(FollowUps(x, m + 1, id, buffer'[x][m + 1]), FALSE)
        /\ NotePush(x, m + 1, id, buffer'[x][m + 1])
        /\ buffer'[x][m] = {}
        /\ \A y \in Trees, n \in 0..MaxLevel + 1 :
             y # x \/ (n # m /\ n # m + 1) => buffer'[y][n] = buffer[y][n]
    BY <1>3, CommitFacts DEF SealCommits
  <2> HIDE DEF x, m
  <2>2. CASE t = x /\ l = m + 1
    <3>1. k \in FollowUps(x, m + 1, id, buffer'[x][m + 1])
      BY <2>2 DEF FollowUps
    <3> QED
      BY <1>q, <2>1, <3>1
  <2>3. CASE t # x \/ l # m + 1
    <3>1. ~(t = x /\ l = m)
      BY <2>1, EmptyGate
    <3>2. k # SealKey(x, m + 1)
      BY <2>3, KeysApart
    <3>3. k \in unheard => k \in unheard'
      BY <2>1, <3>2, Noted
    <3> QED
      BY <1>0, <1>1, <2>1, <2>3, <3>1, <3>3
  <2> QED
    BY <2>2, <2>3
<1>4. CASE UNCHANGED <<buffer, caught, unheard>>
  BY <1>1, <1>4
<1> QED
  BY <1>2, <1>3, <1>4, BufferChange

LEMMA GatesInit == Init => SealsInv /\ GateArmed
<1> SUFFICES ASSUME Init PROVE SealsInv /\ GateArmed
  OBVIOUS
<1>1. SealsInv
  BY DEF Init, SealsInv
<1>2. \A t \in Trees, l \in Levels : buffer[t][l] = {}
  BY LevelFacts DEF Init
<1>3. GateArmed
  BY <1>2, EmptyGate DEF GateArmed
<1> QED
  BY <1>1, <1>3

\* However many workers push and seal, and whatever faults interrupt them: a buffer that
\* meets its gate has a seal job that is queued, running or given up, unless the push
\* that met it came between the last look of its seal and the seal's settlement.
THEOREM GatesCorrect == Spec => []GateArmed
<1>1. TypeInv /\ SealsInv /\ GateArmed /\ [Next]_vars => TypeInv' /\ SealsInv' /\ GateArmed'
  BY TypeStep, SealsStep, GatesStep
<1> QED
  BY <1>1, TypeInit, GatesInit, PTL DEF Spec

-----------------------------------------------------------------------------
(* The leaves.  What a seal clears are the children of the summary it      *)
(* inserts.                                                                *)

LevelsInv == \A s \in SummaryIds : summary[s] # NULL => summary[s].level \in 0..MaxLevel + 1

LEMMA HoldsKept ==
  ASSUME TypeInv, SealsInv, [Next]_vars, NEW t \in Trees, NEW l \in 0..MaxLevel + 1, NEW i,
         Holds(t, l, i)
  PROVE  Holds(t, l, i)' \/ Caught(t, l, i)'
<1>1. ASSUME NEW w \in Workers, NEW id \in SummaryIds, NEW topics \in SUBSET TopicTrees,
             SealCommits(w, id, topics)
      PROVE  Holds(t, l, i)' \/ Caught(t, l, i)
  <2> DEFINE u == held[w].tree
             m == held[w].level
  <2>1. /\ u \in Trees /\ m \in Levels /\ held[w] = SealKey(u, m) /\ at[w] = "llm"
        /\ buffer'[u][m + 1] = buffer[u][m + 1] \cup {id}
        /\ \A v \in Trees, n \in 0..MaxLevel + 1 :
             v # u \/ (n # m /\ n # m + 1) => buffer'[v][n] = buffer[v][n]
    BY <1>1, CommitFacts
  <2>2. /\ summary[id] = NULL
        /\ summary'[id].level = m + 1 /\ summary'[id].children = seen[w]
        /\ \A s \in SummaryIds \ {id} : summary'[s] = summary[s]
        /\ \A v \in Trees : Sealed(v)' = IF v = u THEN Sealed(v) \cup {id} ELSE Sealed(v)
    BY <1>1, SealedAfter
  <2>3. \A j \in buffer[u][m] \ seen[w] : Caught(u, m, j)
    BY <2>1 DEF SealsInv
  <2> HIDE DEF u, m
  <2>4. CASE \E s \in Sealed(t) : summary[s].level = l + 1 /\ i \in summary[s].children
    <3>1. PICK s \in Sealed(t) : summary[s].level = l + 1 /\ i \in summary[s].children
      BY <2>4
    <3>2. s \in SummaryIds \ {id} /\ s \in Sealed(t)'
      BY <2>2, <3>1 DEF Sealed
    <3>3. summary'[s] = summary[s]
      BY <2>2, <3>2
    <3> QED
      BY <3>1, <3>2, <3>3 DEF Holds
  <2>5. CASE i \in buffer[t][l]
    <3>1. CASE t = u /\ l = m
      <4>1. CASE i \in seen[w]
        <5>1. id \in Sealed(t)' /\ summary'[id].level = l + 1 /\ i \in summary'[id].children
          BY <2>2, <3>1, <4>1
        <5> QED
          BY <5>1 DEF Holds
      <4>2. CASE i \notin seen[w]
        BY <2>3, <2>5, <3>1, <4>2
      <4> QED
        BY <4>1, <4>2
    <3>2. CASE ~(t = u /\ l = m)
      <4>1. i \in buffer'[t][l]
        BY <2>1, <2>5, <3>2
      <4> QED
        BY <4>1 DEF Holds
    <3> QED
      BY <3>1, <3>2
  <2> QED
    BY <2>4, <2>5 DEF Holds
<1>2. ASSUME UNCHANGED <<summary, parent, top>> PROVE Holds(t, l, i)'
  <2>1. i \in buffer[t][l] => i \in buffer'[t][l]
    <3>1. ASSUME NEW w \in Workers, HandleAppend(w), i \in buffer[t][l] PROVE i \in buffer'[t][l]
      BY <3>1, AppendFacts
    <3>2. ASSUME NEW w \in Workers, NEW id \in SummaryIds, NEW topics \in SUBSET TopicTrees,
                 SealCommits(w, id, topics)
          PROVE  FALSE
      BY <1>2, <3>2, SealedAfter
    <3> QED
      BY <3>1, <3>2, BufferChange
  <2> QED
    BY <1>2, <2>1 DEF Holds, Sealed
<1> QED
  BY <1>1, <1>2, OnlySealsSummarise, MarksKept

LEMMA NothingLostStep ==
  TypeInv /\ SealsInv /\ LevelsInv /\ NothingLost /\ [Next]_vars => LevelsInv' /\ NothingLost'
<1> SUFFICES ASSUME TypeInv, SealsInv, LevelsInv, NothingLost, [Next]_vars
             PROVE  LevelsInv' /\ NothingLost'
  OBVIOUS
<1>1. ASSUME NEW c \in Chunks, chunk'[c] = "buffered", ~Caught(SourceOf[c], 0, c)'
      PROVE  Holds(SourceOf[c], 0, c)'
  <2>0. SourceOf[c] \in Trees /\ SourceOf[c] \in SourceTrees /\ 0 \in 0..MaxLevel + 1
    BY MemoryPipelineAssumption, LevelFacts DEF Trees
  <2>1. CASE chunk[c] = "buffered"
    <3>0. ~Caught(SourceOf[c], 0, c)
      BY <1>1, MarksKept
    <3>1. Holds(SourceOf[c], 0, c)
      BY <2>1, <3>0 DEF NothingLost
    <3> HIDE DEF NothingLost
    <3> DEFINE t == SourceOf[c]
    <3>2. t \in Trees /\ Holds(t, 0, c) /\ ~Caught(t, 0, c)'
      BY <1>1, <2>0, <3>1
    <3> HIDE DEF t
    <3>3. Holds(t, 0, c)'
      BY <2>0, <3>2, HoldsKept
    <3> QED
      BY <3>3 DEF t
  <2>2. CASE chunk[c] # "buffered"
    <3>1. PICK w \in Workers : HandleAppend(w)
      <4>1. ASSUME NEW w \in Workers, WorkerStep(w), ~HandleAppend(w) PROVE FALSE
        <5>1. CASE HandleExtract(w)
          <6>1. \/ chunk' = [chunk EXCEPT ![held[w].node] = "admitted"]
                \/ chunk' = [chunk EXCEPT ![held[w].node] = "dropped"]
            BY <5>1 DEF HandleExtract
          <6>2. chunk \in [Chunks -> Lifecycle]
            BY DEF TypeInv, TypeOK
          <6> QED
            BY <1>1, <2>2, <6>1, <6>2
        <5>2. CASE ~HandleExtract(w)
          BY <1>1, <2>2, <4>1, <5>2
          DEF WorkerStep, HandlerStep, SealStep, Claim, SealReads, SealCommits,
              HandleRoute, HandleFlush, HandlerFails, Settle, SettleBusy, store
        <5> QED
          BY <5>1, <5>2
      <4>2. \A batch \in SUBSET Chunks : ~Ingest(batch)
        BY <1>1, <2>2 DEF Ingest
      <4>3. ~ScheduleFlush /\ ~CrashAndRestart /\ ~UNCHANGED vars
        BY <1>1, <2>2 DEF ScheduleFlush, CrashAndRestart, vars, store
      <4> QED
        BY <4>1, <4>2, <4>3 DEF Next
    <3> DEFINE t == held[w].tree
               i == held[w].node
    <3>2. /\ t \in Trees /\ buffer'[t][0] = buffer[t][0] \cup {i}
          /\ \/ t \in TopicTrees
             \/ t \in SourceTrees /\ i \in Chunks /\ t = SourceOf[i]
      BY <3>1, AppendFacts
    <3>3. chunk' = IF t \in SourceTrees THEN [chunk EXCEPT ![i] = "buffered"] ELSE chunk
      BY <3>1 DEF HandleAppend
    <3> HIDE DEF t, i
    <3>4. t \in SourceTrees /\ c = i
      <4>1. chunk \in [Chunks -> Lifecycle]
        BY DEF TypeInv, TypeOK
      <4> QED
        BY <1>1, <2>2, <3>3, <4>1
    <3>5. t = SourceOf[c]
      BY <3>2, <3>4, SummaryTreeAssumption
    <3>6. c \in buffer'[SourceOf[c]][0]
      BY <3>2, <3>4, <3>5
    <3> QED
      BY <3>6 DEF Holds
  <2> QED
    BY <2>1, <2>2
<1>2. ASSUME NEW t \in Trees, NEW s \in SummaryIds, summary'[s] # NULL, summary'[s].tree = t,
             NEW l, l = summary'[s].level
      PROVE  l \in 0..MaxLevel + 1 /\ (Holds(t, l, s)' \/ Caught(t, l, s)')
  <2>1. CASE summary'[s] = summary[s]
    <3>1. s \in Sealed(t) /\ l = summary[s].level
      BY <1>2, <2>1 DEF Sealed
    <3>2. l \in 0..MaxLevel + 1 /\ (Holds(t, l, s) \/ Caught(t, l, s))
      BY <1>2, <2>1, <3>1 DEF LevelsInv, NothingLost
    <3> QED
      BY <3>2, HoldsKept, MarksKept
  <2>2. CASE summary'[s] # summary[s]
    <3>1. PICK w \in Workers, id \in SummaryIds, topics \in SUBSET TopicTrees :
            SealCommits(w, id, topics)
      BY <2>2, OnlySealsSummarise
    <3>2. /\ s = id /\ summary'[id].tree = held[w].tree
          /\ summary'[id].level = held[w].level + 1
      BY <2>2, <3>1, SealedAfter
    <3>3. l = held[w].level + 1 /\ t = held[w].tree
      BY <1>2, <3>2
    <3>4. l \in 0..MaxLevel + 1
      <4>1. held[w].level \in Levels
        BY <3>1, CommitFacts
      <4> QED
        BY <3>3, <4>1, LevelFacts
    <3>5. s \in buffer'[t][l]
      BY <3>1, <3>2, <3>3, CommitFacts
    <3> QED
      BY <3>4, <3>5 DEF Holds
  <2> QED
    BY <2>1, <2>2
<1>3. LevelsInv'
  <2>1. ASSUME NEW s \in SummaryIds, summary'[s] # NULL PROVE summary'[s].level \in 0..MaxLevel + 1
    <3>1. summary'[s].tree \in Trees
      <4>1. TypeInv'
        BY TypeStep
      <4> QED
        BY <2>1, <4>1 DEF TypeInv, TypeOK, Summary
    <3> QED
      BY <1>2, <2>1, <3>1
  <2> QED
    BY <2>1 DEF LevelsInv
<1>4. ASSUME NEW t \in Trees, NEW s \in Sealed(t)',
             [tree |-> t, level |-> summary'[s].level, item |-> s] \notin caught'
      PROVE  \/ s \in buffer'[t][summary'[s].level]
             \/ \E r \in Sealed(t)' :
                  summary'[r].level = summary'[s].level + 1 /\ s \in summary'[r].children
  <2>1. s \in SummaryIds /\ summary'[s] # NULL /\ summary'[s].tree = t
    BY <1>4 DEF Sealed
  <2>2. PICK l : l = summary'[s].level
    OBVIOUS
  <2>3. ~Caught(t, l, s)'
    BY <1>4, <2>2 DEF Caught
  <2>4. Holds(t, l, s)'
    BY <1>2, <2>1, <2>2, <2>3
  <2> QED
    BY <2>2, <2>4 DEF Holds
<1>5. \A c \in Chunks :
        chunk'[c] = "buffered" /\ ~Caught(SourceOf[c], 0, c)' => Holds(SourceOf[c], 0, c)'
  BY <1>1
<1> QED
  BY <1>3, <1>4, <1>5 DEF NothingLost, Holds, Caught

\* However many workers push and seal, and whatever faults interrupt them: no chunk or
\* summary is lost but those that were pushed while a seal of their buffer waited for
\* the model; all else that a commit clears has become children of its summary.
THEOREM LeavesKept == Spec => []NothingLost
<1> DEFINE Inv == TypeInv /\ SealsInv /\ LevelsInv /\ NothingLost
<1>1. Init => Inv
  <2>1. Init => LevelsInv /\ NothingLost
    BY DEF Init, LevelsInv, NothingLost, Sealed
  <2> QED
    BY <2>1, TypeInit, GatesInit
<1>2. Inv /\ [Next]_vars => Inv'
  BY TypeStep, SealsStep, NothingLostStep
<1> QED
  BY <1>1, <1>2, PTL DEF Spec

-----------------------------------------------------------------------------
(* Once.  A push checks only what the buffer holds now, so an item that    *)
(* is appended again after its seal is summarised twice.  What can run     *)
(* after its writes is in history as again: an extraction whose late reads *)
(* fail, a routing that fails between two enqueues, and a job that is left *)
(* running with its work done and handed out after the restart.            *)

\* An active job whose handler has not returned.
Fresh(k) == IsActive(k) /\ \A w \in Workers : at[w] = "done" => held[w] # k

Child(t, i) == \E s \in Sealed(t) : i \in summary[s].children

Arrived(t, i) == (\E l \in 0..MaxLevel + 1 : i \in buffer[t][l]) \/ Child(t, i)

Unrouted(i) ==
  \A t \in TopicTrees : queue[AppendKey(t, i)].status = "none" /\ ~Arrived(t, i)

\* Nothing has happened yet to a chunk that waits for its extraction.
PendingInv ==
  \A c \in Chunks : chunk[c] \in {"absent", "pending_extraction"} =>
    /\ queue[AppendKey(SourceOf[c], c)].status = "none" /\ ~Arrived(SourceOf[c], c)
    /\ queue[RouteKey(c)].status = "none" /\ Unrouted(c)

\* Nor to an id that no summary has drawn.
UnusedInv ==
  \A s \in SummaryIds : summary[s] = NULL =>
    /\ queue[RouteKey(s)].status = "none" /\ Unrouted(s)
    /\ \A t \in Trees : ~Arrived(t, s)

\* A job that is still to run finds its work undone, unless its item comes again.
ExtractInv ==
  \A c \in Chunks : Fresh(ExtractKey(c)) => chunk[c] = "pending_extraction" \/ c \in again

AppendInv ==
  \A k \in Keys :
    k.kind = "append_buffer" /\ Fresh(k) => ~Arrived(k.tree, k.node) \/ k.node \in again

RouteInv == \A i \in Items : Fresh(RouteKey(i)) => Unrouted(i) \/ i \in again

\* An item waits at one level of a tree and has not been summarised there.
WaitsOnce ==
  \A t \in Trees, l \in 0..MaxLevel + 1 : \A i \in buffer[t][l] :
    i \in again \/ (~Child(t, i) /\ \A m \in 0..MaxLevel + 1 : i \in buffer[t][m] => m = l)

OnceInv == PendingInv /\ UnusedInv /\ ExtractInv /\ AppendInv /\ RouteInv /\ WaitsOnce

\* The steps that enqueue a job of a chunk or a summary.
Adds(k) ==
  \/ \E batch \in SUBSET Chunks : Ingest(batch) /\ \E c \in Unprocessed(batch) : k = ExtractKey(c)
  \/ \E w \in Workers :
       /\ HandleExtract(w)
       /\ k \in {AppendKey(SourceOf[held[w].node], held[w].node), RouteKey(held[w].node)}
  \/ \E w \in Workers :
       /\ HandleRoute(w) /\ queue' # queue
       /\ \E t \in TopicsOf(held[w].node) : k = AppendKey(t, held[w].node)
  \/ \E w \in Workers, id \in SummaryIds, topics \in SUBSET TopicTrees :
       SealCommits(w, id, topics) /\ held[w].tree \in SourceTrees /\ k = RouteKey(id)

\* No other step creates such a job; one that runs after its writes is in history.
LEMMA OnlyAdds ==
  ASSUME TypeInv, [Next]_vars, NEW k \in Keys, k.kind \in Placing, ~Adds(k)
  PROVE  /\ queue[k].status = "none" => queue'[k].status = "none"
         /\ Fresh(k)' => Fresh(k) \/ k.node \in again'
<1> DEFINE Goal == /\ queue[k].status = "none" => queue'[k].status = "none"
                   /\ Fresh(k)' => Fresh(k) \/ k.node \in again'
<1>0. /\ TypeOK /\ HeldInv /\ queue \in Table
      /\ at \in [Workers -> {"idle", "work", "llm", "done", "error"}]
      /\ held \in [Workers -> Keys \cup {NULL}]
  BY DEF TypeInv, TypeOK, Table
<1>q. ASSUME NEW ks, NEW forced \in BOOLEAN, k \notin ks, queue' = Enqueued(ks, forced)
      PROVE  queue'[k] = queue[k]
  BY <1>0, <1>q, EnqueuedFacts
<1>n. k # FlushKey /\ \A t, l : k # SealKey(t, l)
  BY KeysApart DEF Placing
<1>w. ASSUME NEW w \in Workers, at[w] \in {"work", "llm"}, NEW result \in {"llm", "done", "error"},
             Returns(w, result), UNCHANGED held, queue'[k] = queue[k]
      PROVE  Goal
  <2>1. \A v \in Workers : at[v] = "done" => at'[v] = "done"
    BY <1>0, <1>w DEF Returns
  <2> QED
    BY <1>w, <2>1 DEF Fresh, IsActive
<1>h. ASSUME UNCHANGED <<at, held>>, queue'[k] = queue[k] PROVE Goal
  BY <1>h DEF Fresh, IsActive
<1>1. ASSUME NEW batch \in SUBSET Chunks, Ingest(batch) PROVE Goal
  <2>1. k \notin {ExtractKey(c) : c \in Unprocessed(batch)}
    BY <1>1 DEF Adds
  <2>2. queue'[k] = queue[k]
    BY <1>1, <1>q, <2>1 DEF Ingest
  <2> QED
    BY <1>1, <1>h, <2>2 DEF Ingest
<1>2. CASE ScheduleFlush
  <2>1. queue'[k] = queue[k]
    BY <1>2, <1>n, <1>q DEF ScheduleFlush
  <2> QED
    BY <1>2, <1>h, <2>1 DEF ScheduleFlush
<1>3. ASSUME NEW w \in Workers, Claim(w) PROVE Goal
  <2>1. PICK j \in Keys :
           /\ queue[j].status = "ready" /\ queue'[j].status = "running"
           /\ \A h \in Keys \ {j} : queue'[h] = queue[h]
           /\ held' = [held EXCEPT ![w] = j] /\ at' = [at EXCEPT ![w] = "work"]
    BY <1>0, <1>3, ClaimFacts
  <2>2. CASE k = j
    BY <1>0, <2>1, <2>2 DEF Fresh, IsActive, HeldInv
  <2>3. CASE k # j
    <3>1. \A v \in Workers : at[v] = "done" => at'[v] = "done" /\ held'[v] = held[v]
      BY <1>0, <1>3, <2>1 DEF Claim
    <3> QED
      BY <2>1, <2>3, <3>1 DEF Fresh, IsActive
  <2> QED
    BY <2>2, <2>3
<1>4. ASSUME NEW w \in Workers, HandleExtract(w) PROVE Goal
  <2> DEFINE ks == {AppendKey(SourceOf[held[w].node], held[w].node), RouteKey(held[w].node)}
  <2>1. k \notin ks
    BY <1>4 DEF Adds
  <2>2. queue' = queue \/ queue' = Enqueued(ks, FALSE)
    BY <1>4 DEF HandleExtract
  <2> HIDE DEF ks
  <2>3. queue'[k] = queue[k]
    BY <1>q, <2>1, <2>2
  <2>4. Returns(w, "done") \/ Returns(w, "error")
    BY <1>4 DEF HandleExtract, ReturnsLate
  <2>5. UNCHANGED held /\ at[w] = "work"
    BY <1>4 DEF HandleExtract, Running
  <2> QED
    BY <1>w, <2>3, <2>4, <2>5
<1>5. ASSUME NEW w \in Workers, HandleAppend(w) PROVE Goal
  <2>1. queue' = SealIfDue(held[w].tree, 0, buffer'[held[w].tree][0])
    BY <1>5 DEF HandleAppend
  <2>2. queue'[k] = queue[k]
    BY <1>n, <1>q, <2>1 DEF SealIfDue
  <2>3. at[w] = "work" /\ Returns(w, "done") /\ UNCHANGED held
    BY <1>5 DEF HandleAppend, Running
  <2> QED
    BY <1>w, <2>2, <2>3
<1>6. ASSUME NEW w \in Workers, SealReads(w) PROVE Goal
  <2>1. queue' = queue /\ at[w] = "work" /\ UNCHANGED held
    BY <1>6 DEF SealReads, Running
  <2>2. Returns(w, "done") \/ Returns(w, "error") \/ Returns(w, "llm")
    BY <1>6 DEF SealReads
  <2> QED
    BY <1>w, <2>1, <2>2
<1>7. ASSUME NEW w \in Workers, NEW id \in SummaryIds, NEW topics \in SUBSET TopicTrees,
             SealCommits(w, id, topics)
      PROVE  Goal
  <2> DEFINE t == held[w].tree
             up == held[w].level + 1
             ks == FollowUps(t, up, id, buffer'[t][up])
  <2>1. k \notin ks
    <3>1. t \in SourceTrees => k # RouteKey(id)
      BY <1>7 DEF Adds
    <3> HIDE DEF t, up
    <3> QED
      BY <1>n, <3>1 DEF FollowUps
  <2>2. queue' = Enqueued(ks, FALSE)
    BY <1>7 DEF SealCommits
  <2> HIDE DEF ks
  <2>3. queue'[k] = queue[k]
    BY <1>q, <2>1, <2>2
  <2>4. at[w] = "llm" /\ Returns(w, "done") /\ UNCHANGED held
    BY <1>7 DEF SealCommits
  <2> QED
    BY <1>w, <2>3, <2>4
<1>8. ASSUME NEW w \in Workers, HandleRoute(w) PROVE Goal
  <2> DEFINE i == held[w].node
  <2>1. PICK reached \in SUBSET TopicsOf(i) :
          queue' = Enqueued({AppendKey(t, i) : t \in reached}, FALSE)
    BY <1>8 DEF HandleRoute
  <2>2. queue' = queue \/ k \notin {AppendKey(t, i) : t \in reached}
    BY <1>8 DEF Adds
  <2>3. queue'[k] = queue[k]
    BY <1>q, <2>1, <2>2
  <2>4. at[w] = "work" /\ (Returns(w, "done") \/ Returns(w, "error")) /\ UNCHANGED held
    BY <1>8 DEF HandleRoute, Running
  <2> QED
    BY <1>w, <2>3, <2>4
<1>9. ASSUME NEW w \in Workers, HandleFlush(w) PROVE Goal
  <2>1. PICK stale \in SUBSET Trees : queue' = Enqueued({SealKey(t, 0) : t \in stale}, TRUE)
    BY <1>9 DEF HandleFlush
  <2>2. queue'[k] = queue[k]
    BY <1>n, <1>q, <2>1
  <2>3. at[w] = "work" /\ (Returns(w, "done") \/ Returns(w, "error")) /\ UNCHANGED held
    BY <1>9 DEF HandleFlush, Running
  <2> QED
    BY <1>w, <2>2, <2>3
<1>10. ASSUME NEW w \in Workers, HandlerFails(w) PROVE Goal
  BY <1>w, <1>10 DEF HandlerFails
<1>11. ASSUME NEW w \in Workers, Settle(w) PROVE Goal
  <2>1. /\ held[w] \in Keys /\ queue[held[w]].status = "running"
        /\ queue' = [queue EXCEPT ![held[w]] = Settled(w)]
        /\ at[w] \in {"done", "error"}
        /\ at' = [at EXCEPT ![w] = "idle"] /\ held' = [held EXCEPT ![w] = NULL]
    BY <1>0, <1>11 DEF Settle, Poll, HeldInv
  <2>2. at[w] = "done" => Settled(w).status = "none"
    BY <1>0, <2>1, SettledFacts
  <2>3. \A v \in Workers \ {w} : at'[v] = at[v] /\ held'[v] = held[v]
    BY <1>0, <2>1
  <2>4. CASE k = held[w]
    <3>1. queue[k].status = "running" /\ queue'[k] = Settled(w)
      BY <1>0, <2>1, <2>4 DEF Table
    <3>2. \A v \in Workers : at[v] = "done" /\ held[v] = k => v = w
      BY <1>0, <2>1, <2>4 DEF HeldInv
    <3> QED
      BY <2>1, <2>2, <3>1, <3>2 DEF Fresh, IsActive
  <2>5. CASE k # held[w]
    <3>1. queue'[k] = queue[k]
      BY <1>0, <2>1, <2>5 DEF Table
    <3> QED
      BY <2>3, <2>5, <3>1 DEF Fresh, IsActive
  <2> QED
    BY <2>4, <2>5
<1>12. ASSUME NEW w \in Workers, SettleBusy(w) PROVE Goal
  <2>1. /\ queue' = queue /\ NoteUnsettled({w})
        /\ at' = [at EXCEPT ![w] = "idle"] /\ held' = [held EXCEPT ![w] = NULL]
    BY <1>12 DEF SettleBusy, Poll
  <2>2. \A v \in Workers \ {w} : at'[v] = at[v] /\ held'[v] = held[v]
    BY <1>0, <2>1
  <2>3. CASE at[w] = "done" /\ held[w] = k
    BY <2>1, <2>3 DEF NoteUnsettled
  <2>4. CASE ~(at[w] = "done" /\ held[w] = k)
    BY <2>1, <2>2, <2>4 DEF Fresh, IsActive
  <2> QED
    BY <2>1, <2>3, <2>4
<1>13. CASE CrashAndRestart
  <2>1. PICK stale \in SUBSET {j \in Keys : queue[j].status = "running"} :
          queue' = [j \in Keys |-> IF j \in stale
                                     THEN [queue[j] EXCEPT !.status = "ready"] ELSE queue[j]]
    BY <1>13 DEF CrashAndRestart
  <2>2. k \in stale => queue[k].status = "running"
    OBVIOUS
  <2>3. k \notin stale => queue'[k] = queue[k]
    BY <2>1
  <2>4. CASE \E w \in Workers : at[w] = "done" /\ held[w] = k
    <3>1. NoteUnsettled(Workers)
      BY <1>13 DEF CrashAndRestart
    <3>2. k.node \in again'
      BY <2>4, <3>1 DEF NoteUnsettled
    <3>3. queue[k].status # "none"
      BY <1>0, <2>4 DEF HeldInv
    <3> QED
      BY <3>2, <3>3
  <2>5. CASE \A w \in Workers : at[w] = "done" => held[w] # k
    BY <2>2, <2>3, <2>5 DEF Fresh, IsActive
  <2> QED
    BY <2>4, <2>5
<1>14. CASE UNCHANGED vars
  BY <1>14, <1>h DEF vars
<1> QED
  BY <1>1, <1>2, <1>3, <1>4, <1>5, <1>6, <1>7, <1>8, <1>9, <1>10, <1>11, <1>12, <1>13, <1>14
  DEF Next, WorkerStep, HandlerStep, SealStep

\* The topic trees of a node that is routed.
LEMMA TopicsKnown ==
  ASSUME TypeInv, UnusedInv, NEW i \in Items, queue[RouteKey(i)].status # "none"
  PROVE  TopicsOf(i) \subseteq TopicTrees
<1>1. CASE i \in Chunks
  BY <1>1, MemoryPipelineAssumption DEF TopicsOf
<1>2. CASE i \notin Chunks
  <2>1. i \in SummaryIds
    BY <1>2 DEF Items
  <2>2. summary[i] # NULL /\ summary[i] \in Summary \cup {NULL}
    BY <2>1 DEF UnusedInv, TypeInv, TypeOK
  <2> QED
    BY <1>2, <2>2 DEF TopicsOf, Summary
<1> QED
  BY <1>1, <1>2

\* A handler runs for an active job, and after its writes it is not run for that job
\* again, unless history says so or it had nothing to write.
LEMMA Spent ==
  ASSUME TypeInv, NEW w \in Workers,
         HandleExtract(w) \/ HandleAppend(w) \/ HandleRoute(w),
         NEW k, k = held[w]
  PROVE  /\ Fresh(k) /\ k \in Keys /\ queue[k].status = "running"
         /\ ~Fresh(k)' \/ k.node \in again' \/ (HandleRoute(w) /\ queue' = queue)
<1>0. /\ HeldInv /\ queue \in Table /\ TypeOK
      /\ at \in [Workers -> {"idle", "work", "llm", "done", "error"}]
  BY DEF TypeInv, TypeOK, Table
<1>1. at[w] = "work" /\ k \in Keys /\ queue[k].status = "running" /\ UNCHANGED held
  BY <1>0 DEF HandleExtract, HandleAppend, HandleRoute, Running, HeldInv
<1>2. \/ Returns(w, "done") \/ k.node \in again' \/ (HandleRoute(w) /\ queue' = queue)
  <2>1. CASE HandleExtract(w)
    BY <2>1 DEF HandleExtract, ReturnsLate
  <2>2. CASE HandleAppend(w)
    BY <2>2 DEF HandleAppend
  <2>3. CASE HandleRoute(w)
    <3> DEFINE i == held[w].node
    <3>1. \/ Returns(w, "done")
          \/ \E reached \in SUBSET TopicsOf(i) :
               /\ queue' = Enqueued({AppendKey(t, i) : t \in reached}, FALSE)
               /\ again' = IF reached = {} THEN again ELSE again \cup {i}
      BY <2>3 DEF HandleRoute
    <3> SUFFICES ASSUME NEW reached \in SUBSET TopicsOf(i), reached = {},
                        queue' = Enqueued({AppendKey(t, i) : t \in reached}, FALSE)
                 PROVE  queue' = queue
      BY <2>3, <3>1
    <3> DEFINE ks == {AppendKey(t, i) : t \in reached}
    <3>2. ks = {} /\ queue' = Enqueued(ks, FALSE)
      OBVIOUS
    <3> HIDE DEF ks
    <3>3. queue' = [j \in Keys |-> queue[j]]
      BY <3>2 DEF Enqueued
    <3> QED
      BY <1>0, <3>3 DEF Table
  <2> QED
    BY <2>1, <2>2, <2>3
<1>3. Fresh(k)
  BY <1>0, <1>1 DEF Fresh, IsActive, HeldInv
<1>4. Returns(w, "done") => ~Fresh(k)'
  BY <1>0, <1>1 DEF Fresh, Returns
<1> QED
  BY <1>1, <1>2, <1>3, <1>4

\* Pushes and seals are what an item arrives by.
LEMMA ArrivedStep ==
  ASSUME TypeInv, SealsInv, [Next]_vars, NEW t \in Trees, NEW i \in Items,
         ~Arrived(t, i), Arrived(t, i)'
  PROVE  \/ \E w \in Workers : HandleAppend(w) /\ held[w] = AppendKey(t, i)
         \/ \E w \in Workers, id \in SummaryIds, topics \in SUBSET TopicTrees :
              SealCommits(w, id, topics) /\ held[w].tree = t /\ i = id
<1>1. ASSUME NEW w \in Workers, HandleAppend(w) PROVE held[w] = AppendKey(t, i)
  <2>1. UNCHANGED summary
    BY <1>1 DEF HandleAppend
  <2>2. ~Child(t, i)'
    BY <2>1 DEF Child, Sealed, Arrived
  <2>3. PICK l \in 0..MaxLevel + 1 : i \in buffer'[t][l]
    BY <2>2 DEF Arrived
  <2>4. i \notin buffer[t][l]
    BY DEF Arrived
  <2>5. held[w].tree = t /\ l = 0
    BY <1>1, <2>3, <2>4, AppendFacts
  <2> QED
    BY <1>1, <2>3, <2>4, <2>5, AppendFacts
<1>2. ASSUME NEW w \in Workers, NEW id \in SummaryIds, NEW topics \in SUBSET TopicTrees,
             SealCommits(w, id, topics)
      PROVE  held[w].tree = t /\ i = id
  <2> DEFINE u == held[w].tree
             m == held[w].level
  <2>1. /\ u \in Trees /\ m \in Levels /\ at[w] = "llm" /\ m \in 0..MaxLevel + 1
        /\ held[w] = SealKey(u, m) /\ m + 1 \in 0..MaxLevel + 1
        /\ buffer'[u][m] = {} /\ buffer'[u][m + 1] = buffer[u][m + 1] \cup {id}
        /\ \A v \in Trees, n \in 0..MaxLevel + 1 :
             v # u \/ (n # m /\ n # m + 1) => buffer'[v][n] = buffer[v][n]
    BY <1>2, CommitFacts, LevelFacts
  <2>2. seen[w] \subseteq buffer[u][m]
    BY <2>1 DEF SealsInv
  <2>3. /\ summary[id] = NULL /\ summary'[id].children = seen[w]
        /\ \A s \in SummaryIds \ {id} : summary'[s] = summary[s]
        /\ \A v \in Trees : Sealed(v)' = IF v = u THEN Sealed(v) \cup {id} ELSE Sealed(v)
    BY <1>2, SealedAfter
  <2> HIDE DEF u, m
  <2>4. ~Child(t, i) /\ \A l \in 0..MaxLevel + 1 : i \notin buffer[t][l]
    BY DEF Arrived
  <2>5. ~Child(t, i)'
    <3> SUFFICES ASSUME NEW s \in Sealed(t)', i \in summary'[s].children PROVE FALSE
      BY DEF Child
    <3>1. CASE s \in Sealed(t)
      <4>1. s \in SummaryIds \ {id}
        BY <2>3, <3>1 DEF Sealed
      <4> QED
        BY <2>3, <2>4, <3>1, <4>1 DEF Child
    <3>2. CASE s \notin Sealed(t)
      <4>1. t = u /\ s = id
        BY <2>3, <3>2
      <4> QED
        BY <2>1, <2>2, <2>3, <2>4, <4>1
    <3> QED
      BY <3>1, <3>2
  <2>6. PICK l \in 0..MaxLevel + 1 : i \in buffer'[t][l]
    BY <2>5 DEF Arrived
  <2> QED
    BY <2>1, <2>4, <2>6 DEF u
<1>3. buffer' # buffer \/ summary' # summary
  BY DEF Arrived, Child, Sealed
<1> QED
  BY <1>1, <1>2, <1>3, BufferChange, OnlySealsSummarise

\* A node reaches the topic trees by its own routing only, unless a topic tree
\* has drawn it as the id of a summary.
LEMMA UnroutedStep ==
  ASSUME TypeInv, SealsInv, OnceInv, [Next]_vars, NEW i \in Items, Unrouted(i),
         \A w \in Workers : HandleRoute(w) /\ held[w] = RouteKey(i) => queue' = queue,
         \A w \in Workers, topics \in SUBSET TopicTrees :
           i \in SummaryIds /\ SealCommits(w, i, topics) => held[w].tree \in SourceTrees
  PROVE  Unrouted(i)'
<1> SUFFICES ASSUME NEW t \in TopicTrees
             PROVE  queue'[AppendKey(t, i)].status = "none" /\ ~Arrived(t, i)'
  BY DEF Unrouted
<1> DEFINE k == AppendKey(t, i)
<1>0. /\ t \in Trees /\ k \in Keys /\ k.kind = "append_buffer"
      /\ queue[k].status = "none" /\ ~Arrived(t, i)
  BY KeysOf, KeysApart DEF Trees, Unrouted
<1>1. ~Adds(k)
  <2>1. \A c : k # ExtractKey(c) /\ k # RouteKey(c)
    BY KeysApart
  <2>2. ASSUME NEW w \in Workers, HandleExtract(w)
        PROVE  k # AppendKey(SourceOf[held[w].node], held[w].node)
    <3> DEFINE c == held[w].node
    <3>1. held[w] \in Keys /\ held[w].kind = "extract_chunk"
      BY <2>2 DEF HandleExtract, Running, TypeInv, HeldInv
    <3>2. SourceOf[c] \in SourceTrees
      BY <3>1, KeyFields, MemoryPipelineAssumption
    <3> HIDE DEF c
    <3>3. k # AppendKey(SourceOf[c], c)
      BY <3>2, KeysApart, SummaryTreeAssumption
    <3> QED
      BY <3>3 DEF c
  <2>3. ASSUME NEW w \in Workers, HandleRoute(w), queue' # queue,
               NEW u, k = AppendKey(u, held[w].node)
        PROVE  FALSE
    <3>1. held[w] \in Keys /\ held[w].kind = "topic_route"
      BY <2>3 DEF HandleRoute, Running, TypeInv, HeldInv
    <3>2. held[w] = RouteKey(held[w].node)
      BY <3>1, KeyFields
    <3>3. held[w].node = i
      BY <2>3, KeysApart
    <3> QED
      BY <2>3, <3>2, <3>3
  <2> HIDE DEF k
  <2> QED
    BY <2>1, <2>2, <2>3 DEF Adds
<1>2. queue'[k].status = "none"
  <2> HIDE DEF k
  <2> QED
    BY <1>0, <1>1, OnlyAdds DEF Placing
<1>3. ~Arrived(t, i)'
  <2> SUFFICES ASSUME Arrived(t, i)' PROVE FALSE
    OBVIOUS
  <2>1. ASSUME NEW w \in Workers, HandleAppend(w), held[w] = k PROVE FALSE
    <3>1. queue[held[w]].status = "running"
      BY <2>1 DEF HandleAppend, Running, TypeInv, HeldInv
    <3> QED
      BY <1>0, <2>1, <3>1
  <2>2. ASSUME NEW w \in Workers, NEW topics \in SUBSET TopicTrees, i \in SummaryIds,
               SealCommits(w, i, topics), held[w].tree = t
        PROVE  FALSE
    BY <2>2, SummaryTreeAssumption
  <2> QED
    BY <1>0, <2>1, <2>2, ArrivedStep
<1> QED
  BY <1>2, <1>3

LEMMA PendingStep == TypeInv /\ SealsInv /\ OnceInv /\ [Next]_vars => PendingInv'
<1> SUFFICES ASSUME TypeInv, SealsInv, OnceInv, [Next]_vars, NEW c \in Chunks,
                    chunk'[c] \in {"absent", "pending_extraction"}
             PROVE  /\ queue'[AppendKey(SourceOf[c], c)].status = "none"
                    /\ ~Arrived(SourceOf[c], c)'
                    /\ queue'[RouteKey(c)].status = "none" /\ Unrouted(c)'
  BY DEF PendingInv
<1> DEFINE a == AppendKey(SourceOf[c], c)
           r == RouteKey(c)
<1>0. /\ chunk \in [Chunks -> Lifecycle] /\ PendingInv /\ HeldInv
      /\ c \in Items /\ c \notin SummaryIds
      /\ SourceOf[c] \in SourceTrees /\ SourceOf[c] \in Trees
      /\ a \in Keys /\ a.kind = "append_buffer" /\ r \in Keys /\ r.kind = "topic_route"
  BY KeysOf, KeysApart, SummaryTreeAssumption, MemoryPipelineAssumption
  DEF TypeInv, TypeOK, OnceInv, Items, Trees
<1>1. chunk[c] \in {"absent", "pending_extraction"}
  <2>1. ASSUME NEW w \in Workers, WorkerStep(w)
        PROVE  \/ chunk'[c] = chunk[c] \/ chunk'[c] \in {"admitted", "dropped", "buffered"}
    <3>1. CASE HandleExtract(w)
      BY <1>0, <3>1 DEF HandleExtract
    <3>2. CASE HandleAppend(w)
      BY <1>0, <3>2 DEF HandleAppend
    <3>3. CASE ~HandleExtract(w) /\ ~HandleAppend(w)
      BY <2>1, <3>3
      DEF WorkerStep, HandlerStep, SealStep, Claim, SealReads, SealCommits,
          HandleRoute, HandleFlush, HandlerFails, Settle, SettleBusy, store
    <3> QED
      BY <3>1, <3>2, <3>3
  <2>2. ASSUME NEW batch \in SUBSET Chunks, Ingest(batch)
        PROVE  chunk'[c] = chunk[c] \/ chunk[c] \in {"absent", "pending_extraction"}
    BY <1>0, <2>2 DEF Ingest, Unprocessed
  <2> QED
    BY <2>1, <2>2 DEF Next, vars, ScheduleFlush, CrashAndRestart, store
<1>2. /\ queue[a].status = "none" /\ ~Arrived(SourceOf[c], c)
      /\ queue[r].status = "none" /\ Unrouted(c)
  BY <1>0, <1>1 DEF PendingInv
<1>3. ASSUME NEW w \in Workers, HandleExtract(w), held[w].node = c PROVE FALSE
  <2>1. chunk'[c] \in {"admitted", "dropped"}
    BY <1>0, <1>3 DEF HandleExtract
  <2> QED
    BY <2>1
<1>4. ASSUME NEW w \in Workers, HandleRoute(w), held[w] = r PROVE FALSE
  <2>1. queue[held[w]].status = "running"
    BY <1>0, <1>4 DEF HandleRoute, Running, HeldInv
  <2> QED
    BY <1>2, <1>4, <2>1
<1>5. ASSUME NEW w \in Workers, HandleRoute(w), held[w].node = c PROVE FALSE
  <2>1. held[w] \in Keys /\ held[w].kind = "topic_route"
    BY <1>0, <1>5 DEF HandleRoute, Running, HeldInv
  <2> QED
    BY <1>4, <1>5, <2>1, KeyFields
<1>6. ~Adds(a)
  <2>1. /\ \A d : a # ExtractKey(d) /\ a # RouteKey(d)
        /\ \A t, d : a = AppendKey(t, d) => d = c
    BY KeysApart
  <2> HIDE DEF a
  <2> QED
    BY <1>3, <1>5, <2>1 DEF Adds
<1>7. ~Adds(r)
  <2>1. /\ \A d : r # ExtractKey(d) /\ \A t : r # AppendKey(t, d)
        /\ \A d : r = RouteKey(d) => d = c
    BY KeysApart
  <2> HIDE DEF r
  <2> QED
    BY <1>0, <1>3, <2>1 DEF Adds
<1>8. ~Arrived(SourceOf[c], c)'
  <2> DEFINE t == SourceOf[c]
  <2>1. ~Arrived(t, c) /\ t \in Trees /\ a = AppendKey(t, c)
    BY <1>0, <1>2
  <2>2. ASSUME NEW w \in Workers, HandleAppend(w), held[w] = a PROVE FALSE
    <3>1. queue[held[w]].status = "running"
      BY <1>0, <2>2 DEF HandleAppend, Running, HeldInv
    <3> QED
      BY <1>2, <2>2, <3>1
  <2> HIDE DEF t, a
  <2>3. ~Arrived(t, c)'
    BY <1>0, <2>1, <2>2, ArrivedStep
  <2> QED
    BY <2>3 DEF t
<1>9. Unrouted(c)'
  BY <1>0, <1>2, <1>4, UnroutedStep
<1> HIDE DEF a, r
<1>10. queue'[a].status = "none" /\ queue'[r].status = "none"
  BY <1>0, <1>2, <1>6, <1>7, OnlyAdds DEF Placing
<1> QED
  BY <1>8, <1>9, <1>10 DEF a, r

LEMMA UnusedStep == TypeInv /\ SealsInv /\ OnceInv /\ [Next]_vars => UnusedInv'
<1> SUFFICES ASSUME TypeInv, SealsInv, OnceInv, [Next]_vars, NEW s \in SummaryIds,
                    summary'[s] = NULL
             PROVE  /\ queue'[RouteKey(s)].status = "none" /\ Unrouted(s)'
                    /\ \A t \in Trees : ~Arrived(t, s)'
  BY DEF UnusedInv
<1> DEFINE r == RouteKey(s)
<1>0. /\ UnusedInv /\ HeldInv /\ s \in Items /\ s \notin Chunks
      /\ r \in Keys /\ r.kind = "topic_route"
  BY KeysOf, KeysApart, SummaryTreeAssumption DEF TypeInv, OnceInv, Items
<1>1. \A w \in Workers, topics \in SUBSET TopicTrees : ~SealCommits(w, s, topics)
  BY SealedAfter
<1>2. summary[s] = NULL
  <2>1. CASE UNCHANGED <<summary, parent, top>>
    BY <2>1
  <2>2. ASSUME NEW w \in Workers, NEW id \in SummaryIds, NEW topics \in SUBSET TopicTrees,
               SealCommits(w, id, topics)
        PROVE  summary[s] = NULL
    BY <1>1, <2>2, SealedAfter
  <2> QED
    BY <2>1, <2>2, OnlySealsSummarise
<1>3. /\ queue[r].status = "none" /\ Unrouted(s)
      /\ \A t \in Trees : ~Arrived(t, s)
  BY <1>0, <1>2 DEF UnusedInv
<1>4. ASSUME NEW w \in Workers, HandleRoute(w), held[w] = r PROVE FALSE
  <2>1. queue[held[w]].status = "running"
    BY <1>0, <1>4 DEF HandleRoute, Running, HeldInv
  <2> QED
    BY <1>3, <1>4, <2>1
<1>5. Unrouted(s)'
  BY <1>0, <1>1, <1>3, <1>4, UnroutedStep
<1>6. ~Adds(r)
  <2>1. /\ \A d : r # ExtractKey(d) /\ \A t : r # AppendKey(t, d)
        /\ \A d : r = RouteKey(d) => d = s
    BY KeysApart
  <2>2. ASSUME NEW w \in Workers, HandleExtract(w) PROVE held[w].node # s
    <3>1. held[w] \in Keys /\ held[w].kind = "extract_chunk"
      BY <1>0, <2>2 DEF HandleExtract, Running, HeldInv
    <3> QED
      BY <1>0, <3>1, KeyFields
  <2> HIDE DEF r
  <2> QED
    BY <1>1, <2>1, <2>2 DEF Adds
<1>7. ASSUME NEW t \in Trees PROVE ~Arrived(t, s)'
  <2>1. ASSUME NEW w \in Workers, HandleAppend(w), held[w] = AppendKey(t, s) PROVE FALSE
    <3>1. /\ held[w] \in Keys /\ queue[held[w]].status = "running"
          /\ held[w].kind = "append_buffer"
      BY <1>0, <2>1 DEF HandleAppend, Running, HeldInv
    <3>2. t \in TopicTrees
      <4>1. held[w].tree = t /\ held[w].node = s
        BY <2>1 DEF AppendKey
      <4> QED
        BY <1>0, <3>1, <4>1, KeyFields
    <3> QED
      BY <1>3, <2>1, <3>1, <3>2 DEF Unrouted
  <2> QED
    BY <1>0, <1>1, <1>3, <2>1, ArrivedStep
<1> HIDE DEF r
<1>8. queue'[r].status = "none"
  BY <1>0, <1>3, <1>6, OnlyAdds DEF Placing
<1> QED
  BY <1>5, <1>7, <1>8 DEF r

LEMMA ExtractStep == TypeInv /\ OnceInv /\ [Next]_vars => ExtractInv'
<1> SUFFICES ASSUME TypeInv, OnceInv, [Next]_vars, NEW c \in Chunks,
                    Fresh(ExtractKey(c))', c \notin again'
             PROVE  chunk'[c] = "pending_extraction"
  BY DEF ExtractInv
<1> DEFINE k == ExtractKey(c)
<1>0. /\ chunk \in [Chunks -> Lifecycle] /\ PendingInv /\ ExtractInv /\ UnusedInv /\ HeldInv
      /\ k \in Keys /\ k.kind = "extract_chunk" /\ k.node = c /\ c \notin again
  BY KeysOf, KeysApart, MarksKept DEF TypeInv, TypeOK, OnceInv, ExtractKey
<1>1. CASE Adds(k)
  <2>1. \A d : k # RouteKey(d) /\ \A t : k # AppendKey(t, d)
    BY KeysApart
  <2>2. PICK batch \in SUBSET Chunks :
          Ingest(batch) /\ \E d \in Unprocessed(batch) : k = ExtractKey(d)
    <3> HIDE DEF k
    <3> QED
      BY <1>1, <2>1 DEF Adds
  <2>3. c \in Unprocessed(batch)
    BY <2>2, KeysApart
  <2> QED
    BY <1>0, <2>2, <2>3 DEF Ingest
<1>2. CASE ~Adds(k)
  <2>1. Fresh(k)
    <3> HIDE DEF k
    <3>1. Fresh(k)'
      BY DEF k
    <3> QED
      BY <1>0, <1>2, <3>1, OnlyAdds DEF Placing
  <2>2. chunk[c] = "pending_extraction"
    BY <1>0, <2>1 DEF ExtractInv
  <2>3. ASSUME NEW w \in Workers, HandleExtract(w), held[w].node = c PROVE FALSE
    <3>1. held[w] \in Keys /\ held[w].kind = "extract_chunk"
      BY <1>0, <2>3 DEF HandleExtract, Running, HeldInv
    <3>2. held[w] = k
      BY <2>3, <3>1, KeyFields
    <3> HIDE DEF k
    <3>3. ~Fresh(k)'
      BY <1>0, <2>3, <3>1, <3>2, Spent DEF HandleRoute, Running
    <3> QED
      BY <3>3 DEF k
  <2>4. ASSUME NEW w \in Workers, HandleAppend(w), held[w].tree \in SourceTrees,
               held[w].node = c
        PROVE  FALSE
    <3>1. /\ held[w] = AppendKey(held[w].tree, c) /\ held[w].tree = SourceOf[c]
          /\ queue[held[w]].status = "running"
      BY <1>0, <2>4, AppendFacts, SummaryTreeAssumption DEF HandleAppend, Running, HeldInv
    <3> QED
      BY <1>0, <2>2, <3>1 DEF PendingInv
  <2>5. ASSUME NEW w \in Workers, WorkerStep(w) PROVE chunk'[c] = chunk[c]
    <3>1. CASE HandleExtract(w)
      BY <1>0, <2>3, <3>1 DEF HandleExtract
    <3>2. CASE HandleAppend(w)
      BY <1>0, <2>4, <3>2 DEF HandleAppend
    <3>3. CASE ~HandleExtract(w) /\ ~HandleAppend(w)
      BY <2>5, <3>3
      DEF WorkerStep, HandlerStep, SealStep, Claim, SealReads, SealCommits,
          HandleRoute, HandleFlush, HandlerFails, Settle, SettleBusy, store
    <3> QED
      BY <3>1, <3>2, <3>3
  <2>6. ASSUME NEW batch \in SUBSET Chunks, Ingest(batch) PROVE chunk'[c] = "pending_extraction"
    BY <1>0, <2>2, <2>6 DEF Ingest
  <2> QED
    BY <2>2, <2>5, <2>6 DEF Next, vars, ScheduleFlush, CrashAndRestart, store
<1> QED
  BY <1>1, <1>2

LEMMA AppendStep == TypeInv /\ SealsInv /\ OnceInv /\ [Next]_vars => AppendInv'
<1> SUFFICES ASSUME TypeInv, SealsInv, OnceInv, [Next]_vars, NEW k \in Keys,
                    k.kind = "append_buffer", Fresh(k)', k.node \notin again'
             PROVE  ~Arrived(k.tree, k.node)'
  BY DEF AppendInv
<1> DEFINE t == k.tree
           i == k.node
<1>0. /\ PendingInv /\ ExtractInv /\ RouteInv /\ AppendInv /\ UnusedInv /\ HeldInv
      /\ t \in Trees /\ i \in Items /\ k = AppendKey(t, i)
      /\ i \notin Chunks => t \in TopicTrees
      /\ i \notin again
  BY KeyFields, MarksKept DEF TypeInv, OnceInv
<1>1. CASE Adds(k)
  <2>1. \A d : k # ExtractKey(d) /\ k # RouteKey(d)
    BY KeysApart
  <2>2. ASSUME NEW w \in Workers, HandleExtract(w),
               k = AppendKey(SourceOf[held[w].node], held[w].node)
        PROVE  ~Arrived(t, i)'
    <3> DEFINE c == held[w].node
    <3>1. held[w] \in Keys /\ held[w].kind = "extract_chunk"
      BY <1>0, <2>2 DEF HandleExtract, Running, HeldInv
    <3>2. c \in Chunks /\ held[w] = ExtractKey(c)
      BY <3>1, KeyFields
    <3>3. Fresh(held[w])
      BY <1>0, <2>2, Spent
    <3>4. t = SourceOf[c] /\ i = c
      <4> HIDE DEF t, i, c
      <4>1. AppendKey(t, i) = AppendKey(SourceOf[c], c)
        BY <1>0, <2>2 DEF c
      <4> QED
        BY <4>1, KeysApart
    <3>5. UNCHANGED <<buffer, summary>>
      BY <2>2 DEF HandleExtract
    <3> HIDE DEF t, i, c
    <3>6. chunk[c] = "pending_extraction"
      BY <1>0, <3>2, <3>3, <3>4 DEF ExtractInv
    <3>7. ~Arrived(t, i)
      BY <1>0, <3>2, <3>4, <3>6 DEF PendingInv
    <3> QED
      BY <3>5, <3>7 DEF Arrived, Child, Sealed, t, i
  <2>3. ASSUME NEW w \in Workers, HandleRoute(w), NEW u \in TopicsOf(held[w].node),
               k = AppendKey(u, held[w].node)
        PROVE  ~Arrived(t, i)'
    <3> DEFINE j == held[w].node
    <3>1. /\ held[w] \in Keys /\ held[w].kind = "topic_route"
          /\ queue[held[w]].status = "running"
      BY <1>0, <2>3 DEF HandleRoute, Running, HeldInv
    <3>2. j \in Items /\ held[w] = RouteKey(j)
      BY <3>1, KeyFields
    <3>3. Fresh(held[w])
      BY <1>0, <2>3, Spent
    <3>4. UNCHANGED <<buffer, summary>>
      BY <2>3 DEF HandleRoute, store
    <3>5. u = t /\ j = i
      <4> HIDE DEF t, i, j
      <4>1. AppendKey(t, i) = AppendKey(u, j)
        BY <1>0, <2>3 DEF j
      <4> QED
        BY <4>1, KeysApart
    <3> HIDE DEF t, i, j
    <3>6. t \in TopicTrees
      <4>1. TopicsOf(j) \subseteq TopicTrees /\ u \in TopicsOf(j)
        BY <1>0, <2>3, <3>1, <3>2, TopicsKnown DEF j
      <4> QED
        BY <3>5, <4>1
    <3>7. ~Arrived(t, i)
      BY <1>0, <3>2, <3>3, <3>5, <3>6 DEF RouteInv, Unrouted
    <3> QED
      BY <3>4, <3>7 DEF Arrived, Child, Sealed, t, i
  <2> HIDE DEF t, i
  <2> QED
    BY <1>1, <2>1, <2>2, <2>3 DEF Adds, t, i
<1>2. CASE ~Adds(k)
  <2>1. Fresh(k)
    BY <1>2, OnlyAdds DEF Placing
  <2>2. ~Arrived(t, i)
    BY <1>0, <2>1 DEF AppendInv
  <2>3. queue[k].status # "none"
    BY <2>1 DEF Fresh, IsActive
  <2>4. ASSUME NEW w \in Workers, HandleAppend(w), held[w] = k PROVE FALSE
    BY <1>0, <2>4, Spent DEF HandleRoute, Running
  <2>5. ASSUME NEW w \in Workers, NEW topics \in SUBSET TopicTrees, i \in SummaryIds,
               SealCommits(w, i, topics)
        PROVE  FALSE
    <3> HIDE DEF t, i
    <3>1. summary[i] = NULL /\ t \in TopicTrees
      BY <1>0, <2>5, SummaryTreeAssumption DEF SealCommits
    <3> QED
      BY <1>0, <2>3, <2>5, <3>1 DEF UnusedInv, Unrouted
  <2> HIDE DEF t, i
  <2>6. ~Arrived(t, i)'
    BY <1>0, <2>2, <2>4, <2>5, ArrivedStep
  <2> QED
    BY <2>6 DEF t, i
<1> QED
  BY <1>1, <1>2

LEMMA RouteStep == TypeInv /\ SealsInv /\ OnceInv /\ [Next]_vars => RouteInv'
<1> SUFFICES ASSUME TypeInv, SealsInv, OnceInv, [Next]_vars, NEW i \in Items,
                    Fresh(RouteKey(i))', i \notin again'
             PROVE  Unrouted(i)'
  BY DEF RouteInv
<1> DEFINE r == RouteKey(i)
<1>0. /\ PendingInv /\ ExtractInv /\ RouteInv /\ UnusedInv /\ HeldInv
      /\ r \in Keys /\ r.kind = "topic_route" /\ r.node = i /\ i \notin again
  BY KeysOf, KeysApart, MarksKept DEF TypeInv, OnceInv, RouteKey
<1>1. ASSUME NEW w \in Workers, HandleRoute(w), held[w] = r PROVE queue' = queue
  <2>1. r = held[w] /\ Fresh(r)'
    BY <1>1
  <2> HIDE DEF r
  <2> QED
    BY <1>0, <1>1, <2>1, Spent
<1>2. CASE Adds(r)
  <2>1. /\ \A d : r # ExtractKey(d) /\ \A t : r # AppendKey(t, d)
        /\ \A d : r = RouteKey(d) => d = i
    BY KeysApart
  <2>2. ASSUME NEW w \in Workers, HandleExtract(w), held[w].node = i
        PROVE  Unrouted(i)'
    <3>1. held[w] \in Keys /\ held[w].kind = "extract_chunk"
      BY <1>0, <2>2 DEF HandleExtract, Running, HeldInv
    <3>2. i \in Chunks /\ held[w] = ExtractKey(i)
      BY <2>2, <3>1, KeyFields
    <3>3. Fresh(held[w])
      BY <1>0, <2>2, Spent
    <3>4. Unrouted(i)
      BY <1>0, <3>2, <3>3 DEF ExtractInv, PendingInv
    <3> QED
      BY <1>1, <3>2, <3>4, UnroutedStep, SummaryTreeAssumption
  <2>3. ASSUME NEW w \in Workers, NEW topics \in SUBSET TopicTrees, i \in SummaryIds,
               SealCommits(w, i, topics), held[w].tree \in SourceTrees
        PROVE  Unrouted(i)'
    <3>1. Unrouted(i)
      BY <1>0, <2>3 DEF SealCommits, UnusedInv
    <3>2. ASSUME NEW v \in Workers, NEW others \in SUBSET TopicTrees, SealCommits(v, i, others)
          PROVE  held[v].tree \in SourceTrees
      <4>1. summary'[i].tree = held[v].tree
        BY <2>3, <3>2, SealedAfter
      <4>2. summary'[i].tree = held[w].tree
        BY <2>3, SealedAfter
      <4> QED
        BY <2>3, <4>1, <4>2
    <3> QED
      BY <1>1, <3>1, <3>2, UnroutedStep
  <2> HIDE DEF r
  <2> QED
    BY <1>2, <2>1, <2>2, <2>3 DEF Adds
<1>3. CASE ~Adds(r)
  <2>1. Fresh(r)
    <3> HIDE DEF r
    <3>1. Fresh(r)'
      BY DEF r
    <3> QED
      BY <1>0, <1>3, <3>1, OnlyAdds DEF Placing
  <2>2. Unrouted(i)
    BY <1>0, <2>1 DEF RouteInv
  <2>3. queue[r].status # "none"
    BY <2>1 DEF Fresh, IsActive
  <2>4. ASSUME NEW w \in Workers, NEW topics \in SUBSET TopicTrees, i \in SummaryIds,
               SealCommits(w, i, topics)
        PROVE  FALSE
    BY <1>0, <2>3, <2>4 DEF SealCommits, UnusedInv
  <2> QED
    BY <1>1, <2>2, <2>4, UnroutedStep
<1> QED
  BY <1>2, <1>3

\* A push brings what the buffer did not hold and no summary has; a seal moves what
\* it has read and brings a new id.
LEMMA WaitsStep == TypeInv /\ SealsInv /\ OnceInv /\ [Next]_vars => WaitsOnce'
<1> SUFFICES ASSUME TypeInv, SealsInv, OnceInv, [Next]_vars PROVE WaitsOnce'
  OBVIOUS
<1> SUFFICES ASSUME NEW t \in Trees, NEW l \in 0..MaxLevel + 1, NEW i \in Items,
                    i \in buffer'[t][l], i \notin again'
             PROVE  /\ ~Child(t, i)'
                    /\ \A m \in 0..MaxLevel + 1 : i \in buffer'[t][m] => m = l
  <2>1. TypeInv'
    BY TypeStep
  <2>2. ASSUME NEW t \in Trees, NEW l \in 0..MaxLevel + 1 PROVE buffer'[t][l] \subseteq Items
    <3>1. buffer'[t] \in [0..MaxLevel + 1 -> SUBSET Items]
      BY <2>1 DEF TypeInv, TypeOK
    <3> QED
      BY <3>1
  <2> QED
    BY <2>2 DEF WaitsOnce
<1> DEFINE Goal == /\ ~Child(t, i)'
                   /\ \A m \in 0..MaxLevel + 1 : i \in buffer'[t][m] => m = l
<1>0. WaitsOnce /\ AppendInv /\ UnusedInv /\ HeldInv /\ i \notin again
  BY MarksKept DEF TypeInv, OnceInv
<1>1. ASSUME buffer' = buffer, summary' = summary PROVE Goal
  BY <1>0, <1>1 DEF WaitsOnce, Child, Sealed
<1>2. ASSUME NEW w \in Workers, HandleAppend(w) PROVE Goal
  <2> DEFINE u == held[w].tree
             j == held[w].node
  <2>1. /\ held[w] \in Keys /\ held[w].kind = "append_buffer" /\ u \in Trees
        /\ buffer'[u][0] = buffer[u][0] \cup {j}
        /\ \A v \in Trees, m \in 0..MaxLevel + 1 :
             v # u \/ m # 0 => buffer'[v][m] = buffer[v][m]
    BY <1>2, AppendFacts
  <2>2. j \in again \/ ~Arrived(u, j)
    <3>1. Fresh(held[w])
      BY <1>0, <1>2, Spent
    <3> QED
      BY <1>0, <2>1, <3>1 DEF AppendInv
  <2>3. Child(t, i)' <=> Child(t, i)
    BY <1>2 DEF HandleAppend, Child, Sealed
  <2> HIDE DEF u, j
  <2>4. CASE t = u /\ i = j
    <3>1. ~Child(t, i) /\ \A m \in 0..MaxLevel + 1 : i \notin buffer[t][m]
      BY <1>0, <2>2, <2>4 DEF Arrived
    <3>2. \A m \in 0..MaxLevel + 1 : i \in buffer'[t][m] => m = 0
      BY <2>1, <2>4, <3>1
    <3> QED
      BY <2>3, <3>1, <3>2
  <2>5. CASE ~(t = u /\ i = j)
    <3>1. \A m \in 0..MaxLevel + 1 : i \in buffer'[t][m] => i \in buffer[t][m]
      BY <2>1, <2>5
    <3> QED
      BY <1>0, <2>3, <3>1 DEF WaitsOnce
  <2> QED
    BY <2>4, <2>5
<1>3. ASSUME NEW w \in Workers, NEW id \in SummaryIds, NEW topics \in SUBSET TopicTrees,
             SealCommits(w, id, topics)
      PROVE  Goal
  <2> DEFINE u == held[w].tree
             n == held[w].level
  <2>1. /\ u \in Trees /\ n \in Levels /\ at[w] = "llm" /\ n \in 0..MaxLevel + 1
        /\ held[w] = SealKey(u, n)
        /\ n + 1 \in 0..MaxLevel + 1
        /\ buffer'[u][n] = {} /\ buffer'[u][n + 1] = buffer[u][n + 1] \cup {id}
        /\ \A v \in Trees, m \in 0..MaxLevel + 1 :
             v # u \/ (m # n /\ m # n + 1) => buffer'[v][m] = buffer[v][m]
    BY <1>3, CommitFacts, LevelFacts
  <2>2. seen[w] \subseteq buffer[u][n]
    BY <2>1 DEF SealsInv
  <2>3. /\ summary[id] = NULL /\ summary'[id].children = seen[w]
        /\ \A s \in SummaryIds \ {id} : summary'[s] = summary[s]
        /\ \A v \in Trees : Sealed(v)' = IF v = u THEN Sealed(v) \cup {id} ELSE Sealed(v)
    BY <1>3, SealedAfter
  <2> HIDE DEF u, n
  <2>4. Child(t, i)' => Child(t, i) \/ (t = u /\ i \in buffer[u][n])
    <3> SUFFICES ASSUME NEW s \in Sealed(t)', i \in summary'[s].children
                 PROVE  Child(t, i) \/ (t = u /\ i \in buffer[u][n])
      BY DEF Child
    <3>1. CASE s \in Sealed(t)
      <4>1. s \in SummaryIds \ {id}
        BY <2>3, <3>1 DEF Sealed
      <4> QED
        BY <2>3, <3>1, <4>1 DEF Child
    <3>2. CASE s \notin Sealed(t)
      <4>1. t = u /\ s = id
        BY <2>3, <3>2
      <4> QED
        BY <2>2, <2>3, <4>1
    <3> QED
      BY <3>1, <3>2
  <2>5. \A v \in Trees : ~Arrived(v, id)
    BY <1>0, <2>3 DEF UnusedInv
  <2>6. CASE t = u /\ i = id
    <3>1. ~Child(t, i) /\ \A m \in 0..MaxLevel + 1 : i \notin buffer[t][m]
      BY <2>5, <2>6 DEF Arrived
    <3>2. \A m \in 0..MaxLevel + 1 : i \in buffer'[t][m] => m = n + 1
      BY <2>1, <2>6, <3>1
    <3> QED
      BY <2>1, <2>4, <2>6, <3>1, <3>2
  <2>7. CASE ~(t = u /\ i = id)
    <3>1. \A m \in 0..MaxLevel + 1 : i \in buffer'[t][m] =>
            i \in buffer[t][m] /\ ~(t = u /\ m = n)
      BY <2>1, <2>7
    <3>2. ~Child(t, i) /\ \A m \in 0..MaxLevel + 1 : i \in buffer[t][m] => m = l
      BY <1>0, <3>1 DEF WaitsOnce
    <3> QED
      BY <2>1, <2>4, <3>1, <3>2
  <2> QED
    BY <2>6, <2>7
<1>4. ASSUME ~\E w \in Workers : HandleAppend(w),
             ~\E w \in Workers, id \in SummaryIds, topics \in SUBSET TopicTrees :
               SealCommits(w, id, topics)
      PROVE  buffer' = buffer /\ summary' = summary
  BY <1>4, BufferChange, OnlySealsSummarise
<1> QED
  BY <1>1, <1>2, <1>3, <1>4

LEMMA SealedOnceStep ==
  TypeInv /\ SealsInv /\ OnceInv /\ SealedOnce /\ [Next]_vars => SealedOnce'
<1> SUFFICES ASSUME TypeInv, SealsInv, OnceInv, SealedOnce, [Next]_vars PROVE SealedOnce'
  OBVIOUS
<1>0. again \subseteq again'
  BY MarksKept
<1>1. CASE UNCHANGED <<summary, parent, top>>
  BY <1>0, <1>1 DEF SealedOnce, Sealed
<1>2. ASSUME NEW w \in Workers, NEW id \in SummaryIds, NEW topics \in SUBSET TopicTrees,
             SealCommits(w, id, topics)
      PROVE  SealedOnce'
  <2> SUFFICES ASSUME NEW t \in Trees, NEW s \in Sealed(t)', NEW r \in Sealed(t)', s # r
               PROVE  summary'[r].children \cap summary'[s].children \subseteq again'
    BY DEF SealedOnce
  <2> DEFINE u == held[w].tree
             l == held[w].level
  <2>1. /\ u \in Trees /\ l \in Levels /\ l \in 0..MaxLevel + 1 /\ at[w] = "llm"
        /\ held[w] = SealKey(u, l)
    BY <1>2, CommitFacts, LevelFacts
  <2>2. seen[w] \subseteq buffer[u][l]
    BY <2>1 DEF SealsInv
  <2>3. /\ summary'[id].children = seen[w]
        /\ \A x \in SummaryIds \ {id} : summary'[x] = summary[x]
        /\ \A v \in Trees : Sealed(v)' = IF v = u THEN Sealed(v) \cup {id} ELSE Sealed(v)
    BY <1>2, SealedAfter
  <2> HIDE DEF u, l
  <2>4. \A i \in seen[w] : i \in again \/ ~Child(u, i)
    BY <2>1, <2>2 DEF OnceInv, WaitsOnce
  <2>5. \A x \in SummaryIds \ {id} : x \in Sealed(t)' => x \in Sealed(t)
    BY <2>3
  <2>6. s \in SummaryIds /\ r \in SummaryIds
    BY DEF Sealed
  <2>7. CASE s # id /\ r # id
    BY <1>0, <2>3, <2>5, <2>6, <2>7 DEF SealedOnce
  <2>8. CASE s = id \/ r = id
    <3>1. t = u
      <4>1. id \notin Sealed(t)
        BY <1>2 DEF SealCommits, Sealed
      <4> QED
        BY <2>3, <2>8, <4>1
    <3>2. ASSUME NEW x \in SummaryIds \ {id}, x \in Sealed(t)'
          PROVE  summary'[x].children \cap seen[w] \subseteq again'
      BY <1>0, <2>3, <2>4, <2>5, <3>1, <3>2 DEF Child
    <3> QED
      BY <2>3, <2>6, <2>8, <3>2
  <2> QED
    BY <2>7, <2>8
<1> QED
  BY <1>1, <1>2, OnlySealsSummarise

LEMMA OnceInit == Init => OnceInv /\ SealedOnce
<1> SUFFICES ASSUME Init PROVE OnceInv /\ SealedOnce
  OBVIOUS
<1>1. /\ \A t \in Trees, l \in 0..MaxLevel + 1 : buffer[t][l] = {}
      /\ \A t : Sealed(t) = {}
  BY DEF Init, Sealed
<1>2. \A t \in Trees : \A i : ~Arrived(t, i) /\ ~Child(t, i)
  BY <1>1 DEF Arrived, Child
<1>3. \A k \in Keys : queue[k].status = "none" /\ ~Fresh(k)
  <2>1. NoJob.status = "none"
    BY DEF NoJob
  <2> QED
    BY <2>1 DEF Init, Fresh, IsActive
<1>4. \A i \in Items : Unrouted(i) /\ queue[RouteKey(i)].status = "none" /\ ~Fresh(RouteKey(i))
  BY <1>2, <1>3, KeysOf DEF Unrouted, Trees
<1>5. PendingInv
  <2> SUFFICES ASSUME NEW c \in Chunks
               PROVE  /\ queue[AppendKey(SourceOf[c], c)].status = "none"
                      /\ ~Arrived(SourceOf[c], c)
                      /\ queue[RouteKey(c)].status = "none" /\ Unrouted(c)
    BY DEF PendingInv
  <2>1. SourceOf[c] \in Trees /\ c \in Items
    BY MemoryPipelineAssumption DEF Trees, Items
  <2> QED
    BY <1>2, <1>3, <1>4, <2>1, KeysOf
<1>6. UnusedInv
  BY <1>2, <1>4 DEF UnusedInv, Items
<1>7. ExtractInv /\ AppendInv /\ RouteInv
  BY <1>3, <1>4, KeysOf DEF ExtractInv, AppendInv, RouteInv
<1>8. WaitsOnce
  BY <1>1 DEF WaitsOnce
<1>9. SealedOnce
  BY <1>1 DEF SealedOnce
<1> QED
  BY <1>5, <1>6, <1>7, <1>8, <1>9 DEF OnceInv

LEMMA OnceStep == TypeInv /\ SealsInv /\ OnceInv /\ [Next]_vars => OnceInv'
BY PendingStep, UnusedStep, ExtractStep, AppendStep, RouteStep, WaitsStep DEF OnceInv

\* However many workers interleave their seals and pushes, and whatever faults interrupt
\* them: no item is a child of two summaries of a tree but those with a job that was
\* handed out again after its writes.  Every other append job is enqueued once, and a
\* seal reads what no summary has.
THEOREM OnceCorrect == Spec => []SealedOnce
<1> DEFINE Inv == TypeInv /\ SealsInv /\ OnceInv /\ SealedOnce
<1>1. Init => Inv
  BY TypeInit, GatesInit, OnceInit
<1>2. Inv /\ [Next]_vars => Inv'
  BY TypeStep, SealsStep, OnceStep, SealedOnceStep
<1> QED
  BY <1>1, <1>2, PTL DEF Spec

-----------------------------------------------------------------------------
(* The trees implement the ledger of rollups.                              *)

Entry(t, l, i) == [tree |-> t, level |-> l, item |-> i]

LEMMA EntryOne ==
  ASSUME NEW t, NEW l, NEW i, NEW u, NEW m, NEW j
  PROVE  /\ Entry(t, l, i) = Entry(u, m, j) <=> t = u /\ l = m /\ i = j
         /\ Entry(t, l, i).tree = t /\ Entry(t, l, i).level = l /\ Entry(t, l, i).item = i
BY DEF Entry

\* What waits is what the buffers hold.
LEMMA WaitingIs ==
  ASSUME NEW e
  PROVE  /\ e \in Waiting <=>
              \E t \in Trees, l \in 0..MaxLevel + 1 : \E i \in buffer[t][l] : e = Entry(t, l, i)
         /\ e \in Waiting' <=>
              \E t \in Trees, l \in 0..MaxLevel + 1 : \E i \in buffer'[t][l] : e = Entry(t, l, i)
<1> DEFINE Of(t, l) == {Entry(t, l, i) : i \in buffer[t][l]}
           OfNext(t, l) == {Entry(t, l, i) : i \in buffer'[t][l]}
<1>1. /\ Waiting = UNION {Of(t, l) : t \in Trees, l \in 0..MaxLevel + 1}
      /\ Waiting' = UNION {OfNext(t, l) : t \in Trees, l \in 0..MaxLevel + 1}
  BY DEF Waiting, Entry
<1>2. /\ e \in Waiting <=> \E t \in Trees, l \in 0..MaxLevel + 1 : e \in Of(t, l)
      /\ e \in Waiting' <=> \E t \in Trees, l \in 0..MaxLevel + 1 : e \in OfNext(t, l)
  <2> HIDE DEF Of, OfNext
  <2> QED
    BY <1>1
<1> QED
  BY <1>2, Zenon

\* What has been rolled up are the children of the summaries, one level below.
LEMMA RolledIs ==
  ASSUME NEW e
  PROVE  /\ e \in RolledUp <=>
              \E s \in SummaryIds : /\ summary[s] # NULL
                                    /\ \E i \in summary[s].children :
                                         e = Entry(summary[s].tree, summary[s].level - 1, i)
         /\ e \in RolledUp' <=>
              \E s \in SummaryIds : /\ summary'[s] # NULL
                                    /\ \E i \in summary'[s].children :
                                         e = Entry(summary'[s].tree, summary'[s].level - 1, i)
BY DEF RolledUp, Entry

\* An item that has not arrived in a tree is not in its part of the ledger.
LEMMA NotArrived ==
  ASSUME NEW t \in Trees, NEW i, ~Arrived(t, i), NEW l
  PROVE  Entry(t, l, i) \notin Waiting /\ Entry(t, l, i) \notin RolledUp
<1>1. Entry(t, l, i) \notin Waiting
  BY WaitingIs, EntryOne DEF Arrived
<1>2. Entry(t, l, i) \notin RolledUp
  <2> SUFFICES ASSUME NEW s \in SummaryIds, summary[s] # NULL, NEW j \in summary[s].children,
                      Entry(t, l, i) = Entry(summary[s].tree, summary[s].level - 1, j)
               PROVE  FALSE
    BY RolledIs
  <2>1. summary[s].tree = t /\ j = i
    BY EntryOne
  <2> QED
    BY <2>1 DEF Arrived, Child, Sealed
<1> QED
  BY <1>1, <1>2

\* A push is an arrival, for the first time or again.
LEMMA AppendArrives ==
  ASSUME TypeInv, OnceInv, NEW w \in Workers, HandleAppend(w)
  PROVE  Rollup!Arrive
<1> DEFINE t == held[w].tree
           j == held[w].node
           new == Entry(t, 0, j)
<1>1. /\ held[w] \in Keys /\ held[w].kind = "append_buffer" /\ t \in Trees
      /\ buffer'[t][0] = buffer[t][0] \cup {j}
      /\ \A u \in Trees, m \in 0..MaxLevel + 1 :
           u # t \/ m # 0 => buffer'[u][m] = buffer[u][m]
  BY AppendFacts
<1>2. ~Arrived(t, j) \/ j \in again
  <2>1. Fresh(held[w])
    BY Spent
  <2> QED
    BY <1>1, <2>1 DEF OnceInv, AppendInv
<1>3. UNCHANGED summary
  BY DEF HandleAppend
<1>4. 0 \in 0..MaxLevel + 1
  BY LevelFacts
<1> HIDE DEF t, j
<1>5. (new \notin Waiting /\ new \notin RolledUp) \/ new.item \in again
  BY <1>1, <1>2, NotArrived, EntryOne
<1>6. \A e : e \in Waiting' <=> e \in Waiting \cup {new}
  <2> SUFFICES ASSUME NEW e PROVE e \in Waiting' <=> e \in Waiting \/ e = new
    OBVIOUS
  <2>1. e \in Waiting => e \in Waiting'
    BY <1>1, WaitingIs
  <2>2. new \in Waiting'
    BY <1>1, <1>4, WaitingIs
  <2>3. e \in Waiting' => e \in Waiting \/ e = new
    <3> SUFFICES ASSUME NEW u \in Trees, NEW m \in 0..MaxLevel + 1, NEW i \in buffer'[u][m],
                        e = Entry(u, m, i)
                 PROVE  e \in Waiting \/ e = new
      BY WaitingIs
    <3>1. i \in buffer[u][m] \/ (u = t /\ m = 0 /\ i = j)
      BY <1>1
    <3> QED
      BY <3>1, WaitingIs
  <2> QED
    BY <2>1, <2>2, <2>3
<1> HIDE DEF new
<1>7. Waiting' = Waiting \cup {new}
  BY <1>6
<1>8. RolledUp' = RolledUp
  BY <1>3 DEF RolledUp
<1>9. new \in Waiting'
  BY <1>7
<1> QED
  BY <1>5, <1>7, <1>8, <1>9 DEF Rollup!Arrive

\* The commit of a seal rolls up a group into one new entry above it.
LEMMA SealRolls ==
  ASSUME TypeInv, SealsInv, OnceInv, NEW w \in Workers, NEW id \in SummaryIds,
         NEW topics \in SUBSET TopicTrees, SealCommits(w, id, topics)
  PROVE  Rollup!RollUp
<1> DEFINE t == held[w].tree
           l == held[w].level
           new == Entry(t, l + 1, id)
           group == Waiting \ Waiting'
           read == {Entry(t, l, i) : i \in seen[w]}
<1>1. /\ t \in Trees /\ l \in Levels /\ at[w] = "llm" /\ held[w] = SealKey(t, l)
      /\ buffer'[t][l] = {} /\ buffer'[t][l + 1] = buffer[t][l + 1] \cup {id}
      /\ \A u \in Trees, m \in 0..MaxLevel + 1 :
           u # t \/ (m # l /\ m # l + 1) => buffer'[u][m] = buffer[u][m]
  BY CommitFacts
<1>2. /\ summary[id] = NULL /\ summary'[id] # NULL
      /\ summary'[id].tree = t /\ summary'[id].level = l + 1 /\ summary'[id].children = seen[w]
      /\ \A s \in SummaryIds \ {id} : summary'[s] = summary[s]
  BY SealedAfter
<1>3. /\ seen[w] # {} /\ seen[w] \subseteq buffer[t][l]
      /\ \A i \in buffer[t][l] \ seen[w] : Caught(t, l, i)
  BY <1>1 DEF SealsInv
<1>4. ~Arrived(t, id)
  BY <1>1, <1>2 DEF OnceInv, UnusedInv
<1> HIDE DEF t, l
<1>5. /\ l \in 0..MaxLevel + 1 /\ l + 1 \in 0..MaxLevel + 1 /\ l \in Nat
      /\ l # l + 1 /\ (l + 1) - 1 = l
  BY <1>1, LevelFacts
<1>6. new \notin Waiting /\ new \notin RolledUp
  BY <1>1, <1>4, NotArrived
<1>7. ASSUME NEW e
      PROVE  e \in Waiting' <=> (e \in Waiting /\ \A i \in buffer[t][l] : e # Entry(t, l, i)) \/ e = new
  <2>1. new \in Waiting'
    BY <1>1, <1>5, WaitingIs
  <2>2. ASSUME e \in Waiting, \A i \in buffer[t][l] : e # Entry(t, l, i) PROVE e \in Waiting'
    <3>1. PICK u \in Trees, m \in 0..MaxLevel + 1 : \E i \in buffer[u][m] : e = Entry(u, m, i)
      BY <2>2, WaitingIs
    <3>2. ~(u = t /\ m = l)
      BY <2>2, <3>1
    <3>3. \A i \in buffer[u][m] : i \in buffer'[u][m]
      BY <1>1, <3>2
    <3> QED
      BY <3>1, <3>3, WaitingIs
  <2>3. ASSUME e \in Waiting'
        PROVE  (e \in Waiting /\ \A i \in buffer[t][l] : e # Entry(t, l, i)) \/ e = new
    <3>1. PICK u \in Trees, m \in 0..MaxLevel + 1 : \E i \in buffer'[u][m] : e = Entry(u, m, i)
      BY <2>3, WaitingIs
    <3>2. PICK i \in buffer'[u][m] : e = Entry(u, m, i)
      BY <3>1
    <3>3. ~(u = t /\ m = l)
      BY <1>1, <3>2
    <3>4. i \in buffer[u][m] \/ (u = t /\ m = l + 1 /\ i = id)
      BY <1>1, <3>2, <3>3
    <3>5. \A j \in buffer[t][l] : e # Entry(t, l, j)
      BY <3>2, <3>3, EntryOne
    <3> QED
      BY <3>2, <3>4, <3>5, WaitingIs
  <2> QED
    BY <2>1, <2>2, <2>3
<1>8. ASSUME NEW e PROVE e \in group <=> \E i \in buffer[t][l] : e = Entry(t, l, i)
  <2>1. ASSUME NEW i \in buffer[t][l] PROVE Entry(t, l, i) \in Waiting
    BY <1>1, <1>5, WaitingIs
  <2>2. ASSUME NEW i \in buffer[t][l] PROVE Entry(t, l, i) # new
    BY <1>5, EntryOne
  <2> QED
    BY <1>6, <1>7, <2>1, <2>2
<1>9. ASSUME NEW e PROVE e \in RolledUp' <=> e \in RolledUp \/ e \in read
  <2>1. ASSUME e \in RolledUp PROVE e \in RolledUp'
    <3>1. PICK s \in SummaryIds :
            /\ summary[s] # NULL
            /\ \E i \in summary[s].children : e = Entry(summary[s].tree, summary[s].level - 1, i)
      BY <2>1, RolledIs
    <3>2. summary'[s] = summary[s]
      BY <1>2, <3>1
    <3> QED
      BY <3>1, <3>2, RolledIs
  <2>2. ASSUME e \in read PROVE e \in RolledUp'
    <3>1. PICK c \in seen[w] : e = Entry(t, l, c)
      BY <2>2
    <3>2. summary'[id].level - 1 = l /\ c \in summary'[id].children
      BY <1>2, <1>5
    <3> QED
      BY <1>2, <3>1, <3>2, RolledIs
  <2>3. ASSUME e \in RolledUp' PROVE e \in RolledUp \/ e \in read
    <3>1. PICK s \in SummaryIds :
            /\ summary'[s] # NULL
            /\ \E i \in summary'[s].children :
                 e = Entry(summary'[s].tree, summary'[s].level - 1, i)
      BY <2>3, RolledIs
    <3>2. CASE s = id
      BY <1>2, <1>5, <3>1, <3>2
    <3>3. CASE s # id
      <4>1. summary'[s] = summary[s]
        BY <1>2, <3>3
      <4> QED
        BY <3>1, <4>1, RolledIs
    <3> QED
      BY <3>2, <3>3
  <2> QED
    BY <2>1, <2>2, <2>3
<1>10. /\ read # {} /\ read \subseteq group /\ group \ read \subseteq caught
       /\ \A e \in group : e.tree = new.tree /\ e.level + 1 = new.level
  <2>1. read # {} /\ read \subseteq group
    BY <1>3, <1>8
  <2>2. group \ read \subseteq caught
    BY <1>3, <1>8 DEF Caught, Entry
  <2>3. ASSUME NEW e \in group PROVE e.tree = new.tree /\ e.level + 1 = new.level
    <3>1. PICK j \in buffer[t][l] : e = Entry(t, l, j)
      BY <1>8
    <3> QED
      BY <3>1, EntryOne
  <2> QED
    BY <2>1, <2>2, <2>3
<1>11. new \in Waiting'
  BY <1>7
<1>12. Waiting' = (Waiting \ group) \cup {new}
  BY <1>6, <1>7, <1>8
<1>13. RolledUp' = RolledUp \cup read
  BY <1>9
<1>14. group \in {Waiting \ Waiting'}
  OBVIOUS
<1> HIDE DEF new, group, read
<1> QED
  BY <1>6, <1>10, <1>11, <1>12, <1>13, <1>14 DEF Rollup!RollUp

LEMMA LedgerStep ==
  TypeInv /\ SealsInv /\ OnceInv /\ [Next]_vars
    => [Rollup!Arrive \/ Rollup!RollUp]_<<Waiting, RolledUp>>
<1> SUFFICES ASSUME TypeInv, SealsInv, OnceInv, [Next]_vars
             PROVE  [Rollup!Arrive \/ Rollup!RollUp]_<<Waiting, RolledUp>>
  OBVIOUS
<1>1. CASE UNCHANGED <<summary, buffer>>
  BY <1>1 DEF Waiting, RolledUp
<1>2. ASSUME ~UNCHANGED <<summary, buffer>>
      PROVE  \/ \E w \in Workers : HandleAppend(w)
             \/ \E w \in Workers, id \in SummaryIds, topics \in SUBSET TopicTrees :
                  SealCommits(w, id, topics)
  BY <1>2, BufferChange, OnlySealsSummarise
<1> QED
  BY <1>1, <1>2, AppendArrives, SealRolls

\* However many workers push and seal, and whatever faults interrupt them, the trees are
\* a ledger of rollups: but for the entries that were caught and the items that come
\* again, each arrives at a level once and is rolled up once, with all that its new
\* summary then stands for.
THEOREM RollupCorrect == Spec => ImplementsRollup
<1> DEFINE Inv == TypeInv /\ SealsInv /\ OnceInv
<1>1. Init => Rollup!RollupInit
  <2> SUFFICES ASSUME Init PROVE Waiting = {} /\ RolledUp = {}
    BY DEF Rollup!RollupInit
  <2>1. \A e : e \notin Waiting
    BY WaitingIs DEF Init
  <2>2. \A e : e \notin RolledUp
    BY RolledIs DEF Init
  <2> QED
    BY <2>1, <2>2
<1>2. Inv /\ [Next]_vars => [Rollup!Arrive \/ Rollup!RollUp]_(Rollup!ledger)
  BY LedgerStep DEF Rollup!ledger
<1>3. Init => Inv
  BY TypeInit, GatesInit, OnceInit
<1>4. Inv /\ [Next]_vars => Inv'
  BY TypeStep, SealsStep, OnceStep
<1> QED
  BY <1>1, <1>2, <1>3, <1>4, PTL DEF Spec, ImplementsRollup, Rollup!RollupSpec
=============================================================================
