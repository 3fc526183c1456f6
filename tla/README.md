# A verification of pocket-diary-ai's background work and conversations

pocket-diary-ai is a desktop assistant: a Tauri/React shell (`app/`) around a Rust core
(`src/`) that collects a user's mail, chats and notes, files them into a *memory tree*,
talks to the user in a web chat and over messaging channels, and runs agents and scheduled
jobs in between. Most of the core is clients, tools and text processing. The part whose
correctness depends on the order of events is what goes on at the same time: a persistent
job queue and the pipeline it drives, the daily digest, the gate in front of model calls,
the cron loop, chat turns that are cancelled or superseded, replies that evolve in a
channel, the ticks of the subconscious engine, and sign-ins and sign-outs that start and
stop all of it. This project models that part in TLA+, checks it with TLC on small
instances and proves nearly all of its safety with TLAPS for instances of any size.

Paths below are relative to the crate's `src/openhuman/` unless they say otherwise;
`PROJECT.json` maps every definition to the lines it stands for.

- [The system](#the-system)
- [Modules](#modules)
- [Runs](#runs)
- [Proofs](#proofs)
- [What the code does wrong](#what-the-code-does-wrong)
- [What is not modelled](#what-is-not-modelled)
- [Plan](#plan)

## The system

### Components, state, operations

| Component | State it keeps | Operations | Correct when |
|---|---|---|---|
| Job queue (`memory/tree/jobs/`) | table `mem_tree_jobs`: status, attempts, `available_at`, `locked_until`, `started_at`, dedupe key under a partial unique index | enqueue, claim, mark done / failed / deferred, recover stale locks | a job is open until it is settled, settled once, never doubled under one key; at most one live lease per row; attempts bounded |
| Worker pool (`jobs/worker.rs`) | four tasks per process, each with at most one claimed job | poll, permit, claim, handle, settle | survives crash, panic, `SQLITE_BUSY`; a row nobody works on comes back |
| Ingest (`memory/tree/ingest.rs`) | `mem_tree_chunks.lifecycle_status` | persist a batch, enqueue its extraction | a chunk is processed once however often its batch is ingested |
| Job handlers (`jobs/handlers/mod.rs`) | none of their own | extract, append to a buffer, seal, route to topics, flush, digest | each transition of a chunk or buffer schedules what follows it |
| Source and topic trees (`memory/tree/tree_source/`) | buffers by level, summaries with children, backlinks, root | push, seal one level | an item is lost or summarised twice only by the two races the code has; the root is the top |
| Topic-tree spawning (`memory/tree/tree_topic/`) | hotness counters, trees | count, spawn, backfill | one tree per hot topic, filled once |
| Global tree and digest (`memory/tree/tree_global/`) | the same tables, one tree | daily digest, append, cascade week / month / year | one daily per day; periods disjoint, but for what digests catch of one another |
| Daily scheduler (`jobs/scheduler.rs`) | none | enqueue flush and digest at 00:05 UTC, `trigger_digest` | re-triggers do no harm |
| Scheduler gate (`scheduler_gate/`) | settings, signals, policy behind a lock; the signed-out switch; one semaphore slot | sample, update, sign out / in, `wait_for_capacity` | one model call at a time; stands down after sign-out; nobody starves |
| Cron (`cron/`) | table `cron_jobs`; the loop's batch | add, update, remove, poll, run, reschedule | due jobs run, once per occurrence, but for an `at` that is kept; paused jobs do not |
| Web chat (`channels/providers/web.rs`, `presentation.rs`) | in-flight table, cached agent sessions, both by client and thread | start, cancel, run, deliver bubble by bubble, clean up, invalidate | a turn that runs can be reached; every message is concluded, a cancelled one only with the cancellation; no agent outlives its thread |
| Threads and turn state (`threads/`) | thread rows, one snapshot file per thread | delete, purge, dismiss, mirror, sweep at start | a snapshot never claims a turn nobody drives |
| Channel replies (`channels/bus.rs`) | per message: buffered text, ids of draft, thinking and fillers, failure counts | receive, stream, edit, post, time out, finalize, delete | each message gets its own answer, once, and nothing else stays in the channel |
| Subconscious (`subconscious/engine.rs`, `store.rs`) | task rows, log entries, escalations, `last_tick_at` | tick, evaluate, run, escalate, approve, edit, abort | no window is reflected on twice, no finished one-off runs again, no edit is undone, no entry is in progress for ever |
| Session (`credentials/`, `subconscious/global.rs`, `heartbeat/`) | active user, token, engine behind a mutex, `BOOTSTRAPPED`, the heartbeat's handle | sign in, sign out, expire on 401, bootstrap, reset, tick | the gate is open for a user with a token only; once all is settled, whoever is signed in is served, by an engine of their own and one heartbeat |
| Wallet (`wallet/`) | bounded store of expiring quotes | quote, confirm | a quote is executed at most once |
| In-memory ingestion (`memory/ingestion/`) | channel with one consumer | submit, extract | every stored document is extracted |
| RPC, event bus, sockets (`core/`, `socket/`) | subscribers, connection | dispatch, broadcast, reconnect | events reach subscribers, reconnects back off |
| Agents, triage, tools, providers, channel clients, composio, learning, config, voice, service, UI | mostly per request | calls of external services | outside this project; see [below](#what-is-not-modelled) |

### How they interact

    ingest --enqueue--> mem_tree_jobs <--claim/settle-- workers --permit-- scheduler gate
                            ^   ^                           |
    daily scheduler --------+   +---enqueue_tx--- handlers <-+
                                                     |
                                   chunks, buffers, summaries (SQLite)

    cron loop --reads/writes--> cron_jobs <--RPC, tools-- edits       agents --permit--> gate
    credentials --set_signed_out--> gate
    credentials --bootstrap/reset--> engine <--heartbeat, RPC-- ticks --permit--> gate
    UI --start_chat/cancel--> turns --events--> UI, channel replies --backend--> channels
    channel message --event bus--> channel replies --start_chat--> turns
    turns --progress--> mirror --> snapshot file <--delete, purge, dismiss-- UI

Ingest and handlers enqueue in the same transaction as the state they change. Workers
learn of jobs by a notification with a 5-second poll behind it. All calls of models from
the background go through the gate. A chat turn is a task of its own: the table keeps its
abort handle, the mirror of its progress is another task that lags behind, and everything
the turn tells travels over a broadcast channel that drops the oldest events when it is full.

### What is hard here

- *Await points.* A seal reads its buffer, awaits three model calls and then commits; the
  digest is several transactions with awaits between; the cron loop works on copies; an edit
  of a cron row is a read and a write; `start_chat` looks its predecessor up under one lock
  and enters itself under the next; a turn holds its agent outside the cache; a tick writes
  rows it read before the model was asked. Everything else may happen in between.
- *Aborts.* A turn, a heartbeat and a tick are dropped at whatever await they are in; what
  they have half done stays.
- *Several actors on one table.* Four workers, and more than one process: the desktop app
  takes over from a stale core (`app/src-tauri/src/core_process.rs`), and
  `bin/gmail_backfill_3d.rs` drains the queue of the same workspace.
- *Crashes.* Between any two transactions; recovery is by lock expiry, once per start.
- *Retries.* Every handler may run again after any of its transactions has committed.
- *Boundaries.* Attempt budget, lock expiry to the millisecond, level thresholds, batches
  and slots at their limit, settings out of range.
- *Liveness.* Every wake-up (seal job, permit, poll, requeue) has one chance to be missed.

`PROJECT.json` lists forty such hazards, each at its line with the properties that
watch it, including those of components still to be modelled.

## Modules

| Module | Models | State to code |
|---|---|---|
| `JobTable` | the SQL statements of `jobs/store.rs`, each an operator from table to table | `[RowIds -> Row]` is `mem_tree_jobs`; `Job` is what `claim_next` returns |
| `JobQueue` | processes, worker loops, leases, faults, time (`jobs/worker.rs`, `testing.rs`) | `pc[w]`, `lease[w]`: locals of a worker's loop; `up[p]`: a process; `lessee`, `starts`: history |
| `JobLedger` | what the queue promises: tickets are open, then settled | abstract specification |
| `JobQueueProofs` | theorems about `JobQueue` and `SchedulerGate` | |
| `SummaryTree` | buffers, summaries, backlinks, root and the transactions on them (`tree_source/bucket_seal.rs`) | sets for `mem_tree_buffers.item_ids_json` and `child_ids_json` |
| `MemoryPipeline` | ingest, all handlers but the digest, the pool around them | `chunk`: `lifecycle_status`; `queue`: latest row per dedupe key; `at[w]`, `held[w]`, `seen[w]`: a handler's locals; `caught`, `unheard`, `again`: history |
| `MemoryPipelineProofs` | theorems about `MemoryPipeline` | |
| `RollupLedger` | what bucket sealing promises: but for what is caught by a roll-up under way or brought again, items arrive once and are rolled up once | abstract specification |
| `DailyDigest` | the `digest_daily` job and the global tree, one action per transaction | `made[w]`, `level[w]`, `seen[w]`: locals of `end_of_day_digest` and `cascade_seals`; `caught`: history |
| `DailyDigestProofs` | theorems about `DailyDigest` | |
| `SchedulerGate` | gate, policy, sampler, sign-out, waiters | `config`, `signals`, `policy`: the fields of `State`; `line`: the semaphore's waiters; `leaked`: history |
| `CronScheduler` | the cron loop, the table, editors | `flight[j]`: the loop's copy of a row and how far it is; `edit[e]`: a row between `get_job` and the UPDATE; `started`, `done`, `repeats`, `redone`, `strays`: history |
| `CronSchedulerProofs` | theorems about `CronScheduler` | |
| `WebChat` | start, cancellation and whole life of a turn, cached agents, the mirror and the snapshot file, deletion, purge, crash | `inFlight`, `session`: the two tables; `turn[r]`: the task of a request; `mirror[r]`: its bridge; `snapshot[t]`: the file; `raced`, `early`, `leaked`, `eclipsed`: history |
| `WebChatProofs` | theorems about `WebChat` | |
| `ChannelReply` | `handle` of `channels/bus.rs` with all it calls, the turns' events, calls that fail or seem to | `st`: `StreamingState`; `queue`: the receiver; `phase`: the place in `handle`; `shown[m]`: what stands in the channel; `marks`, `lagged`, `reply`: history |
| `ChannelReplyProofs` | theorems about `ChannelReply` | |
| `SubconsciousTicks` | ticks, the schedule of tasks, approvals, edits, aborts | `task`: `subconscious_tasks`; `open`: `in_progress` entries; `copy`, `verdicts`, `tickAt`: locals of `tick`; `orphaned`, `recorded`, `halved`, `reflected`, `cut`, `owed`: history |
| `SubconsciousTicksProofs` | theorems about `SubconsciousTicks` | |
| `SessionLifecycle` | `store_session`, `clear_session`, the expiry handler, bootstrap and reset, and who holds the engine meanwhile | `active`, `jwt`: the files; `engine`, `lock`: `ENGINE`; `slot`, `loops`: the handle and the heartbeats; `login[b]`, `logout[o]`, `client[c]`: places in the code; `from`: the configuration a call has loaded; `undercut`, `marks`: history |
| `SessionLifecycleProofs` | theorems about `SessionLifecycle` | |
| `MC...` | instances for TLC | |

The pieces compose by abstraction rather than by one product. `JobQueue` treats handlers
as opaque and establishes `DedupeUnique`: a key has at most one active row. Because of
it, `MemoryPipeline` and `DailyDigest` can represent the queue as a function from dedupe
keys to the latest row, drop leases and clocks, and concentrate on what handlers do. Of the
gate they keep the one thing they depend on, `PermitTaken`: with a local backend a worker keeps
the permit while an LLM-bound handler runs, and nobody claims meanwhile; for other handlers
(`append_buffer`, `flush_stale`) and with a cloud backend it is dropped right after the claim
(`worker.rs:145-164`). So a pool is never serial: an append claimed first may still be at its
transaction when a seal starts. `SchedulerGate` shows that the permit itself is exclusive. In the same way
`SubconsciousTicks` relies on the engine's mutex, which `SessionLifecycle` models
(`EngineHeldStill`), `ChannelReply` takes from `WebChat` that a turn ends in one last event
and that a new message on a thread cancels the old turn, and `SessionLifecycle` takes from
`SchedulerGate` that a tick may have to wait at the gate until somebody signs in.

Common to all modules: a transaction is part of one action and an await is a boundary
between two. Faults are actions of a kind listed in `FaultKinds`, at most `MaxFaults` of
them, and may strike anywhere. `MemoryPipeline` and `DailyDigest` tell an error *before* a
handler's writes from one *after* them (`late_error`), for the second repeats committed
work. Texts, embeddings, scores and labels are left out; where the code branches on one
(is the chunk kept? which topics does a summary mention?) the model branches both ways.
`DailyDigest` treats a day's material as one flag, because
`pick_source_contribution` falls back to a tree's root and so finds something for every
day once any tree has sealed.

## Runs

| Run | Instance | Shows |
|---|---|---|
| `queue_safety` | 2 rows, 2 keys, 2 processes with a worker each; attempts 2, lock 1 tick, clock to 4; one crash, busy or panic | `LeaseSafe` (dedupe, lease and token invariants with the inductive `LeaseInv`), the attempt budget; `JobQueue` implements `JobLedger` |
| `queue_patient` | 1 process, one crash, clock to 30, relaunch only after locks have expired | every job settles; orphaned rows are requeued |
| `tree_faults` | 2 workers, cloud backend; a chunk that fills the token budget alone, a source and a topic tree, 4 summary ids, 2 levels; one error, late error, lost settlement or crash anywhere | `TreeInv` (types, root and backlinks), final backlinks; `NothingLost`, `SealedOnce`, `GateArmed` and the refinement of `RollupLedger`, each but for the entries that history names |
| `tree_pool` | 2 workers and one permit (local backend), 2 chunks, one flush, one error | `PipelineFlows`: ingested chunks are placed and full buffers drain |
| `digest` | 2 workers; 2 days and 3 triggers, a daily to a week, 2 weeks to a month, 6 ids; two errors, lost settlements or crashes | `DigestInv` (one daily per day), disjoint periods, refinement of `RollupLedger`, days are digested |
| `gate` | 2 callers, 1 slot, 5 measurements, 4 settings | `GateInv` (one call at a time), `PolicySound` (current and monotone), stand-down, every caller served |
| `cron` | an agent job at an instant, deleted after its run or kept, and a recurring shell job that an edit may turn into a kept `at`; 1 edit, 1 fault, clock to 2, one run at a time | `PauseSafe`, `RunsAccounted` (occurrences and deleted one-shots); due jobs run |
| `chat` | 2 messages of one client on one thread, one deletion, purge, dismissal or crash, cancellations at any time | `InFlightInv` (the table and whom it reaches), `NoStaleSession`, `SnapshotInv`; every message is concluded |
| `session` | a core started signed out, or with a session whose token may be missing; a sign-in of either of two users, an expiry, one RPC; storing, removing, loading may each fail | `SettledInv`, `EngineOfUser`, `OneHeartbeat`; `EngineLockSound` (the engine does not change under its holder, calls return) |
| `ticks` | 2 tasks, one-off or open-ended, clock to 1, 2 verdicts, one edit, removal, abort or refused write | `TickInv`, `OnceDone`, `EditsStand`; waiting tasks are judged |
| `ticks_window` | 1 task and a model that fails | that `FailedWindowKept`, which `engine.rs:292` promises, does *not* hold |
| `reply` | 2 messages of a channel, a queue of 2 events, 2 deltas a turn, 1 filler, 2 calls that go wrong | `BubbleInv`, `ReplyInv`, `EndsAccounted`; every message is handled |

### Why these bounds are enough

- *Queue.* Dedupe and priority need two keys, reuse of a key two rows, a contested lease two
  workers in two processes, a stale token a claim after expiry (lock of one tick, clock to
  four). Two attempts give a retry and a final failure. `MaxTime` 30 with two starts lets
  every backoff and every lock run out, so that liveness is not satisfied by a stopped clock.
  The theorems cover all other sizes.
- *Pipeline.* Two workers interleave at every await, so a push can meet a seal that waits for
  the model. In `tree_faults` the one chunk opens the gate alone, and it and every summary go to
  the topic tree as well: appends, seals of two trees and levels, and routes overlap, and the
  trees share children. Two levels give a cascade; levels above `MaxLevel` take summaries but do
  not seal. When no `SummaryIds` are left a seal waits. The liveness of `tree_pool` has enough ids
  for every seal, and no topic tree: a level-0 buffer of a topic tree that holds summaries only
  hydrates to nothing and fails for ever, as [told below](#what-the-code-does-wrong).
- *Digest.* Two days on two workers meet at either level of the cascade, for a daily closes a week
  and two weeks a month; real thresholds of 7, 4 and 12 add steps of the same kind. Six ids are
  enough for every summary two digests can write, also when they roll one level up twice. The third trigger
  and two faults bring a day back after anything.
- *Gate.* The five measurements cross every threshold of the policy in both directions; one
  setting has its floor out of range. Two callers are a caller and a competitor.
- *Cron.* Two jobs compete for one slot, one fault and one edit race with either. The agent job
  may be deleted after its run or kept, as its caller wishes.
- *Chat.* Two messages on one thread are a turn and its successor, which is what all the
  exceptions of the code are about; a third adds no new pair. One upset decides which of
  deletion, purge, dismissal and crash meets them; cancellations come at any time.
- *Session.* Three bootstraps or sign-outs at once (restored session, sign-in, expiry) with
  an RPC that builds an engine of its own reach every marked exception, and each file operation of
  a sign-in or a sign-out may fail in any of them. `Logouts` is empty
  because the expiry handler runs the same `clear_session`; the safety properties were
  checked with a user's sign-out beside it as well.
- *Ticks.* Two tasks make one that is edited while the other is being run; a clock of one
  heartbeat tells before from after; two verdicts allow both tasks or one of them twice. The one
  upset strikes at any await or between any two writes.
- *Replies.* Two messages make a late event of the first during the second; a queue of two
  loses an end to two deltas. Two failures reach the latch of `MAX_EDIT_FAILURES`, and any
  call may fail in any of its ways. Fillers are one because each is posted and deleted alone.

`CHECK_DEADLOCK FALSE` is said where the system really comes to rest (no jobs left, ids or
triggers used up).

### Fairness

Weak fairness of the steps of workers, of settlements, of the loop and of callers only. Worker
loops poll again after every job, every five seconds without one and a second after an error,
provided that the gate lets them; handlers
await calls that have timeouts; the semaphore is first come first served. The cron loop polls when
its batch has been dealt with, and a query that fails costs one poll; that it polls at
some time presupposes that queries do not fail for ever, and that runs end: shell commands are
killed after two minutes, agent turns end with their provider's timeouts. A
stopped core is relaunched and time passes (queue). Producers, schedulers, users,
measurements and faults are never fair. Chat turns go on and their calls return; their bridges
need not, since nothing that a client is promised waits for them. In `SessionLifecycle` the steps of sign-ins, of sign-outs and
of who holds the engine for a tick go on; sign-ins and resets that wait for the engine get their turn (`SF`: tokio's mutex
is first come first served); a tick ends unless it waits at the gate. The heartbeat gets its turn
at the engine in `SubconsciousTicks`. In
`ChannelReply` the handler goes on and time passes, but no turn need ever end. `CallersResume`
additionally presupposes in the formula that the gate stays open from some point on.

### The weaker words in the properties

Some properties say less than a reader might hope, because the code does:

- `LeaseExclusive` allows a second worker on a row whose lock has run out; `TokenNamesLessee`
  makes the late one's settlement a no-op.
- `AttemptBudget` allows one claim above `max_attempts` per restart: recovery leaves
  `attempts` alone and does not compare it with the limit.
- `StandDown` and `StopsAfterPause` allow one more start: a caller past its check, or a job in
  the batch already read, goes on.
- `OccurrenceOnce` and `OneShotOnce` charge a repetition to each edit or fault. They do not
  count the runs of a *kept* `at`, one with `delete_after_run` false: every shell job at an
  instant, and every agent job whose caller says so, is due again at every poll
  (see [below](#what-the-code-does-wrong)).
- `NothingLost` and `ImplementsRollup` except entries pushed into a buffer while a seal of it
  waited for the model (`caught`); `SealedOnce` and `ImplementsRollup` except items whose
  extract, append or route job was handed out again after its writes (`again`); `GateArmed` and
  `GatesDrain` except a buffer whose last wake-up came between the end of a seal and its
  settlement (`unheard`). These are the races the code has, no more: an item that is in none of
  the three histories is never lost, doubled or forgotten, with any workers and any faults.
- `PeriodsDisjoint` and the digest's `ImplementsRollup` except summaries filed at a level, or read
  there, while another worker was rolling that level up (`caught`).
- `OrphansRequeued` and `EveryJobSettles` presuppose a patient relaunch.
- `TurnAbortable` and `OneTurnPerKey` except keys on which two calls of `start_chat` were
  once between their two locks together (`raced`); `EntryLive` excepts turns that ended before
  their entry was made (`early`). `CancelledNeverConcludes` does not say that nothing of an answer
  is seen: bubbles published before the abort have been shown.
- `NoStaleSession` excepts agents that a turn held during a deletion and puts back, and those
  a purge passes over (`leaked`); `LoneSnapshot` excepts turns whose snapshot met another
  turn's (`eclipsed`).
- `SignedInServed`, `EngineOfUser` and `OneHeartbeat` each except a mark: a reset that came after
  the next sign-in (`undone`) or a step that failed, a stray engine, a teardown that crossed a
  bootstrap. `GateFollowsSession` holds at every moment but for a sign-in that a sign-out
  overlapped and that opens the gate last (`opened`), a token filed in another directory
  (`misfiled`) and, for the token, a change of users without a sign-out.
- `WindowsOnce` excepts a window whose tick was cut off after its reflections were stored;
  `OnceDone` a one-off whose completion was cut off or refused after its run was written down.
- `ReplyStands` and `NothingLeft` except messages marked by a call whose answer was wrong or
  missing in a way the code cannot find out. `EndsAccounted` says for which reasons a turn that
  has ended is called timed out and a chat is empty, not that neither happens.

## Proofs

`tlapm` checks every leaf. The constants are arbitrary within the named assumptions of each
module: any number of rows, keys, processes, workers, callers, jobs, any bounds.

**Queue** (`JobQueueProofs`). `TypeCorrect`, `DedupeCorrect`, `LeaseCorrect`, `TokenCorrect`,
together `LeaseSafeCorrect`; `LedgerCorrect`, `BudgetCorrect`. None of the three lease properties is inductive: that a
former holder's token no longer matches depends on when it claimed. `LeaseInv` says for every
lease either that its worker is the last lessee, and then the row still carries the token,
or that it is a former one, and then its lock had run out and the row's `started_at` is
strictly later or NULL. Strictness is what the `<` (not `<=`) of `recover_stale_locks` gives;
with it the token needs no random part. Deferral lowers `attempts` again, so `attempts` alone
would not separate the claims (a mutant of `TokenMatches` shows it). `TableStepLemma` reduces
every step to two shapes, the submission of a job under a free key and the settlement of at
most one row, and dedupe and refinement are proved from these. The refinement maps rows to tickets: insertion is `Submit`, a settlement to a terminal status is
`Finish`, everything else stutters.

**Gate** (`JobQueueProofs`, beside the queue whose workers take the permit). `GateTypeCorrect`, `SlotCorrect`, `PolicyCorrect`,
`MonotoneCorrect`, together `GateCorrect` and `PolicySoundCorrect`; `StandDownCorrect`. `GateTypeInv` joins the types with `LineMatches`
(the line holds each waiter once), without which a grant could be given to somebody who is not waiting.
`StandDownInv` adds that a caller who has used its one call is in it or stands before the
check of the session. `DecideMonotone` is a lemma about the pure policy function for every setting,
in range or not.

**Cron** (`CronSchedulerProofs`). `TypeCorrect`, with the counting lemmas that batches stay
within `max_tasks` and runs within `max_concurrent` and that nothing ends that has not
started; and `PauseCorrect`, together `PauseSafeCorrect`. `PauseInv` adds to `StopsAfterPause` that a job which has
used its stray start is stopped and no longer queued in the batch, and that a failed one-shot's
row is on its way back disabled. `RunsCorrect` proves `RunsAccounted` for any jobs, schedules and
edits, kept `at` rows among them, from three more parts: what was started, or waits in a batch,
lies in the past (`StartsPast`), and every repetition of a start or an end is owed by a fault or
an edit that has been counted (`RepeatsPaid`, `RedoPaid`). `Stale` says when a start is loaded to
be a repetition, also by a kept `at` that writes its old instant onto a row edited during its run.

**Digest** (`DailyDigestProofs`). `TypeCorrect` and `OnceCorrect`, together `DigestCorrect`. A day has one job row, a
row one worker (`OneWorkerPerDay`), so what a worker has seen of its day stays true
(`FoldFresh`), and the insert of the daily cannot be the second one. `PeriodsCorrect` and
`RollupCorrect` hold for any number of digests at once. Their invariant `FrontierInv` says that
what stands in a buffer is of its level and has no parent yet, and so is the daily about to be
filed; and that what a cascade has read differs from what it will clear, and from what another
has read there, by nothing but what was caught (`SeenInv`). The theorems so say exactly which
summaries an overlap of digests can cost.

**Trees** (`MemoryPipelineProofs`). All theorems hold for any workers and any faults, without a
hypothesis. `TreeCorrect` (types, roots) and `BacklinksCorrect` say so of everything in a tree; the others of every item and
buffer that the three histories do not name, and the histories name no more than the code's own races:
`caught` an entry pushed while a seal of its buffer waits for the model, `unheard` a seal job whose
wake-up came after its work and before its settlement, `again` an item whose job is handed out
once more after its writes. `LeavesKept` and `GatesCorrect` prove `NothingLost` and `GateArmed`
from the invariant that what a seal has seen is in its buffer until it commits, and the rest of the
buffer was caught (`SealsInv`). `OnceCorrect` proves `SealedOnce`; its invariant
`OnceInv` follows an item on its way: a chunk that is unprocessed, an extract, route or append job that
has not written, a buffer and a parent exclude each other unless the item comes again, and a
summary id nobody has used occurs nowhere. `RollupCorrect` proves the refinement of `RollupLedger`: an append is an
arrival, a seal a rollup, all else stutters.

**Chat** (`WebChatProofs`). `InFlightCorrect`, `SessionsCorrect` and `SnapshotCorrect` are parts or consequences
of `ChatInvariant`. `TurnInv` says what a turn may have said by the place it has reached. `BegunAlone`
is why an insert drops no handle: who is between the two locks on a key that nobody raced for is
the only one there, and has aborted what ran before. `HeldFresh` extends `NoStaleSession` to the
agents that turns hold, for they are put back; `SnapshotLive` and `SnapshotTrue` extend
`SnapshotInv` from ended bridges to open ones.

**Session** (`SessionLifecycleProofs`). `SettledCorrect`, `EngineCorrect`, `HeartbeatCorrect`, and `HeldStill` as
an action property. What the properties say of a settled core has to be carried through
overlaps and failures, so each part of the invariant names who still owes what is missing: the flag stands
for an engine or a bootstrap that has yet to get one (`FlagInv`), a signed-in user is served
or a sign-in has yet to try (`ServedInv`), a missing token is about to be stored or its user to be
forgotten, unless something failed (`TokenInv`), the switch stays thrown from `set_signed_out` on, and every
sign-in that goes on beside is known as overlapped (`GateInv`), an engine of
somebody else is about to be reset (`EngineInv`), and one bootstrap at most runs and none beside
a heartbeat (`LoopInv`). Every exception in the properties is a mark that one step sets.

**Ticks** (`SubconsciousTicksProofs`). `TickCorrect`, `OnceCorrect`, `EditsCorrect`. The
invariant `TickBooks` adds to `TickInv` that verdicts are about tasks the tick has taken up
(`VerdictsTaken`), without which a row could be written from a copy that does not exist, that an
entry already answered for belongs to a verdict still to be carried out (`AnsweredInv`), and that
what has left reflections lies before `last_tick_at` or before what the tick will store there
(`WindowInv`). `OnceInv` says why `OnceDone` holds although log entry and completion are two
writes: a one-off with a recorded run is completed, or the next write completes it, or that write
is known to be missing. `WritesRewrite` says once what the steps that write from the
copy may do to a row (`Rewrites`); that a finished one-off stays finished and that edits stand
both follow from it.

**Replies** (`ChannelReplyProofs`). `BooksCorrect`, and from it `BubblesCorrect`, `RepliesCorrect`
and the action property `EndsAccountedFor`. Neither invariant is inductive: what stands in the channel
depends on calls whose answers the handler has kept in `st`. `ReplyBooks` says of every kind of
bubble (thinking, filler, draft, final) that what stands is what `st` knows of, or what a call
recorded in `marks` left there. `InboxInv` adds that a message still waiting in the inbox has left nothing behind, and `EndInv` that
the end of the turn at work is yet to come, is queued, or was dropped by a lagging receiver: so a
turn that has ended is called timed out only while its end waits in the queue behind the deadline,
or because it was dropped.

*Assumptions.* The `ASSUME`s of the modules: types and finiteness of constants, NULL
distinct from values, positive bounds. TLC evaluates each in a passing run. No theorem has a
hypothesis beyond them and its specification. What the theorems do not promise stands in the
properties themselves, as exceptions for single items, keys or messages that a history variable
names; histories record steps and never restrain them.

*Model-checked only.* All liveness properties (fairness and ENABLED are out of the prover's
reach), so of `EngineLockSound` its second half. Every invariant and every safety action property of the
passing runs is stated by a theorem. Nothing is
stated about recursive data: no module declares a recursive operator, and induction over data
is not available to the prover.

## What the code does wrong

The runs check what the code keeps. These it does not; each was met while modelling, most as a
counterexample of a stronger property or configuration, which is told where it can be repeated.
One is a run of its own, `ticks_window`.

Queue and trees:

- A core relaunched within the lock duration (five minutes) skips rows still locked by its
  predecessor, and `recover_stale_locks` never runs again in that process. The row stays
  running and its dedupe key blocked until the start after next, although `store.rs:312` says
  that recovery runs "so a process crash mid-job doesn't leave work stranded".
  (`OrphansRequeued` without the patience of `PatientNext`.)
- `seal_one_level` clears whatever the buffer holds at its commit, not what it has summarised
  (`bucket_seal.rs:669`, against the comment at line 15). Two workers suffice to lose a leaf,
  with a cloud backend and also with a local one, whose permit does not cover appends.
  (`NothingLost` without `Caught`.)
- A crash or error after the daily is inserted and before it is filed (`digest.rs:272`) makes
  every retry skip; no week will contain it, although line 10 says "exactly one L0 (daily) node
  emitted + cascade". (A daily whose job is over waits at level 0 or has a parent.)
- A crash, a panic or a lost settlement after an append has committed makes the job run again.
  The check for a duplicate looks only at the buffer (`jobs/handlers/mod.rs:309`), so an item
  that has been sealed meanwhile is buffered again and becomes the child of a second summary.
  (`SealedOnce` without `again`.)
- The wake-up of a seal may be suppressed because one of that level is still running
  (`handlers/mod.rs:328`); the next push or the daily flush repairs it. (`GateArmed` without
  `unheard`.)
- The comment at `worker.rs:172` relies on recovery to return a row whose settlement failed
  with `SQLITE_BUSY`; recovery runs at the next start only.
- `flush_stale` lists the level-0 buffer of the global tree as well
  (`handlers/mod.rs:514`); its seal looks dailies up among chunks, finds none and fails until
  its attempts are used up, every day.
- `topic_route` appends summaries to level 0 of topic trees, where `hydrate_inputs`
  (`bucket_seal.rs:781`) looks among chunks only: they become children unread, and a seal of
  a buffer that holds nothing else fails until its attempts are used up.
- Two digests at once (`trigger_digest`, `backfill_missing_digests`) can roll one level up
  twice or lose a daily the way a seal loses a leaf. (`PeriodsDisjoint` without `caught`.)
- `digest.rs:11` says an empty day emits nothing; the fallback to the root gives every day a
  daily once any tree has sealed.

Cron:

- A shell job scheduled `at` an instant is stored with `delete_after_run = 0`
  (`cron/store.rs:41`), and an agent job may be, if its caller says so
  (`tools/impl/cron/add.rs:258`). Either is rescheduled to the same past instant and runs at every
  poll, while `tools/impl/cron/add.rs:143` promises a "One-shot job that runs once at a specific UTC
  instant". (`OccurrenceOnce` without `Kept`.)
- Rows that stay past due like this come first in `due_jobs` and can crowd out others.
- `reschedule_after_run` computes the next run from the loop's copy of the schedule
  (`cron/store.rs:304`), so an edit during a run gets the next run of the old schedule.

Web chat:

- Of two overlapping calls of `start_chat` on a key the later insert drops the other's handle:
  that turn cannot be aborted any more and runs beside its successor (`web.rs:357`, `web.rs:486`).
- `threads_purge` does not invalidate the cached agents, although the comment at `web.rs:499`
  gives the reason why a deletion must; and a turn in flight during a deletion puts its agent
  back and writes its snapshot anew.
- A turn aborted between two bubbles of its answer (`presentation.rs:80`) leaves a beginning
  without an end in front of the cancellation.
- The bridge of an aborted turn may overwrite or delete its successor's snapshot.
- A crash between the end of a turn and its observation by the bridge marks an answered turn
  as interrupted.

Session:

- A sign-out waits for the engine behind a tick and lowers `BOOTSTRAPPED` only then
  (`subconscious/global.rs:137`): a sign-in in between believes itself bootstrapped and is then
  taken down. The new user has no engine and no heartbeat.
- A sign-out that crosses a bootstrap leaves a heartbeat without a handle; it never stops.
- The switch of the gate is thrown last by whichever ends last: after an overlap an idle
  signed-in core may stand down, or a signed-out one may go on.
- `clear_session` throws the switch, then removes the profile (`credentials/ops.rs:288`): if the
  removal fails the call returns, and a core that is still signed in stands down until the next
  sign-in.
- `store_session` makes the user active before it stores the token (`credentials/ops.rs:228`): if storing fails the call
  returns its error and leaves an active user without a token; and if the user's own
  configuration does not load, the token is stored where the configuration of the call points.
- Signing in as another user without signing out keeps the first user's engine
  (`subconscious/global.rs:128` says the engine is to be dropped on a switch), and so does an
  engine installed from a configuration loaded before the switch.
- A tick that waits at the gate keeps the engine; the sign-out waits for the engine, and so
  does the bootstrap of the sign-in that would open the gate. (`CallsReturn` without its
  exception.)

Subconscious:

- A failed evaluation leaves `last_tick_at` alone, "so the next tick sees the same window"
  (`engine.rs:292`), but advances every task it was about (`engine.rs:328`); so the next tick mostly finds
  nothing due and moves `last_tick_at` (`engine.rs:182`): the window is never shown. (The run
  `ticks_window`.) An answer that cannot be read is not taken for a failure at all
  (`engine.rs:821`) and moves the window at once.
- A task named twice in an answer is run twice; a crash between run and record repeats it. So does
  one between the log entry of a one-off's run and its completion, which are separate writes
  (`engine.rs:625`, `637`; `456`, `463`). (`OnceDone` without `halved`.)
- A failed evaluation moves the schedule of recurring tasks on all the same; a cron expression that
  cannot be read gives no next run at all (`store.rs:635`), and its task is due at every tick.
- `update_task` never resets `completed` or `next_run_at`: a finished one-off that is made
  recurring is never due.
- `approve_escalation` does not look whether the escalation is still pending, and records a
  run even if the execution failed.
- The generation counter never decides anything: all who tick hold the engine's mutex.

Channel replies:

- The thinking is truncated at byte 500 (`bus.rs:539`), which panics inside a character: the
  message is not answered, and its bubbles stay.
- When a draft was posted but came back without an id, a second message is sent
  (`bus.rs:775`), although the function's own comment says it must not (`bus.rs:709`).
- The orphaned draft is deleted before the reply that replaces it is sent (`bus.rs:752`): for
  that moment, or for good if the sending fails, the chat is empty, against `bus.rs:719`.
- An edit or post that was done although an error came back leaves a bubble nobody deletes.
- A message whose answer has arrived may be told that it timed out: the select takes the deadline
  while `chat_done` waits in the queue (`bus.rs:229`), or a burst of events has dropped it from the
  broadcast channel (`bus.rs:202`). (`TimeOutAccounted` without its last two disjuncts.)
- One subscriber serves all channels in turn, up to 180 seconds a message, while the bus keeps
  256 events; further messages are dropped with a warning.

## What is not modelled

- Text, scores, embeddings, prompts, SQL schemas, Markdown files, retrieval: no protocol.
- Clients of external services (providers, channels, composio, integrations, voice, meetings),
  agents' dialogues with models, tools, the user interface, the installer and updater: pure
  input and output, or the protocol is the service's.
- `packages/pkg-graph`, `domains/finance`: independent libraries.
- Within the modelled components: `cron_run` ("Run now", which touches no schedule), patches
  of a cron row other than schedule and enabling, creation of trees, the LLM judgement
  itself, the wall clock of the daily scheduler, a second tree beside the global one in the
  flush; panics inside a chat turn (its client hears nothing), transcripts of agents on disk
  (not deleted with their thread), failed writes of snapshots; the services a sign-in starts
  beside the engine, a disabled heartbeat; the wording of reflections and of the
  situation report of a tick; the typing indicator.

## Plan

Modules in order of what they would tell, then proofs.

1. `TopicTrees`: hotness counters read before and written after an await
   (`tree_topic/curator.rs`), spawning, backfill cut short. Property: no mention lost, one tree per
   topic, backfilled once. Composes with `SummaryTree`.
2. Composition of `MemoryPipeline` and `DailyDigest`: one queue for the handlers of both, and the
   flush of the global tree.
3. The in-memory ingestion channel, `WalletQuotes`, the triage evaluator's fallback chain,
   socket reconnection, the tree summarizer.
