---------------------------- MODULE DailyDigest ----------------------------
(***************************************************************************)
(* The global tree: digest_daily jobs, one per calendar day, each of which *)
(* folds what the source trees have sealed into one daily summary, files   *)
(* it in the level-0 buffer and rolls full levels up in the same handler   *)
(* (memory/tree/tree_global/digest.rs and seal.rs, jobs/scheduler.rs).     *)
(*                                                                         *)
(* Every transaction is an action of its own, for the handler may await,   *)
(* fail or die between any two of them, and the digests of two days may    *)
(* cascade over the same buffers at once.  A day's job is its latest row,  *)
(* as in MemoryPipeline.                                                   *)
(***************************************************************************)
EXTENDS Integers, FiniteSets

CONSTANTS
  Days,         \* calendar days
  Ids,          \* bound: ids of the global tree's summaries
  Threshold,    \* WEEKLY_, MONTHLY_ and YEARLY_SEAL_THRESHOLD by level
  Workers,      \* worker tasks
  MaxAttempts,  \* DEFAULT_MAX_ATTEMPTS
  FaultKinds,   \* faults of this instance
  MaxFaults,    \* bound: how many faults
  MaxTriggers,  \* bound: how often a digest is enqueued
  NULL          \* SQL NULL

Levels == DOMAIN Threshold
TopLevel == Cardinality(Levels)

\* A daily has the day it covers, every other summary has children.
Summary == [level : Nat, day : Days \cup {NULL}, children : SUBSET Ids]

ASSUME DailyDigestAssumption ==
  /\ IsFiniteSet(Levels) /\ Levels = 0..TopLevel - 1
  /\ Threshold \in [Levels -> Nat \ {0}]
  /\ MaxAttempts \in Nat \ {0}
  /\ FaultKinds \subseteq {"error", "busy", "crash"}
  /\ MaxFaults \in Nat /\ MaxTriggers \in Nat
  /\ NULL \notin Ids \cup Days /\ NULL \notin Summary

VARIABLES
  material,  \* some source tree has sealed a summary
  summary,   \* mem_tree_summaries of the global tree; NULL: no row
  buffer,    \* its mem_tree_buffers by level
  parent,    \* parent_id of each summary
  top,       \* root_id and max_level of the tree
  job,       \* job[d]: the digest_daily row of day d
  at,        \* at[w]: where the handler is
  day,       \* day[w]: the date of the job it claimed
  made,      \* made[w]: the daily it has inserted
  level,     \* level[w]: the level its cascade has reached
  seen,      \* seen[w]: the buffer it is rolling up
  caught,    \* history: summaries filed at a level, or read there, while another
             \* worker was rolling that level up
  faults,    \* faults so far
  triggers   \* enqueues so far

tree == <<summary, buffer, parent, top>>
work == <<day, made, level, seen>>
vars == <<material, tree, job, at, work, caught, faults, triggers>>

JobRow == [status : {"none", "ready", "running", "failed"}, attempts : Nat]

TypeOK ==
  /\ material \in BOOLEAN
  /\ summary \in [Ids -> Summary \cup {NULL}]
  /\ buffer  \in [0..TopLevel -> SUBSET Ids]
  /\ parent  \in [Ids -> Ids \cup {NULL}]
  /\ top     \in [root : Ids \cup {NULL}, level : 0..TopLevel]
  /\ job     \in [Days -> JobRow]
  /\ at      \in [Workers -> {"idle", "start", "fold", "append", "cascade", "roll",
                              "done", "error"}]
  /\ day     \in [Workers -> Days \cup {NULL}]
  /\ made    \in [Workers -> Ids \cup {NULL}]
  /\ level   \in [Workers -> 0..TopLevel]
  /\ seen    \in [Workers -> SUBSET Ids]
  /\ caught  \subseteq Ids
  /\ faults \in Nat /\ triggers \in Nat

Init ==
  /\ material = FALSE
  /\ summary = [i \in Ids |-> NULL]
  /\ buffer  = [l \in 0..TopLevel |-> {}]
  /\ parent  = [i \in Ids |-> NULL]
  /\ top     = [root |-> NULL, level |-> 0]
  /\ job     = [d \in Days |-> [status |-> "none", attempts |-> 0]]
  /\ at      = [w \in Workers |-> "idle"]
  /\ day     = [w \in Workers |-> NULL]
  /\ made    = [w \in Workers |-> NULL]
  /\ level   = [w \in Workers |-> 0]
  /\ seen    = [w \in Workers |-> {}]
  /\ caught  = {}
  /\ faults = 0 /\ triggers = 0

Fault(kind) ==
  /\ kind \in FaultKinds
  /\ faults < MaxFaults
  /\ faults' = faults + 1

-----------------------------------------------------------------------------
(* The world: source trees seal, the scheduler and the trigger_digest RPC  *)
(* enqueue.  A day with an active row is not enqueued again.               *)

SourceSeals ==
  /\ ~material
  /\ material' = TRUE
  /\ UNCHANGED <<tree, job, at, work, caught, faults, triggers>>

Trigger(d) ==
  /\ triggers < MaxTriggers
  /\ triggers' = triggers + 1
  /\ job[d].status \notin {"ready", "running"}
  /\ job' = [job EXCEPT ![d] = [status |-> "ready", attempts |-> 0]]
  /\ UNCHANGED <<material, tree, at, work, caught, faults>>

Claim(w) ==
  /\ at[w] = "idle"
  /\ \E d \in {d \in Days : job[d].status = "ready"} :
        /\ job' = [job EXCEPT ![d].status = "running", ![d].attempts = @ + 1]
        /\ day' = [day EXCEPT ![w] = d]
  /\ at' = [at EXCEPT ![w] = "start"]
  /\ UNCHANGED <<material, tree, made, level, seen, caught, faults, triggers>>

-----------------------------------------------------------------------------
(* end_of_day_digest *)

Dailies(d) == {i \in Ids : summary[i] # NULL /\ summary[i].level = 0 /\ summary[i].day = d}

\* Mutant: the check looks at the buffer and misses a daily not filed there.
FindExistingDaily_Buffered(d) == Dailies(d) \cap buffer[0]

FindExistingDaily(d) == Dailies(d)

\* pick_source_contribution falls back from a summary that reaches into the day
\* to the tree's root, so that a tree which has sealed at all contributes to
\* every day.
DigestStarts(w) ==
  /\ at[w] = "start"
  /\ at' = [at EXCEPT ![w] =
              IF FindExistingDaily(day[w]) = {} /\ material THEN "fold" ELSE "done"]
  /\ UNCHANGED <<material, tree, job, work, caught, faults, triggers>>

\* new_summary_id: any id that no row has; which one makes no difference.
Unused == {i \in Ids : summary[i] = NULL}
NewId == CHOOSE i \in Unused : TRUE

\* The daily is inserted in a transaction of its own.
CommitDaily(w) ==
  /\ at[w] = "fold"
  /\ Unused # {}
  /\ summary' = [summary EXCEPT ![NewId] = [level |-> 0, day |-> day[w], children |-> {}]]
  /\ made' = [made EXCEPT ![w] = NewId]
  /\ at' = [at EXCEPT ![w] = "append"]
  /\ UNCHANGED <<material, buffer, parent, top, job, day, level, seen, caught, faults, triggers>>

\* Somebody else has read level l and has yet to clear it.
RollsElsewhere(w, l) == \E v \in Workers \ {w} : at[v] = "roll" /\ level[v] = l

CaughtWith(w, l, items) == IF RollsElsewhere(w, l) THEN caught \cup items ELSE caught

\* append_daily_and_cascade: the push, then the cascade from level 0.
AppendDaily(w) ==
  /\ at[w] = "append"
  /\ buffer' = [buffer EXCEPT ![0] = @ \cup {made[w]}]
  /\ at' = [at EXCEPT ![w] = "cascade"]
  /\ level' = [level EXCEPT ![w] = 0]
  /\ caught' = CaughtWith(w, 0, {made[w]})
  /\ UNCHANGED <<material, summary, parent, top, job, day, made, seen, faults, triggers>>

DueForRollup(l, items) ==
  l \in Levels /\ items # {} /\ Cardinality(items) >= Threshold[l]

CascadeReads(w) ==
  /\ at[w] = "cascade"
  /\ LET items == buffer[level[w]] IN
       \/ /\ ~DueForRollup(level[w], items)
          /\ at' = [at EXCEPT ![w] = "done"]
          /\ UNCHANGED <<seen, caught>>
       \/ /\ DueForRollup(level[w], items)
          /\ at' = [at EXCEPT ![w] = "roll"]
          /\ seen' = [seen EXCEPT ![w] = items]
          /\ caught' = CaughtWith(w, level[w], items)
  /\ UNCHANGED <<material, tree, job, day, made, level, faults, triggers>>

\* Mutant: a rollup that keeps its inputs.
Rolled_Kept(l, id) == [buffer EXCEPT ![l + 1] = @ \cup {id}]

\* The level is cleared whatever it holds by now, the new summary is filed
\* above.
Rolled(l, id) == [buffer EXCEPT ![l] = {}, ![l + 1] = @ \cup {id}]

RollupCommits(w) ==
  LET l  == level[w]
      id == NewId
  IN
  /\ at[w] = "roll"
  /\ Unused # {}
  /\ summary' = [summary EXCEPT ![id] = [level |-> l + 1, day |-> NULL, children |-> seen[w]]]
  /\ parent' = [i \in Ids |-> IF i \in seen[w] /\ parent[i] = NULL THEN id ELSE parent[i]]
  /\ buffer' = Rolled(l, id)
  /\ top' = IF l + 1 > top.level THEN [root |-> id, level |-> l + 1] ELSE top
  /\ level' = [level EXCEPT ![w] = l + 1]
  /\ caught' = CaughtWith(w, l + 1, {id})
  /\ at' = [at EXCEPT ![w] = "cascade"]
  /\ UNCHANGED <<material, job, day, made, seen, faults, triggers>>

\* A read, the summariser, the embedder or a transaction fails.
DigestFails(w) ==
  /\ at[w] \in {"start", "fold", "append", "cascade", "roll"}
  /\ Fault("error")
  /\ at' = [at EXCEPT ![w] = "error"]
  /\ UNCHANGED <<material, tree, job, work, caught, triggers>>

-----------------------------------------------------------------------------
(* Settlement, a settlement lost to SQLITE_BUSY, and a crash.              *)

Poll(w) ==
  /\ at'    = [at EXCEPT ![w] = "idle"]
  /\ day'   = [day EXCEPT ![w] = NULL]
  /\ made'  = [made EXCEPT ![w] = NULL]
  /\ level' = [level EXCEPT ![w] = 0]
  /\ seen'  = [seen EXCEPT ![w] = {}]

\* Mutant: an error settles the job as done.
SettledStatus_NoRetry(w) == "none"

SettledStatus(w) ==
  CASE at[w] = "done"                      -> "none"
    [] job[day[w]].attempts < MaxAttempts -> "ready"
    [] OTHER                               -> "failed"

Settle(w) ==
  /\ at[w] \in {"done", "error"}
  /\ job' = [job EXCEPT ![day[w]].status = SettledStatus(w)]
  /\ Poll(w)
  /\ UNCHANGED <<material, tree, caught, faults, triggers>>

SettleBusy(w) ==
  /\ at[w] \in {"done", "error"}
  /\ Fault("busy")
  /\ Poll(w)
  /\ UNCHANGED <<material, tree, job, caught, triggers>>

\* The rows whose locks have run out by the restart are requeued.
CrashAndRestart ==
  /\ Fault("crash")
  /\ at'    = [w \in Workers |-> "idle"]
  /\ day'   = [w \in Workers |-> NULL]
  /\ made'  = [w \in Workers |-> NULL]
  /\ level' = [w \in Workers |-> 0]
  /\ seen'  = [w \in Workers |-> {}]
  /\ \E stale \in SUBSET {d \in Days : job[d].status = "running"} :
        job' = [d \in Days |-> IF d \in stale THEN [job[d] EXCEPT !.status = "ready"]
                                              ELSE job[d]]
  /\ UNCHANGED <<material, tree, caught, triggers>>

DigestStep(w) ==
  DigestStarts(w) \/ CommitDaily(w) \/ AppendDaily(w) \/ CascadeReads(w) \/ RollupCommits(w)

Next ==
  \/ SourceSeals
  \/ \E d \in Days : Trigger(d)
  \/ \E w \in Workers :
       Claim(w) \/ DigestStep(w) \/ DigestFails(w) \/ Settle(w) \/ SettleBusy(w)
  \/ CrashAndRestart

Spec == Init /\ [][Next]_vars

\* Fairness: workers keep polling, handlers return, settlements are written.
FairSpec ==
  Spec /\ \A w \in Workers :
            WF_vars(Claim(w)) /\ WF_vars(DigestStep(w)) /\ WF_vars(Settle(w))

-----------------------------------------------------------------------------
(* Properties *)

Rows == {i \in Ids : summary[i] # NULL}

\* A day has at most one daily, through retries, re-triggers and restarts
\* (digest.rs: "if an L0 daily node already exists for the target day, return
\* Skipped rather than emitting a duplicate").
DailyOnce == \A d \in Days : Cardinality(Dailies(d)) <= 1

\* The global tree is well typed at every moment, no level beyond the top is ever
\* filed, and no day has two dailies.
DigestInv == TypeOK /\ DailyOnce

\* Periods are disjoint: a summary goes up by one level and counts in one period only,
\* whose backlink it has, however many digests cascade over the same buffers and
\* whatever fails; only what was filed or read again while another worker was rolling
\* its level up may count twice.  A backlink always names one that counts it.
PeriodsDisjoint ==
  \A i, j \in Rows : \A c \in summary[i].children :
    /\ summary[c].level + 1 = summary[i].level
    /\ parent[c] \in Rows /\ c \in summary[parent[c]].children
    /\ c \in summary[j].children => i = j \/ c \in caught

\* The global tree implements the ledger of rollups, with digests that overlap and
\* whatever fails: a summary is filed once, leaves its buffer only into the summary
\* above, with everything else that goes there, and nothing vanishes but what was
\* caught by another's roll-up.
Waiting == UNION {{[tree |-> "global", level |-> l, item |-> i] : i \in buffer[l]} :
                    l \in 0..TopLevel}

RolledUp == UNION {{[tree |-> "global", level |-> summary[i].level - 1, item |-> c] :
                      c \in summary[i].children} : i \in Rows}

Caught == {[tree |-> "global", level |-> summary[i].level, item |-> i] : i \in caught}

Rollup == INSTANCE RollupLedger
            WITH waiting <- Waiting, rolled <- RolledUp, caught <- Caught, again <- {}

ImplementsRollup == Rollup!RollupSpec

\* Liveness: a day with material that is asked for gets its daily, unless the
\* attempts run out or the row is stranded as JobQueue shows.
DayDigested ==
  \A d \in Days :
    job[d].status = "ready" /\ material ~>
      \/ Dailies(d) # {}
      \/ job[d].status = "failed"
      \/ job[d].status = "running" /\ \A w \in Workers : day[w] # d
=============================================================================
