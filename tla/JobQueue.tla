------------------------------ MODULE JobQueue ------------------------------
(***************************************************************************)
(* The memory-tree job queue: core processes that share one SQLite file,   *)
(* their worker tasks, and the lease protocol between them                 *)
(* (memory/tree/jobs/store.rs and jobs/worker.rs).  Handlers are opaque    *)
(* here: they return Done, Defer or Err.  A worker's await points are the  *)
(* boundaries between its actions: claim, handler, settle.                 *)
(*                                                                         *)
(* More than one process uses the file: the desktop app takes over from a  *)
(* stale core, a second core may listen on another port, and the backfill  *)
(* binary drains the queue of "the same workspace the desktop app uses".   *)
(***************************************************************************)
EXTENDS JobTable, FiniteSets

CONSTANTS
  Procs,         \* processes that open the workspace
  Cores,         \* those that call jobs::start; the others only drain the queue
  Workers,       \* worker tasks of all processes
  Home,          \* Home[w]: the process worker w is spawned by
  DeferDelays,   \* how far ahead a handler may put until_ms
  FaultKinds,    \* faults of this instance, a subset of AllFaults
  MaxFaults,     \* bound: how many faults
  MaxStarts,     \* bound: how many process starts
  MaxTime,       \* bound: the last value of the clock
  DeferHorizon   \* bound: no handler defers from this time on

AllFaults == {"crash", "busy", "panic"}

ASSUME JobQueueAssumption ==
  /\ Cores \subseteq Procs
  /\ Home \in [Workers -> Procs]
  /\ NULL \notin Workers
  /\ DeferDelays \subseteq Nat
  /\ FaultKinds \subseteq AllFaults
  /\ MaxFaults \in Nat /\ MaxStarts \in Nat
  /\ MaxTime \in Nat /\ DeferHorizon \in Nat

VARIABLES
  jobs,     \* the table mem_tree_jobs
  clock,    \* Utc::now()
  up,       \* up[p]: process p runs and has spawned its workers
  pc,       \* pc[w]: where the worker's loop is
  lease,    \* lease[w]: the Job returned by claim_next, or NULL
  lessee,   \* observability: the last worker that claimed each row
  starts,   \* observability: process starts so far
  faults    \* faults so far

vars == <<jobs, clock, up, pc, lease, lessee, starts, faults>>

Results == {"done", "defer", "error"}

TypeOK ==
  /\ jobs   \in [RowIds -> Row]
  /\ clock  \in Nat
  /\ up     \in [Procs -> BOOLEAN]
  /\ pc     \in [Workers -> {"off", "idle", "running"} \cup Results]
  /\ lease  \in [Workers -> Job \cup {NULL}]
  /\ lessee \in [RowIds -> Workers \cup {NULL}]
  /\ starts \in Nat
  /\ faults \in Nat

Init ==
  /\ jobs   = [i \in RowIds |-> NoRow]
  /\ clock  = 0
  /\ up     = [p \in Procs |-> FALSE]
  /\ pc     = [w \in Workers |-> "off"]
  /\ lease  = [w \in Workers |-> NULL]
  /\ lessee = [i \in RowIds |-> NULL]
  /\ starts = 0
  /\ faults = 0

-----------------------------------------------------------------------------
(* Producers.  A suppressed INSERT changes nothing and is a stutter.       *)

Enqueue(k) ==
  /\ \E p \in Procs : up[p]
  /\ ~KeyActive(jobs, k)
  /\ \E id \in RowIds : /\ jobs[id].status = "absent"
                        /\ jobs' = Inserted(jobs, id, k, clock)
  /\ UNCHANGED <<clock, up, pc, lease, lessee, starts, faults>>

-----------------------------------------------------------------------------
(* start(): guarded by Once, so recover_stale_locks runs here and never    *)
(* again in this process; an error of it is only logged.  A process that   *)
(* drains the queue spawns no pool and does not recover.                   *)

StartWorkers(p) ==
  /\ ~up[p]
  /\ starts < MaxStarts
  /\ up' = [up EXCEPT ![p] = TRUE]
  /\ pc' = [w \in Workers |-> IF Home[w] = p THEN "idle" ELSE pc[w]]
  /\ starts' = starts + 1
  /\ UNCHANGED <<clock, lease, lessee>>

StartCore(p) ==
  /\ p \in Cores
  /\ StartWorkers(p)
  /\ jobs' = Recovered(jobs, clock)
  /\ UNCHANGED faults

StartDrain(p) ==
  /\ p \notin Cores
  /\ StartWorkers(p)
  /\ UNCHANGED <<jobs, faults>>

-----------------------------------------------------------------------------
(* run_once: claim_next, handle_job, settle.                               *)

Claim(w) ==
  /\ pc[w] = "idle"
  /\ \E id \in NextToClaim(jobs, clock) :
        /\ jobs'   = Claimed(jobs, id, clock)
        /\ lease'  = [lease EXCEPT ![w] = ClaimToken(jobs, id, clock)]
        /\ lessee' = [lessee EXCEPT ![id] = w]
  /\ pc' = [pc EXCEPT ![w] = "running"]
  /\ UNCHANGED <<clock, up, starts, faults>>

HandlerReturns(w) ==
  /\ pc[w] = "running"
  /\ \E result \in Results :
        /\ result = "defer" => clock < DeferHorizon /\ DeferDelays # {}
        /\ pc' = [pc EXCEPT ![w] = result]
  /\ UNCHANGED <<jobs, clock, up, lease, lessee, starts, faults>>

ReturnToLoop(w) ==
  /\ pc'    = [pc EXCEPT ![w] = "idle"]
  /\ lease' = [lease EXCEPT ![w] = NULL]
  /\ UNCHANGED <<clock, up, lessee, starts>>

Settle(w) ==
  /\ \/ pc[w] = "done"  /\ jobs' = MarkedDone(jobs, lease[w])
     \/ pc[w] = "error" /\ jobs' = MarkedFailed(jobs, lease[w], clock)
     \/ pc[w] = "defer" /\ \E d \in DeferDelays :
                              jobs' = MarkedDeferred(jobs, lease[w], clock + d)
  /\ ReturnToLoop(w)
  /\ UNCHANGED faults

-----------------------------------------------------------------------------
(* Faults.  A settle that keeps getting SQLITE_BUSY is dropped by `?`; the *)
(* worker logs, sleeps and polls again.  A panic in a handler ends the     *)
(* spawned task and nothing respawns it.  A crash ends every task of the   *)
(* process between two transactions.                                       *)

Fault(kind) ==
  /\ kind \in FaultKinds
  /\ faults < MaxFaults
  /\ faults' = faults + 1

RecoveryBusy(p) ==
  /\ p \in Cores
  /\ StartWorkers(p)
  /\ Fault("busy")
  /\ UNCHANGED jobs

SettleBusy(w) ==
  /\ pc[w] \in Results
  /\ Fault("busy")
  /\ ReturnToLoop(w)
  /\ UNCHANGED jobs

HandlerPanics(w) ==
  /\ pc[w] = "running"
  /\ Fault("panic")
  /\ pc'    = [pc EXCEPT ![w] = "off"]
  /\ lease' = [lease EXCEPT ![w] = NULL]
  /\ UNCHANGED <<jobs, clock, up, lessee, starts>>

Crash(p) ==
  /\ up[p]
  /\ Fault("crash")
  /\ up'    = [up EXCEPT ![p] = FALSE]
  /\ pc'    = [w \in Workers |-> IF Home[w] = p THEN "off" ELSE pc[w]]
  /\ lease' = [w \in Workers |-> IF Home[w] = p THEN NULL ELSE lease[w]]
  /\ UNCHANGED <<jobs, clock, lessee, starts>>

-----------------------------------------------------------------------------
(* Time passes while some row waits for it: for available_at_ms, or for    *)
(* its lock to run out.                                                    *)

TimeMatters ==
  \E i \in RowIds :
    \/ jobs[i].status = "ready" /\ jobs[i].availableAt > clock
    \/ /\ jobs[i].status = "running" /\ jobs[i].lockedUntil # NULL
       /\ jobs[i].lockedUntil >= clock

Tick ==
  /\ TimeMatters
  /\ clock < MaxTime
  /\ clock' = clock + 1
  /\ UNCHANGED <<jobs, up, pc, lease, lessee, starts, faults>>

ProcessStep(p) ==
  StartCore(p) \/ StartDrain(p) \/ RecoveryBusy(p) \/ Crash(p)

WorkerStep(w) ==
  \/ Claim(w) \/ HandlerReturns(w) \/ Settle(w)
  \/ SettleBusy(w) \/ HandlerPanics(w)

Next ==
  \/ \E k \in Keys : Enqueue(k)
  \/ \E p \in Procs : ProcessStep(p)
  \/ \E w \in Workers : WorkerStep(w)
  \/ Tick

Spec == Init /\ [][Next]_vars

-----------------------------------------------------------------------------
(* Fairness.  Worker loops never stop polling (a 5 s timer backs up the    *)
(* notification), every handler returns (its awaits are HTTP calls with a  *)
(* timeout), time passes and a stopped process is launched again.  Faults  *)
(* and producers are not fair.                                             *)

\* Nobody relaunches a process before the locks of the previous one have run out:
\* otherwise recovery passes over a row that is still locked, is not called again,
\* and the row stays running for good.
PatientNext ==
  Next /\ \A p \in Procs :
            up'[p] /\ ~up[p] =>
              \A i \in RowIds :
                 jobs[i].status = "running" => LockExpired(jobs[i], clock)

PatientSpec ==
  /\ Init /\ [][PatientNext]_vars
  /\ WF_vars(Tick)
  /\ \A p \in Procs : WF_vars(PatientNext /\ (StartCore(p) \/ StartDrain(p)))
  /\ \A w \in Workers : /\ WF_vars(Claim(w))
                        /\ WF_vars(HandlerReturns(w))
                        /\ WF_vars(Settle(w))

-----------------------------------------------------------------------------
(* Properties *)

Holds(w, i) == lease[w] # NULL /\ lease[w].id = i

\* At most one row of a dedupe key is ready or running, although rows come
\* back to ready by three statements (retry, deferral, recovery) that do not
\* look at the key.
DedupeUnique ==
  \A i, j \in RowIds :
    /\ jobs[i].status \in Active
    /\ jobs[j].status \in Active
    /\ jobs[i].key = jobs[j].key
    => i = j

\* Two workers run the handler of one row at the same time only when the lock
\* of the earlier claim has run out (store.rs: "no two workers can claim the
\* same row").
LeaseExclusive ==
  \A w \in Workers : lease[w] # NULL =>
    \/ lessee[lease[w].id] = w
    \/ lease[w].lockedUntil < clock

\* A claim token that still matches its row belongs to the last worker that
\* claimed the row, and the row has not been settled: a settlement by anyone
\* else, or a second one, is a no-op, although attempts goes down again when
\* a job is deferred.
TokenNamesLessee ==
  \A w \in Workers : lease[w] # NULL /\ TokenMatches(jobs, lease[w]) =>
    /\ lessee[lease[w].id] = w
    /\ jobs[lease[w].id].status \in Active

\* The inductive strengthening of the three invariants above.  A worker that
\* holds a lease on a row is either its last lessee, and then the row still
\* carries the token and is back in the queue only if the lock has run out; or
\* it is a former one, whose lock had run out when the row was claimed again,
\* and then the row's started_at is later than the token's, or NULL.
HeldLease(w) ==
  LET i == lease[w].id IN
  /\ lease[w].startedAt <= clock
  /\ lease[w].lockedUntil = lease[w].startedAt + LockDuration
  /\ lessee[i] = w =>
       /\ TokenMatches(jobs, lease[w])
       /\ jobs[i].status \in Active
       /\ jobs[i].lockedUntil = lease[w].lockedUntil
       /\ jobs[i].status = "ready" => lease[w].lockedUntil < clock
  /\ lessee[i] # w =>
       /\ lease[w].lockedUntil < clock
       /\ jobs[i].startedAt # NULL => lease[w].startedAt < jobs[i].startedAt

HoldsWhileRunning ==
  \A w \in Workers :
    /\ lease[w] # NULL <=> pc[w] \in {"running"} \cup Results
    /\ ~up[Home[w]] => pc[w] = "off"

RowsKeyed ==
  \A i \in RowIds :
    /\ jobs[i].status = "absent" <=> jobs[i].key = NULL
    /\ jobs[i].status = "absent" => lessee[i] = NULL

LeaseInv ==
  /\ HoldsWhileRunning
  /\ RowsKeyed
  /\ \A w \in Workers : lease[w] # NULL => HeldLease(w)

\* The lease protocol is sound: a key has one active row, a row one holder until
\* its lock runs out, a token that matches is the last claimer's, and every lease
\* is related to its row as LeaseInv says, however claims, settlements, crashes
\* and recoveries of two processes interleave (store.rs:100, store.rs:160).
LeaseSafe ==
  TypeOK /\ DedupeUnique /\ LeaseExclusive /\ TokenNamesLessee /\ LeaseInv

\* A row is claimed more often than max_attempts only through the recovery at
\* a restart, one extra claim each time; a row that waits for a retry has
\* budget left otherwise.
Restarts == IF starts = 0 THEN 0 ELSE starts - 1

AttemptBudget ==
  \A i \in RowIds :
    /\ jobs[i].attempts <= MaxAttempts + Restarts
    /\ jobs[i].status = "ready" => jobs[i].attempts < MaxAttempts + Restarts

\* The queue implements the ledger: every step of workers, processes, faults
\* and time submits one job under a free key, settles one open job for good, or
\* leaves both sets alone.
Tickets(rows) == {[id |-> i, key |-> jobs[i].key] : i \in rows}

Ledger == INSTANCE JobLedger WITH
  Ids        <- RowIds,
  DedupeKeys <- Keys,
  open       <- Tickets({i \in RowIds : jobs[i].status \in Active}),
  settled    <- Tickets({i \in RowIds : jobs[i].status \in Terminal})

ImplementsLedger == Ledger!LedgerSpec

\* Liveness: a job that is enqueued is eventually done or failed.
EveryJobSettles ==
  \A i \in RowIds :
    jobs[i].status \in Active ~> jobs[i].status \in Terminal

\* Liveness: a running row that no worker is working on any more goes back to
\* the queue.
Orphaned(i) == jobs[i].status = "running" /\ \A w \in Workers : ~Holds(w, i)

OrphansRequeued ==
  \A i \in RowIds : Orphaned(i) ~> ~Orphaned(i)
=============================================================================
