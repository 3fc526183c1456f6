--------------------------- MODULE JobQueueProofs ---------------------------
(***************************************************************************)
(* Theorems about JobQueue, for any number of processes, workers, rows and *)
(* keys and any lock duration, retry parameters and fault bounds; and      *)
(* about SchedulerGate, where its workers wait for a permit, for any       *)
(* callers, measurements, settings and number of permits.                  *)
(***************************************************************************)
EXTENDS JobQueue, SchedulerGate, FiniteSetTheorems, TLAPS

-----------------------------------------------------------------------------
(* The statements of JobTable keep a well-formed table well formed. *)

\* Every statement of store.rs that a worker, a producer or a start executes
\* maps a table of rows to a table of rows.
LEMMA BackoffType ==
  ASSUME NEW a \in Nat
  PROVE  Backoff(a) \in Nat
<1> DEFINE exp == IF a = 0 THEN 0 ELSE IF a > 21 THEN 20 ELSE a - 1
<1>1. exp + 1 \in 1..21
  OBVIOUS
<1>2. Shl[exp + 1] \in Nat
  BY <1>1 DEF Shl
<1>3. RetryBase * Shl[exp + 1] \in Nat
  BY <1>2, JobTableAssumption
<1> QED
  BY <1>3, JobTableAssumption DEF Backoff

LEMMA InsertedType ==
  ASSUME NEW t \in [RowIds -> Row], NEW id \in RowIds, NEW k \in Keys, NEW now \in Nat
  PROVE  Inserted(t, id, k, now) \in [RowIds -> Row]
BY DEF Inserted, Row, Active, Terminal

LEMMA ClaimedType ==
  ASSUME NEW t \in [RowIds -> Row], NEW id \in RowIds, NEW now \in Nat
  PROVE  /\ Claimed(t, id, now) \in [RowIds -> Row]
         /\ ClaimToken(t, id, now) \in Job
<1>1. t[id].attempts + 1 \in Nat \ {0} /\ now + LockDuration \in Nat
  BY JobTableAssumption DEF Row
<1>2. Leased(t[id], now) \in Row
  BY <1>1 DEF Leased, Row, Active
<1>3. ClaimToken(t, id, now) \in Job
  BY <1>1 DEF ClaimToken, Job
<1> QED
  BY <1>2, <1>3 DEF Claimed

LEMMA RecoveredType ==
  ASSUME NEW t \in [RowIds -> Row], NEW now \in Nat
  PROVE  Recovered(t, now) \in [RowIds -> Row]
BY DEF Recovered, Row, Active, Terminal

LEMMA SettledType ==
  ASSUME NEW r \in Row, NEW status \in Active \cup Terminal
  PROVE  Settled(r, status) \in Row
BY DEF Settled, Row

LEMMA MarkedDoneType ==
  ASSUME NEW t \in [RowIds -> Row], NEW job \in Job
  PROVE  MarkedDone(t, job) \in [RowIds -> Row]
<1>1. job.id \in RowIds /\ "done" \in Terminal
  BY DEF Job, Terminal
<1> QED
  BY <1>1, SettledType DEF MarkedDone

LEMMA MarkedFailedType ==
  ASSUME NEW t \in [RowIds -> Row], NEW job \in Job, NEW now \in Nat
  PROVE  MarkedFailed(t, job, now) \in [RowIds -> Row]
<1>1. job.id \in RowIds /\ "failed" \in Terminal /\ "ready" \in Active
  BY DEF Job, Terminal, Active
<1>2. now + Backoff(job.attempts) \in Nat
  BY BackoffType DEF Job
<1>3. [Settled(t[job.id], "ready") EXCEPT !.availableAt = now + Backoff(job.attempts)]
        \in Row
  BY <1>1, <1>2, SettledType DEF Row
<1> QED
  BY <1>1, <1>3, SettledType DEF MarkedFailed

LEMMA MarkedDeferredType ==
  ASSUME NEW t \in [RowIds -> Row], NEW job \in Job, NEW until \in Nat
  PROVE  MarkedDeferred(t, job, until) \in [RowIds -> Row]
<1>1. job.id \in RowIds /\ job.attempts - 1 \in Nat /\ "ready" \in Active
  BY DEF Job, Active
<1>2. ASSUME NEW r \in Row, NEW a \in Nat
      PROVE  [r EXCEPT !.attempts = a, !.availableAt = until, !.startedAt = NULL] \in Row
  BY DEF Row
<1> QED
  BY <1>1, <1>2, SettledType DEF MarkedDeferred

-----------------------------------------------------------------------------
(* Type correctness.  A settlement dereferences the worker's lease, so the *)
(* type invariant is inductive together with HoldsWhileRunning.            *)

TypeInv == TypeOK /\ HoldsWhileRunning

LEMMA TypeInit == Init => TypeInv
BY JobTableAssumption, JobQueueAssumption
   DEF Init, TypeInv, TypeOK, HoldsWhileRunning, Results, NoRow, Row, Active, Terminal

LEMMA TypeStep == TypeInv /\ [Next]_vars => TypeInv'
<1> SUFFICES ASSUME TypeInv, [Next]_vars PROVE TypeInv'
  OBVIOUS
<1> USE JobQueueAssumption DEF TypeInv, TypeOK, HoldsWhileRunning, Results
<1>1. ASSUME NEW k \in Keys, Enqueue(k) PROVE TypeInv'
  BY <1>1, InsertedType DEF Enqueue
<1>2. ASSUME NEW p \in Procs, StartCore(p) PROVE TypeInv'
  <2>1. jobs' \in [RowIds -> Row]
    BY <1>2, RecoveredType DEF StartCore
  <2> QED
    BY <1>2, <2>1 DEF StartCore, StartWorkers
<1>3. ASSUME NEW p \in Procs, StartDrain(p) PROVE TypeInv'
  BY <1>3 DEF StartDrain, StartWorkers
<1>4. ASSUME NEW p \in Procs, RecoveryBusy(p) PROVE TypeInv'
  BY <1>4 DEF RecoveryBusy, StartWorkers, Fault
<1>5. ASSUME NEW p \in Procs, Crash(p) PROVE TypeInv'
  BY <1>5 DEF Crash, Fault
<1>6. ASSUME NEW w \in Workers, Claim(w) PROVE TypeInv'
  <2>1. PICK id \in NextToClaim(jobs, clock) :
          /\ jobs'   = Claimed(jobs, id, clock)
          /\ lease'  = [lease EXCEPT ![w] = ClaimToken(jobs, id, clock)]
          /\ lessee' = [lessee EXCEPT ![id] = w]
    BY <1>6 DEF Claim
  <2>2. id \in RowIds
    BY DEF NextToClaim, Due
  <2>3. jobs' \in [RowIds -> Row] /\ ClaimToken(jobs, id, clock) \in Job
    BY <2>1, <2>2, ClaimedType
  <2>4. ClaimToken(jobs, id, clock) # NULL
    BY <2>3, JobTableAssumption
  <2> QED
    BY <1>6, <2>1, <2>2, <2>3, <2>4 DEF Claim
<1>7. ASSUME NEW w \in Workers, HandlerReturns(w) PROVE TypeInv'
  BY <1>7 DEF HandlerReturns
<1>8. ASSUME NEW w \in Workers, Settle(w) PROVE TypeInv'
  <2>1. lease[w] \in Job
    BY <1>8 DEF Settle
  <2>2. jobs' \in [RowIds -> Row]
    <3>1. CASE pc[w] = "done" /\ jobs' = MarkedDone(jobs, lease[w])
      BY <2>1, <3>1, MarkedDoneType
    <3>2. CASE pc[w] = "error" /\ jobs' = MarkedFailed(jobs, lease[w], clock)
      BY <2>1, <3>2, MarkedFailedType
    <3>3. ASSUME NEW d \in DeferDelays, jobs' = MarkedDeferred(jobs, lease[w], clock + d)
          PROVE  jobs' \in [RowIds -> Row]
      <4>1. clock + d \in Nat
        BY JobQueueAssumption
      <4> QED
        BY <2>1, <3>3, <4>1, MarkedDeferredType
    <3> QED
      BY <1>8, <3>1, <3>2, <3>3 DEF Settle
  <2> QED
    BY <1>8, <2>2 DEF Settle, ReturnToLoop
<1>9. ASSUME NEW w \in Workers, SettleBusy(w) PROVE TypeInv'
  BY <1>9 DEF SettleBusy, ReturnToLoop, Fault
<1>10. ASSUME NEW w \in Workers, HandlerPanics(w) PROVE TypeInv'
  BY <1>10 DEF HandlerPanics, Fault
<1>11. CASE Tick
  BY <1>11 DEF Tick
<1>12. CASE UNCHANGED vars
  BY <1>12 DEF vars
<1> QED
  BY <1>1, <1>2, <1>3, <1>4, <1>5, <1>6, <1>7, <1>8, <1>9, <1>10, <1>11, <1>12
     DEF Next, ProcessStep, WorkerStep

\* Every reachable state of the queue is well typed, whatever the constants.
THEOREM TypeCorrect == Spec => []TypeOK
<1>1. Spec => []TypeInv
  BY TypeInit, TypeStep, PTL DEF Spec
<1>2. TypeInv => TypeOK
  BY DEF TypeInv
<1> QED
  BY <1>1, <1>2, PTL

-----------------------------------------------------------------------------
(* The lease protocol.  LeaseInv is inductive given type correctness.      *)

\* What a settlement does to the table: without the token nothing; with it,
\* the one row keeps its key, leaves "running", and its started_at is kept or
\* cleared.
SettlesRow(t, job, after) ==
  /\ ~TokenMatches(t, job) => after = t
  /\ \A i \in RowIds : i # job.id => after[i] = t[i]
  /\ after[job.id].key = t[job.id].key
  /\ TokenMatches(t, job) => after[job.id].status \in {"ready", "done", "failed"}
  /\ after[job.id].startedAt \in {t[job.id].startedAt, NULL}

LEMMA SettlementShape ==
  ASSUME NEW t \in [RowIds -> Row], NEW job \in Job, NEW now \in Nat, NEW until \in Nat
  PROVE  /\ SettlesRow(t, job, MarkedDone(t, job))
         /\ SettlesRow(t, job, MarkedFailed(t, job, now))
         /\ SettlesRow(t, job, MarkedDeferred(t, job, until))
<1>1. job.id \in RowIds /\ t[job.id] \in Row
  BY DEF Job
<1>2. ASSUME NEW r \in Row, NEW s \in {"ready", "done", "failed"}
      PROVE  /\ Settled(r, s).key = r.key
             /\ Settled(r, s).status = s
             /\ Settled(r, s).startedAt = r.startedAt
             /\ Settled(r, s) \in Row
  BY DEF Settled, Row, Active, Terminal
<1>3. SettlesRow(t, job, MarkedDone(t, job))
  BY <1>1, <1>2 DEF SettlesRow, MarkedDone
<1>4. SettlesRow(t, job, MarkedFailed(t, job, now))
  <2>1. ASSUME NEW b
        PROVE  LET r == [Settled(t[job.id], "ready") EXCEPT !.availableAt = b]
               IN  r.key = t[job.id].key /\ r.status = "ready"
                   /\ r.startedAt = t[job.id].startedAt
    BY <1>1, <1>2 DEF Row
  <2> QED
    BY <1>1, <1>2, <2>1 DEF SettlesRow, MarkedFailed
<1>5. SettlesRow(t, job, MarkedDeferred(t, job, until))
  <2>1. ASSUME NEW n
        PROVE  LET r == [Settled(t[job.id], "ready") EXCEPT
                           !.attempts = n, !.availableAt = until, !.startedAt = NULL]
               IN  r.key = t[job.id].key /\ r.status = "ready" /\ r.startedAt = NULL
    BY <1>1, <1>2 DEF Row
  <2> QED
    BY <1>1, <1>2, <2>1 DEF SettlesRow, MarkedDeferred
<1> QED
  BY <1>3, <1>4, <1>5

LEMMA SettleShape ==
  ASSUME TypeInv, NEW w \in Workers, Settle(w)
  PROVE  lease[w] \in Job /\ SettlesRow(jobs, lease[w], jobs')
<1>1. lease[w] \in Job
  BY DEF Settle, TypeInv, TypeOK, HoldsWhileRunning, Results
<1>2. jobs \in [RowIds -> Row] /\ clock \in Nat
  BY DEF TypeInv, TypeOK
<1>3. CASE jobs' = MarkedDone(jobs, lease[w])
  BY <1>1, <1>2, <1>3, SettlementShape
<1>4. CASE jobs' = MarkedFailed(jobs, lease[w], clock)
  BY <1>1, <1>2, <1>4, SettlementShape
<1>5. ASSUME NEW d \in DeferDelays, jobs' = MarkedDeferred(jobs, lease[w], clock + d)
      PROVE  SettlesRow(jobs, lease[w], jobs')
  <2>1. clock + d \in Nat
    BY <1>2, JobQueueAssumption
  <2> QED
    BY <1>1, <1>2, <1>5, <2>1, SettlementShape
<1> QED
  BY <1>1, <1>3, <1>4, <1>5 DEF Settle

\* A matching token belongs to the last lessee of a row that is not settled.
LEMMA TokenOwner ==
  ASSUME TypeInv, LeaseInv, NEW w \in Workers, lease[w] # NULL,
         TokenMatches(jobs, lease[w])
  PROVE  lessee[lease[w].id] = w /\ jobs[lease[w].id].status \in Active
<1>1. lease[w] \in Job /\ HeldLease(w)
  BY DEF TypeInv, TypeOK, LeaseInv
<1>2. lease[w].startedAt # NULL /\ ~(lease[w].startedAt < lease[w].startedAt)
  BY <1>1, JobTableAssumption DEF Job
<1> QED
  BY <1>1, <1>2 DEF HeldLease, TokenMatches

LEMMA LeaseInit == Init => LeaseInv
BY JobTableAssumption
   DEF Init, LeaseInv, HoldsWhileRunning, RowsKeyed, HeldLease, NoRow, Results

LEMMA LeaseStep == TypeInv /\ LeaseInv /\ [Next]_vars => LeaseInv'
<1> SUFFICES ASSUME TypeInv, LeaseInv, [Next]_vars
             PROVE  RowsKeyed' /\ \A w \in Workers : lease'[w] # NULL => HeldLease(w)'
  BY TypeStep DEF LeaseInv, TypeInv
<1> DEFINE Goal == RowsKeyed' /\ \A w \in Workers : lease'[w] # NULL => HeldLease(w)'
<1>t. /\ jobs \in [RowIds -> Row] /\ clock \in Nat
      /\ lease \in [Workers -> Job \cup {NULL}]
      /\ lessee \in [RowIds -> Workers \cup {NULL}]
      /\ pc \in [Workers -> {"off", "idle", "running"} \cup Results]
      /\ NULL \notin Int /\ NULL \notin Job /\ NULL \notin Keys /\ NULL \notin Workers
  BY JobTableAssumption, JobQueueAssumption DEF TypeInv, TypeOK
<1>h. \A w \in Workers : lease[w] # NULL => lease[w] \in Job /\ HeldLease(w)
  BY <1>t DEF LeaseInv
\* Steps that leave the table, the clock and the lessees alone and create no lease.
<1>q. ASSUME UNCHANGED <<jobs, clock, lessee>>,
             \A w \in Workers : lease'[w] \in {lease[w], NULL}
      PROVE  Goal
  BY <1>q, <1>h DEF LeaseInv, RowsKeyed, HeldLease, TokenMatches
<1>1. ASSUME NEW k \in Keys, Enqueue(k) PROVE Goal
  <2>1. PICK id \in RowIds : /\ jobs[id].status = "absent"
                             /\ jobs' = Inserted(jobs, id, k, clock)
    BY <1>1 DEF Enqueue
  <2>2. /\ \A i \in RowIds : i # id => jobs'[i] = jobs[i]
        /\ jobs'[id].key = k /\ jobs'[id].status = "ready"
        /\ jobs'[id].startedAt = NULL
    BY <2>1, <1>t DEF Inserted
  <2>3. lessee[id] = NULL
    BY <2>1 DEF LeaseInv, RowsKeyed
  <2>4. RowsKeyed'
    BY <1>1, <1>t, <2>2 DEF Enqueue, LeaseInv, RowsKeyed
  <2>5. ASSUME NEW w \in Workers, lease'[w] # NULL PROVE HeldLease(w)'
    BY <1>1, <1>t, <1>h, <2>2, <2>3, <2>5 DEF Enqueue, HeldLease, TokenMatches, Job
  <2> QED
    BY <2>4, <2>5
<1>2. ASSUME NEW p \in Procs, StartCore(p) PROVE Goal
  <2>1. /\ jobs' = Recovered(jobs, clock)
        /\ UNCHANGED <<clock, lease, lessee>>
    BY <1>2 DEF StartCore, StartWorkers
  <2>2. \A i \in RowIds :
          /\ jobs'[i].key = jobs[i].key
          /\ jobs'[i].attempts = jobs[i].attempts
          /\ jobs'[i].startedAt = jobs[i].startedAt
          /\ jobs'[i].lockedUntil = jobs[i].lockedUntil
          /\ \/ jobs'[i].status = jobs[i].status
             \/ /\ jobs[i].status = "running" /\ jobs'[i].status = "ready"
                /\ jobs[i].lockedUntil < clock
    BY <2>1, <1>t DEF Recovered, Stale, LockExpired, Row
  <2>3. RowsKeyed'
    BY <2>1, <2>2 DEF LeaseInv, RowsKeyed
  <2>4. ASSUME NEW w \in Workers, lease'[w] # NULL PROVE HeldLease(w)'
    BY <1>t, <1>h, <2>1, <2>2, <2>4 DEF HeldLease, TokenMatches, Job, Active
  <2> QED
    BY <2>3, <2>4
<1>3. ASSUME NEW p \in Procs, StartDrain(p) PROVE Goal
  BY <1>3, <1>q DEF StartDrain, StartWorkers
<1>4. ASSUME NEW p \in Procs, RecoveryBusy(p) PROVE Goal
  BY <1>4, <1>q DEF RecoveryBusy, StartWorkers
<1>5. ASSUME NEW p \in Procs, Crash(p) PROVE Goal
  BY <1>5, <1>q DEF Crash
<1>6. ASSUME NEW w \in Workers, Claim(w) PROVE Goal
  <2>1. PICK id \in NextToClaim(jobs, clock) :
          /\ jobs'   = Claimed(jobs, id, clock)
          /\ lease'  = [lease EXCEPT ![w] = ClaimToken(jobs, id, clock)]
          /\ lessee' = [lessee EXCEPT ![id] = w]
    BY <1>6 DEF Claim
  <2>2. id \in RowIds /\ jobs[id].status = "ready" /\ jobs[id] \in Row
    BY <1>t DEF NextToClaim, Due
  <2>3. /\ \A i \in RowIds : i # id => jobs'[i] = jobs[i]
        /\ jobs'[id].key = jobs[id].key /\ jobs'[id].status = "running"
        /\ jobs'[id].attempts = jobs[id].attempts + 1
        /\ jobs'[id].startedAt = clock
        /\ jobs'[id].lockedUntil = clock + LockDuration
    <3>1. jobs'[id] = Leased(jobs[id], clock)
      BY <2>1, <2>2, <1>t DEF Claimed
    <3>2. \A i \in RowIds : i # id => jobs'[i] = jobs[i]
      BY <2>1, <2>2, <1>t DEF Claimed
    <3> QED
      BY <3>1, <3>2, <2>2 DEF Leased, Row
  <2>4. /\ lease'[w] = ClaimToken(jobs, id, clock) /\ clock' = clock
        /\ \A v \in Workers : v # w => lease'[v] = lease[v]
        /\ lessee'[id] = w
        /\ \A i \in RowIds : i # id => lessee'[i] = lessee[i]
    BY <1>6, <1>t, <2>1, <2>2 DEF Claim
  <2>5. RowsKeyed'
    BY <1>t, <2>2, <2>3, <2>4 DEF LeaseInv, RowsKeyed
  <2>6. HeldLease(w)'
    BY <1>t, <2>2, <2>3, <2>4, JobTableAssumption
       DEF HeldLease, TokenMatches, ClaimToken, Active
  <2>7. ASSUME NEW v \in Workers, v # w, lease'[v] # NULL PROVE HeldLease(v)'
    <3>1. lease[v] \in Job /\ HeldLease(v) /\ lease'[v] = lease[v]
      BY <1>h, <2>4, <2>7
    <3>2. CASE lease[v].id # id
      BY <3>1, <3>2, <2>3, <2>4 DEF HeldLease, TokenMatches, Job
    <3>3. CASE lease[v].id = id
      <4>1. lease[v].lockedUntil < clock
        BY <3>1, <3>3, <2>2 DEF HeldLease
      <4>2. lease[v].startedAt < clock
        BY <3>1, <4>1, <1>t, JobTableAssumption DEF HeldLease, Job
      <4> QED
        BY <3>1, <3>3, <4>1, <4>2, <2>3, <2>4, <2>7 DEF HeldLease
    <3> QED
      BY <3>2, <3>3
  <2> QED
    BY <2>5, <2>6, <2>7
<1>7. ASSUME NEW w \in Workers, HandlerReturns(w) PROVE Goal
  BY <1>7, <1>q DEF HandlerReturns
<1>8. ASSUME NEW w \in Workers, Settle(w) PROVE Goal
  <2>1. lease[w] \in Job /\ SettlesRow(jobs, lease[w], jobs')
    BY <1>8, SettleShape
  <2>2. /\ UNCHANGED <<clock, lessee>> /\ lease'[w] = NULL
        /\ \A v \in Workers : v # w => lease'[v] = lease[v]
    BY <1>8, <1>t DEF Settle, ReturnToLoop
  <2>3. lease[w] # NULL /\ lease[w].id \in RowIds
    BY <2>1, <1>t DEF Job
  <2>4. CASE ~TokenMatches(jobs, lease[w])
    <3>1. jobs' = jobs
      BY <2>1, <2>4 DEF SettlesRow
    <3> QED
      BY <3>1, <2>2, <1>q
  <2>5. CASE TokenMatches(jobs, lease[w])
    <3>1. lessee[lease[w].id] = w /\ jobs[lease[w].id].status \in Active
      BY <2>3, <2>5, TokenOwner
    <3>2. RowsKeyed'
      BY <2>1, <2>2, <2>3, <2>5, <3>1 DEF SettlesRow, LeaseInv, RowsKeyed, Active
    <3>3. ASSUME NEW v \in Workers, lease'[v] # NULL PROVE HeldLease(v)'
      <4>1. v # w /\ lease'[v] = lease[v] /\ lease[v] \in Job /\ HeldLease(v)
        BY <2>2, <3>3, <1>h
      <4>2. CASE lease[v].id # lease[w].id
        BY <4>1, <4>2, <2>1, <2>2 DEF SettlesRow, HeldLease, TokenMatches, Job
      <4>3. CASE lease[v].id = lease[w].id
        BY <4>1, <4>3, <3>1, <2>1, <2>2, <2>3 DEF SettlesRow, HeldLease
      <4> QED
        BY <4>2, <4>3
    <3> QED
      BY <3>2, <3>3
  <2> QED
    BY <2>4, <2>5
<1>9. ASSUME NEW w \in Workers, SettleBusy(w) PROVE Goal
  BY <1>9, <1>q DEF SettleBusy, ReturnToLoop
<1>10. ASSUME NEW w \in Workers, HandlerPanics(w) PROVE Goal
  BY <1>10, <1>q DEF HandlerPanics
<1>11. CASE Tick
  <2>1. UNCHANGED <<jobs, lease, lessee>> /\ clock' = clock + 1
    BY <1>11 DEF Tick
  <2>2. RowsKeyed'
    BY <2>1 DEF LeaseInv, RowsKeyed
  <2>3. ASSUME NEW w \in Workers, lease'[w] # NULL PROVE HeldLease(w)'
    BY <1>t, <1>h, <2>1, <2>3 DEF HeldLease, TokenMatches, Job
  <2> QED
    BY <2>2, <2>3
<1>12. CASE UNCHANGED vars
  BY <1>12, <1>q DEF vars
<1> QED
  BY <1>1, <1>2, <1>3, <1>4, <1>5, <1>6, <1>7, <1>8, <1>9, <1>10, <1>11, <1>12
     DEF Next, ProcessStep, WorkerStep

-----------------------------------------------------------------------------
(* What a step does to a row, seen by the dedupe index and the ledger: the *)
(* key of an existing row never changes, a settled row stays settled, and  *)
(* an absent row becomes active only by an enqueue under a free key.       *)

RowStep(i) ==
  /\ jobs[i].status # "absent" => jobs'[i].key = jobs[i].key
  /\ jobs[i].status \in Terminal => jobs'[i].status \in Terminal
  /\ jobs[i].status \in Active => jobs'[i].status \in Active \cup Terminal
  /\ jobs[i].status = "absent" => jobs'[i] = jobs[i]

\* Either one job is submitted under a key no active row has, or at most one
\* active row is settled.
TableStep ==
  \/ \E id \in RowIds, k \in Keys :
       /\ jobs[id].status = "absent" /\ ~KeyActive(jobs, k)
       /\ jobs'[id].key = k /\ jobs'[id].status \in Active
       /\ \A i \in RowIds : i # id => jobs'[i] = jobs[i]
  \/ \E id \in RowIds :
       /\ \A i \in RowIds : RowStep(i)
       /\ \A i \in RowIds : i # id =>
            (jobs'[i].status \in Terminal <=> jobs[i].status \in Terminal)

LEMMA TableStepLemma ==
  ASSUME TypeInv, LeaseInv, [Next]_vars
  PROVE  TableStep \/ UNCHANGED jobs
<1>t. jobs \in [RowIds -> Row] /\ clock \in Nat
  BY DEF TypeInv, TypeOK
<1>1. ASSUME NEW k \in Keys, Enqueue(k) PROVE TableStep
  <2>1. PICK id \in RowIds : /\ jobs[id].status = "absent"
                             /\ jobs' = Inserted(jobs, id, k, clock)
    BY <1>1 DEF Enqueue
  <2>2. /\ \A i \in RowIds : i # id => jobs'[i] = jobs[i]
        /\ jobs'[id].key = k /\ jobs'[id].status \in Active
    BY <2>1, <1>t DEF Inserted, Active
  <2> QED
    BY <1>1, <2>1, <2>2 DEF Enqueue, TableStep
<1>2. ASSUME NEW p \in Procs, StartCore(p) PROVE TableStep \/ UNCHANGED jobs
  <2>1. \A i \in RowIds :
          \/ jobs'[i] = jobs[i]
          \/ /\ jobs'[i].key = jobs[i].key
             /\ jobs[i].status = "running" /\ jobs'[i].status = "ready"
    BY <1>2, <1>t DEF StartCore, Recovered, Stale, Row
  <2>2. \A i \in RowIds :
          RowStep(i) /\ (jobs'[i].status \in Terminal <=> jobs[i].status \in Terminal)
    BY <2>1, <1>t DEF RowStep, Active, Terminal, Row
  <2>3. CASE RowIds = {}
    BY <2>3, <1>2, <1>t DEF StartCore, Recovered
  <2> QED
    BY <2>2, <2>3 DEF TableStep
<1>3. ASSUME NEW w \in Workers, Claim(w) PROVE TableStep
  <2>1. PICK id \in NextToClaim(jobs, clock) : jobs' = Claimed(jobs, id, clock)
    BY <1>3 DEF Claim
  <2>2. id \in RowIds /\ jobs[id].status = "ready" /\ jobs[id] \in Row
    BY <1>t DEF NextToClaim, Due
  <2>3. /\ \A i \in RowIds : i # id => jobs'[i] = jobs[i]
        /\ jobs'[id] = Leased(jobs[id], clock)
    BY <2>1, <2>2, <1>t DEF Claimed
  <2>4. jobs'[id].key = jobs[id].key /\ jobs'[id].status = "running"
    BY <2>2, <2>3 DEF Leased, Row
  <2>5. \A i \in RowIds : RowStep(i)
    BY <2>2, <2>3, <2>4, <1>t DEF RowStep, Active, Terminal, Row
  <2> QED
    BY <2>2, <2>3, <2>5 DEF TableStep
<1>4. ASSUME NEW w \in Workers, Settle(w) PROVE TableStep \/ UNCHANGED jobs
  <2>1. lease[w] \in Job /\ SettlesRow(jobs, lease[w], jobs')
    BY <1>4, SettleShape
  <2>2. lease[w] # NULL /\ lease[w].id \in RowIds
    BY <2>1, JobTableAssumption DEF Job
  <2>3. CASE ~TokenMatches(jobs, lease[w])
    BY <2>1, <2>3 DEF SettlesRow
  <2>4. CASE TokenMatches(jobs, lease[w])
    <3>1. jobs[lease[w].id].status \in Active
      BY <2>2, <2>4, TokenOwner
    <3>2. \A i \in RowIds : RowStep(i)
      BY <2>1, <2>2, <2>4, <3>1, <1>t DEF SettlesRow, RowStep, Active, Terminal, Row
    <3> QED
      BY <2>1, <2>2, <3>2 DEF SettlesRow, TableStep
  <2> QED
    BY <2>3, <2>4
<1>5. (\E p \in Procs : StartDrain(p) \/ RecoveryBusy(p) \/ Crash(p)) => UNCHANGED jobs
  BY DEF StartDrain, RecoveryBusy, Crash
<1>6. (\E w \in Workers : HandlerReturns(w) \/ SettleBusy(w) \/ HandlerPanics(w))
        => UNCHANGED jobs
  BY DEF HandlerReturns, SettleBusy, HandlerPanics
<1>7. Tick \/ UNCHANGED vars => UNCHANGED jobs
  BY DEF Tick, vars
<1> QED
  BY <1>1, <1>2, <1>3, <1>4, <1>5, <1>6, <1>7 DEF Next, ProcessStep, WorkerStep

LEMMA DedupeStep ==
  ASSUME TypeInv, LeaseInv, DedupeUnique, [Next]_vars
  PROVE  DedupeUnique'
<1>1. CASE UNCHANGED jobs
  BY <1>1 DEF DedupeUnique
<1>2. ASSUME NEW id \in RowIds, NEW k \in Keys, ~KeyActive(jobs, k),
             jobs'[id].key = k, \A i \in RowIds : i # id => jobs'[i] = jobs[i]
      PROVE  DedupeUnique'
  BY <1>2 DEF DedupeUnique, KeyActive
<1>3. ASSUME \A i \in RowIds : RowStep(i)
      PROVE  DedupeUnique'
  <2>1. \A i \in RowIds : jobs'[i].status \in Active =>
          jobs[i].status \in Active /\ jobs'[i].key = jobs[i].key
    BY <1>3 DEF RowStep, TypeInv, TypeOK, Row, Active, Terminal
  <2> QED
    BY <2>1 DEF DedupeUnique
<1> QED
  BY <1>1, <1>2, <1>3, TableStepLemma DEF TableStep

\* The inductive invariant of the queue.
QueueInv == TypeInv /\ LeaseInv /\ DedupeUnique

LEMMA QueueInvariant == Spec => []QueueInv
<1>1. Init => QueueInv
  <2>1. Init => DedupeUnique
    BY DEF Init, DedupeUnique, NoRow, Active
  <2> QED
    BY <2>1, TypeInit, LeaseInit DEF QueueInv
<1>2. QueueInv /\ [Next]_vars => QueueInv'
  BY TypeStep, LeaseStep, DedupeStep DEF QueueInv
<1> QED
  BY <1>1, <1>2, PTL DEF Spec

\* No dedupe key ever has two active rows: the partial UNIQUE index is never
\* the thing that stops a retry, a deferral or a recovery.
THEOREM DedupeCorrect == Spec => []DedupeUnique
<1>1. QueueInv => DedupeUnique
  BY DEF QueueInv
<1> QED
  BY <1>1, QueueInvariant, PTL

\* Two handlers of one row overlap only after the first one's lock ran out.
THEOREM LeaseCorrect == Spec => []LeaseExclusive
<1>1. QueueInv => LeaseExclusive
  BY DEF QueueInv, LeaseInv, HeldLease, LeaseExclusive
<1> QED
  BY <1>1, QueueInvariant, PTL

\* Only the last lessee's settlement can take effect, and only once.
THEOREM TokenCorrect == Spec => []TokenNamesLessee
<1>1. QueueInv => TokenNamesLessee
  BY TokenOwner DEF QueueInv, TokenNamesLessee
<1> QED
  BY <1>1, QueueInvariant, PTL

-----------------------------------------------------------------------------
(* The queue implements the ledger. *)

OpenTickets    == Tickets({i \in RowIds : jobs[i].status \in Active})
SettledTickets == Tickets({i \in RowIds : jobs[i].status \in Terminal})

LEMMA LedgerStep ==
  ASSUME QueueInv, [Next]_vars
  PROVE  [Ledger!LedgerNext]_<<OpenTickets, SettledTickets>>
<1>t. jobs \in [RowIds -> Row] /\ jobs' \in [RowIds -> Row]
  BY TypeStep DEF QueueInv, TypeInv, TypeOK
<1>k. \A i \in RowIds : jobs[i].status # "absent" => jobs[i].key \in Keys
  BY <1>t DEF QueueInv, LeaseInv, RowsKeyed, Row
<1>s. Active \cap Terminal = {} /\ "absent" \notin Active \cup Terminal
  BY DEF Active, Terminal
<1>1. CASE UNCHANGED jobs
  BY <1>1 DEF OpenTickets, SettledTickets, Tickets
<1>2. ASSUME NEW id \in RowIds, NEW k \in Keys,
             jobs[id].status = "absent", ~KeyActive(jobs, k),
             jobs'[id].key = k, jobs'[id].status \in Active,
             \A i \in RowIds : i # id => jobs'[i] = jobs[i]
      PROVE  Ledger!LedgerNext
  <2> DEFINE ticket == [id |-> id, key |-> k]
  <2>1. ticket \in Ledger!Ticket
    BY DEF Ledger!Ticket
  <2>2. \A t \in OpenTickets : t.key # k
    BY <1>2 DEF OpenTickets, Tickets, KeyActive
  <2>3. \A t \in OpenTickets \cup SettledTickets : t.id # id
    BY <1>2, <1>s DEF OpenTickets, SettledTickets, Tickets
  <2>4. OpenTickets' = OpenTickets \cup {ticket}
    <3>1. {i \in RowIds : jobs'[i].status \in Active}
            = {i \in RowIds : jobs[i].status \in Active} \cup {id}
      BY <1>2, <1>s
    <3>2. \A i \in RowIds : jobs[i].status \in Active => jobs'[i].key = jobs[i].key
      BY <1>2, <1>s
    <3> QED
      BY <1>2, <3>1, <3>2 DEF OpenTickets, Tickets
  <2>5. SettledTickets' = SettledTickets
    <3>1. {i \in RowIds : jobs'[i].status \in Terminal}
            = {i \in RowIds : jobs[i].status \in Terminal}
      BY <1>2, <1>s
    <3>2. \A i \in RowIds : jobs[i].status \in Terminal => jobs'[i].key = jobs[i].key
      BY <1>2, <1>s
    <3> QED
      BY <3>1, <3>2 DEF SettledTickets, Tickets
  <2>6. Ledger!Submit(ticket)
    BY <2>2, <2>3, <2>4, <2>5 DEF Ledger!Submit, OpenTickets, SettledTickets
  <2> QED
    BY <2>1, <2>6 DEF Ledger!LedgerNext
<1>3. ASSUME NEW id \in RowIds, \A i \in RowIds : RowStep(i),
             \A i \in RowIds : i # id =>
               (jobs'[i].status \in Terminal <=> jobs[i].status \in Terminal)
      PROVE  [Ledger!LedgerNext]_<<OpenTickets, SettledTickets>>
  <2>1. \A i \in RowIds : jobs[i].status \in Active \cup Terminal =>
          jobs'[i].key = jobs[i].key
    BY <1>3, <1>s DEF RowStep
  <2>2. \A i \in RowIds :
          (jobs'[i].status \in Active \cup Terminal) <=>
          (jobs[i].status \in Active \cup Terminal)
    BY <1>3, <1>t, <1>s DEF RowStep, Row
  <2>3. CASE jobs'[id].status \in Terminal <=> jobs[id].status \in Terminal
    <3>1. \A i \in RowIds :
            /\ jobs'[i].status \in Terminal <=> jobs[i].status \in Terminal
            /\ jobs'[i].status \in Active <=> jobs[i].status \in Active
      BY <1>3, <2>2, <2>3, <1>s
    <3> QED
      BY <2>1, <3>1 DEF OpenTickets, SettledTickets, Tickets
  <2>4. CASE ~(jobs'[id].status \in Terminal <=> jobs[id].status \in Terminal)
    <3> DEFINE ticket == [id |-> id, key |-> jobs[id].key]
    <3>1. jobs[id].status \in Active /\ jobs'[id].status \in Terminal
      BY <1>3, <2>2, <2>4, <1>s DEF RowStep
    <3>2. ticket \in Ledger!Ticket
      BY <3>1, <1>k, <1>s DEF Ledger!Ticket
    <3>3. ticket \in OpenTickets
      BY <3>1 DEF OpenTickets, Tickets
    <3>4. {i \in RowIds : jobs'[i].status \in Active}
            = {i \in RowIds : jobs[i].status \in Active} \ {id}
      BY <1>3, <2>2, <3>1, <1>s
    <3>5. {i \in RowIds : jobs'[i].status \in Terminal}
            = {i \in RowIds : jobs[i].status \in Terminal} \cup {id}
      BY <1>3, <3>1
    <3>6. OpenTickets' = OpenTickets \ {ticket}
      BY <2>1, <3>4 DEF OpenTickets, Tickets
    <3>7. SettledTickets' = SettledTickets \cup {ticket}
      BY <2>1, <3>1, <3>5 DEF SettledTickets, Tickets
    <3>8. Ledger!Finish(ticket)
      BY <3>3, <3>6, <3>7 DEF Ledger!Finish, OpenTickets, SettledTickets
    <3> QED
      BY <3>2, <3>8 DEF Ledger!LedgerNext
  <2> QED
    BY <2>3, <2>4
<1> QED
  BY <1>1, <1>2, <1>3, TableStepLemma DEF QueueInv, TableStep

\* Refinement: whatever workers, leases, faults and restarts do, producers see
\* jobs that stay open until they are settled once and for all.
THEOREM LedgerCorrect == Spec => ImplementsLedger
<1>1. Init => Ledger!LedgerInit
  BY DEF Init, NoRow, Active, Terminal, Tickets, Ledger!LedgerInit
<1>2. QueueInv /\ [Next]_vars => [Ledger!LedgerNext]_Ledger!ledger
  BY LedgerStep DEF Ledger!ledger, OpenTickets, SettledTickets
<1> QED
  BY <1>1, <1>2, QueueInvariant, PTL DEF Spec, ImplementsLedger, Ledger!LedgerSpec

-----------------------------------------------------------------------------
(* The attempt budget. *)

\* Nothing is in the table, and no process runs, before the first start.
StartedFirst ==
  starts = 0 => /\ \A p \in Procs : ~up[p]
                /\ \A i \in RowIds : jobs[i].status = "absent"

BudgetInv == StartedFirst /\ AttemptBudget

\* After a settlement with the token, the row waits only with budget left.
LEMMA SettleAttempts ==
  ASSUME TypeInv, LeaseInv, NEW w \in Workers, Settle(w),
         TokenMatches(jobs, lease[w])
  PROVE  LET i == lease[w].id IN
         /\ jobs'[i].attempts <= jobs[i].attempts
         /\ jobs'[i].status = "ready" =>
              jobs'[i].attempts < jobs[i].attempts \/ jobs'[i].attempts < MaxAttempts
<1> DEFINE i == lease[w].id
           r == jobs[i]
<1>1. lease[w] \in Job /\ i \in RowIds /\ r \in Row /\ jobs \in [RowIds -> Row]
  BY SettleShape DEF TypeInv, TypeOK, Job
<1>2. r.attempts = lease[w].attempts /\ r.attempts \in Nat \ {0} /\ MaxAttempts \in Nat
  BY <1>1, JobTableAssumption DEF TokenMatches, Job
<1>3. ASSUME NEW s \in {"ready", "done", "failed"}
      PROVE  /\ Settled(r, s).attempts = r.attempts /\ Settled(r, s).status = s
             /\ Settled(r, s) \in Row
  BY <1>1 DEF Settled, Row, Active, Terminal
<1>4. CASE jobs' = MarkedDone(jobs, lease[w])
  BY <1>1, <1>2, <1>3, <1>4 DEF MarkedDone
<1>5. CASE jobs' = MarkedFailed(jobs, lease[w], clock)
  <2>1. CASE lease[w].attempts >= MaxAttempts
    BY <1>1, <1>2, <1>3, <1>5, <2>1 DEF MarkedFailed
  <2>2. CASE ~(lease[w].attempts >= MaxAttempts)
    <3>1. jobs'[i] = [Settled(r, "ready") EXCEPT
                        !.availableAt = clock + Backoff(lease[w].attempts)]
      BY <1>1, <1>5, <2>2 DEF MarkedFailed
    <3>2. jobs'[i].attempts = r.attempts
      BY <1>3, <3>1 DEF Row
    <3> QED
      BY <1>1, <1>2, <2>2, <3>2
  <2> QED
    BY <2>1, <2>2
<1>6. ASSUME NEW d \in DeferDelays, jobs' = MarkedDeferred(jobs, lease[w], clock + d)
      PROVE  jobs'[i].attempts < r.attempts
  <2>1. jobs'[i] = [Settled(r, "ready") EXCEPT !.attempts = lease[w].attempts - 1,
                      !.availableAt = clock + d, !.startedAt = NULL]
    BY <1>1, <1>6 DEF MarkedDeferred
  <2>2. jobs'[i].attempts = lease[w].attempts - 1
    BY <1>3, <2>1 DEF Row
  <2> QED
    BY <1>1, <1>2, <2>2 DEF Job
<1>7. CASE \E d \in DeferDelays : jobs' = MarkedDeferred(jobs, lease[w], clock + d)
  <2>1. jobs'[i].attempts < r.attempts
    BY <1>6, <1>7
  <2>2. jobs' \in [RowIds -> Row]
    BY TypeStep DEF TypeInv, TypeOK, Next, WorkerStep
  <2> QED
    BY <1>1, <1>2, <2>1, <2>2 DEF Row
<1> QED
  BY <1>4, <1>5, <1>7 DEF Settle

LEMMA BudgetStep ==
  ASSUME TypeInv, LeaseInv, BudgetInv, [Next]_vars
  PROVE  BudgetInv'
<1>t. /\ jobs \in [RowIds -> Row] /\ jobs' \in [RowIds -> Row]
      /\ starts \in Nat /\ starts' \in Nat /\ MaxAttempts \in Nat \ {0}
      /\ up \in [Procs -> BOOLEAN]
  BY TypeStep, JobTableAssumption DEF TypeInv, TypeOK
<1>r. Restarts \in Nat
  BY <1>t DEF Restarts
\* Steps that leave the table and the number of starts alone.
<1>q. ASSUME UNCHANGED <<jobs, starts>>, \A p \in Procs : up'[p] => up[p]
      PROVE  BudgetInv'
  BY <1>q DEF BudgetInv, StartedFirst, AttemptBudget, Restarts
\* A process start that leaves the rows alone or puts some back to ready.
<1>s. ASSUME NEW p \in Procs, StartWorkers(p),
             \A i \in RowIds : jobs'[i].attempts = jobs[i].attempts,
             starts = 0 => jobs' = jobs
      PROVE  BudgetInv'
  <2>1. starts' = starts + 1
    BY <1>s DEF StartWorkers
  <2>2. StartedFirst'
    BY <2>1, <1>t DEF StartedFirst
  <2>3. CASE starts = 0
    BY <2>1, <2>2, <2>3, <1>s, <1>t DEF BudgetInv, AttemptBudget, Restarts
  <2>4. CASE starts # 0
    <3>1. Restarts' = Restarts + 1
      BY <2>1, <2>4, <1>t DEF Restarts
    <3>2. \A i \in RowIds : jobs[i].attempts \in Nat /\ jobs[i].attempts <= MaxAttempts + Restarts
      BY <1>t DEF BudgetInv, AttemptBudget, Row
    <3>3. \A i \in RowIds : jobs'[i].attempts < MaxAttempts + Restarts'
      BY <3>1, <3>2, <1>s, <1>t, <1>r
    <3>4. AttemptBudget'
      BY <3>1, <3>3, <1>t, <1>r DEF AttemptBudget, Row
    <3> QED
      BY <2>2, <3>4 DEF BudgetInv
  <2> QED
    BY <2>3, <2>4
<1>1. ASSUME NEW k \in Keys, Enqueue(k) PROVE BudgetInv'
  <2>1. PICK id \in RowIds : jobs' = Inserted(jobs, id, k, clock)
    BY <1>1 DEF Enqueue
  <2>2. /\ \A i \in RowIds : i # id => jobs'[i] = jobs[i]
        /\ jobs'[id].attempts = 0
    BY <2>1, <1>t DEF Inserted
  <2>3. starts # 0 /\ starts' = starts /\ up' = up
    BY <1>1 DEF Enqueue, BudgetInv, StartedFirst
  <2> QED
    BY <2>2, <2>3, <1>t, <1>r DEF BudgetInv, StartedFirst, AttemptBudget, Restarts
<1>2. ASSUME NEW p \in Procs, StartCore(p) PROVE BudgetInv'
  <2>1. \A i \in RowIds : jobs'[i].attempts = jobs[i].attempts
    BY <1>2, <1>t DEF StartCore, Recovered, Row
  <2>2. starts = 0 => jobs' = jobs
    BY <1>2, <1>t DEF StartCore, Recovered, Stale, BudgetInv, StartedFirst
  <2> QED
    BY <1>2, <1>s, <2>1, <2>2 DEF StartCore
<1>3. ASSUME NEW p \in Procs, StartDrain(p) PROVE BudgetInv'
  BY <1>3, <1>s DEF StartDrain
<1>4. ASSUME NEW p \in Procs, RecoveryBusy(p) PROVE BudgetInv'
  BY <1>4, <1>s DEF RecoveryBusy
<1>5. ASSUME NEW p \in Procs, Crash(p) PROVE BudgetInv'
  BY <1>5, <1>q, <1>t DEF Crash
<1>6. ASSUME NEW w \in Workers, Claim(w) PROVE BudgetInv'
  <2>1. PICK id \in NextToClaim(jobs, clock) : jobs' = Claimed(jobs, id, clock)
    BY <1>6 DEF Claim
  <2>2. id \in RowIds /\ jobs[id].status = "ready" /\ jobs[id] \in Row
    BY <1>t DEF NextToClaim, Due
  <2>3. /\ \A i \in RowIds : i # id => jobs'[i] = jobs[i]
        /\ jobs'[id] = Leased(jobs[id], clock)
    BY <2>1, <2>2, <1>t DEF Claimed
  <2>4. jobs'[id].attempts = jobs[id].attempts + 1 /\ jobs'[id].status = "running"
    BY <2>2, <2>3 DEF Leased, Row
  <2>5. starts' = starts /\ up' = up
    BY <1>6 DEF Claim
  <2>6. starts # 0
    BY <2>2 DEF BudgetInv, StartedFirst
  <2>7. jobs[id].attempts < MaxAttempts + Restarts /\ jobs[id].attempts \in Nat
    BY <2>2 DEF BudgetInv, AttemptBudget, Row
  <2> QED
    BY <2>2, <2>3, <2>4, <2>5, <2>6, <2>7, <1>t, <1>r
       DEF BudgetInv, StartedFirst, AttemptBudget, Restarts
<1>7. ASSUME NEW w \in Workers, HandlerReturns(w) PROVE BudgetInv'
  BY <1>7, <1>q DEF HandlerReturns
<1>8. ASSUME NEW w \in Workers, Settle(w) PROVE BudgetInv'
  <2>1. lease[w] \in Job /\ lease[w] # NULL /\ SettlesRow(jobs, lease[w], jobs')
    BY <1>8, SettleShape, JobTableAssumption
  <2>2. starts' = starts /\ up' = up
    BY <1>8 DEF Settle, ReturnToLoop
  <2>3. CASE ~TokenMatches(jobs, lease[w])
    BY <2>1, <2>2, <2>3, <1>q DEF SettlesRow
  <2>4. CASE TokenMatches(jobs, lease[w])
    <3> DEFINE i == lease[w].id
    <3>1. /\ jobs'[i].attempts <= jobs[i].attempts
          /\ jobs'[i].status = "ready" =>
               jobs'[i].attempts < jobs[i].attempts \/ jobs'[i].attempts < MaxAttempts
      BY <1>8, <2>4, SettleAttempts
    <3>2. i \in RowIds /\ jobs[i].status \in Active
      BY <2>1, <2>4, TokenOwner DEF Job
    <3>3. starts # 0
      BY <3>2 DEF BudgetInv, StartedFirst, Active
    <3>4. jobs[i].attempts \in Nat /\ jobs'[i].attempts \in Nat
      BY <3>2, <1>t DEF Row
    <3>5. jobs[i].attempts <= MaxAttempts + Restarts
      BY <3>2 DEF BudgetInv, AttemptBudget
    <3>6. /\ jobs'[i].attempts <= MaxAttempts + Restarts
          /\ jobs'[i].status = "ready" => jobs'[i].attempts < MaxAttempts + Restarts
      BY <3>1, <3>4, <3>5, <1>t, <1>r
    <3>7. \A j \in RowIds : j # i => jobs'[j] = jobs[j]
      BY <2>1 DEF SettlesRow
    <3> QED
      BY <2>2, <3>3, <3>6, <3>7, <1>t DEF BudgetInv, StartedFirst, AttemptBudget, Restarts
  <2> QED
    BY <2>3, <2>4
<1>9. ASSUME NEW w \in Workers, SettleBusy(w) PROVE BudgetInv'
  BY <1>9, <1>q DEF SettleBusy, ReturnToLoop
<1>10. ASSUME NEW w \in Workers, HandlerPanics(w) PROVE BudgetInv'
  BY <1>10, <1>q DEF HandlerPanics
<1>11. CASE Tick
  BY <1>11, <1>q DEF Tick
<1>12. CASE UNCHANGED vars
  BY <1>12, <1>q DEF vars
<1> QED
  BY <1>1, <1>2, <1>3, <1>4, <1>5, <1>6, <1>7, <1>8, <1>9, <1>10, <1>11, <1>12
     DEF Next, ProcessStep, WorkerStep

\* A row is claimed at most max_attempts times plus once per process restart.
THEOREM BudgetCorrect == Spec => []AttemptBudget
<1>1. Init => BudgetInv
  BY JobTableAssumption
     DEF Init, BudgetInv, StartedFirst, AttemptBudget, Restarts, NoRow
<1>2. QueueInv /\ BudgetInv /\ [Next]_vars => BudgetInv'
  BY BudgetStep DEF QueueInv
<1>3. BudgetInv => AttemptBudget
  BY DEF BudgetInv
<1> QED
  BY <1>1, <1>2, <1>3, QueueInvariant, PTL DEF Spec

\* The lease protocol is sound for any number of processes, workers and rows.
THEOREM LeaseSafeCorrect == Spec => []LeaseSafe
<1>1. QueueInv => LeaseInv
  BY DEF QueueInv
<1>2. TypeOK /\ DedupeUnique /\ LeaseExclusive /\ TokenNamesLessee /\ LeaseInv => LeaseSafe
  BY DEF LeaseSafe
<1> QED
  BY <1>1, <1>2, TypeCorrect, DedupeCorrect, LeaseCorrect, TokenCorrect, QueueInvariant, PTL

-----------------------------------------------------------------------------
(* The gate in front of the workers.  The line of the semaphore and the    *)
(* places of its waiters (LineMatches) carry the type invariant, the       *)
(* ceiling and the stand-down.                                             *)

Places == {"idle", "check", "signed_in", "pause", "backoff", "line", "call"}

Policies == {"aggressive", "normal", "throttled", "paused"}

LEMMA GateConstants == IsFiniteSet(Callers) /\ Slots \in Nat \ {0}
BY SchedulerGateAssumption

-----------------------------------------------------------------------------
(* Sequences without duplicates.                                           *)

\* An injective line over a finite set is no longer than the set.
LEMMA LineBounded ==
  ASSUME NEW S, IsFiniteSet(S), NEW q \in Seq(S), IsInjective(q)
  PROVE  Len(q) <= Cardinality(S)
<1>1. Len(q) \in Nat /\ DOMAIN q = 1..Len(q) /\ q \in [1..Len(q) -> S]
  OBVIOUS
<1>2. q \in Injection(1..Len(q), S)
  BY <1>1 DEF IsInjective, Injection
<1>3. Cardinality(1..Len(q)) <= Cardinality(S)
  BY <1>2, FS_Injection
<1>4. Cardinality(1..Len(q)) = Len(q)
  BY <1>1, FS_Interval
<1> QED
  BY <1>3, <1>4

\* Joining a line one does not stand in.
LEMMA JoinLine ==
  ASSUME NEW S, NEW q \in Seq(S), IsInjective(q), NEW x \in S, x \notin ToSet(q)
  PROVE  /\ Append(q, x) \in Seq(S)
         /\ ToSet(Append(q, x)) = ToSet(q) \cup {x}
         /\ IsInjective(Append(q, x))
<1> DEFINE r == Append(q, x)
<1>1. /\ r \in Seq(S) /\ Len(q) \in Nat
      /\ DOMAIN q = 1..Len(q) /\ DOMAIN r = 1..(Len(q) + 1)
      /\ r[Len(q) + 1] = x /\ \A i \in 1..Len(q) : r[i] = q[i]
  OBVIOUS
<1>2. ToSet(r) = ToSet(q) \cup {x}
  BY <1>1 DEF ToSet
<1>3. ASSUME NEW a \in DOMAIN r, NEW b \in DOMAIN r, r[a] = r[b]
      PROVE  a = b
  <2>1. \A i \in 1..Len(q) : q[i] # x
    BY <1>1 DEF ToSet
  <2> QED
    BY <1>1, <1>3, <2>1 DEF IsInjective
<1> QED
  BY <1>1, <1>2, <1>3 DEF IsInjective

\* Leaving a line from its head.
LEMMA LeaveLine ==
  ASSUME NEW S, NEW q \in Seq(S), IsInjective(q), q # <<>>
  PROVE  /\ Head(q) \in ToSet(q)
         /\ Tail(q) \in Seq(S)
         /\ ToSet(Tail(q)) = ToSet(q) \ {Head(q)}
         /\ IsInjective(Tail(q))
<1> DEFINE r == Tail(q)
<1>1. /\ r \in Seq(S) /\ Len(q) \in Nat \ {0} /\ Head(q) = q[1]
      /\ DOMAIN q = 1..Len(q) /\ DOMAIN r = 1..(Len(q) - 1)
      /\ \A i \in 1..(Len(q) - 1) : r[i] = q[i + 1]
  OBVIOUS
<1>2. Head(q) \in ToSet(q)
  BY <1>1 DEF ToSet
<1>3. ToSet(r) = ToSet(q) \ {Head(q)}
  <2>1. ASSUME NEW y \in ToSet(r) PROVE y \in ToSet(q) /\ y # Head(q)
    <3>1. PICK i \in 1..(Len(q) - 1) : y = q[i + 1]
      BY <1>1, <2>1 DEF ToSet
    <3> QED
      BY <1>1, <3>1 DEF ToSet, IsInjective
  <2>2. ASSUME NEW y \in ToSet(q), y # Head(q) PROVE y \in ToSet(r)
    <3>1. PICK i \in 1..Len(q) : y = q[i]
      BY <1>1 DEF ToSet
    <3>2. i - 1 \in 1..(Len(q) - 1) /\ r[i - 1] = y
      BY <1>1, <2>2, <3>1
    <3> QED
      BY <1>1, <3>2 DEF ToSet
  <2> QED
    BY <2>1, <2>2
<1>4. IsInjective(r)
  <2> SUFFICES ASSUME NEW a \in DOMAIN r, NEW b \in DOMAIN r, r[a] = r[b]
               PROVE  a = b
    BY DEF IsInjective
  <2>1. a + 1 \in DOMAIN q /\ b + 1 \in DOMAIN q /\ q[a + 1] = q[b + 1]
    BY <1>1
  <2> QED
    BY <1>1, <2>1 DEF IsInjective
<1> QED
  BY <1>1, <1>2, <1>3, <1>4

-----------------------------------------------------------------------------
(* The type invariant, with the line and the places in step.               *)

GateTypeInv == GateTypeOK /\ LineMatches

LEMMA DecideType ==
  ASSUME NEW s \in AllSignals, NEW c \in AllConfigs
  PROVE  Decide(s, c) \in Policies
BY SchedulerGateAssumption DEF Decide, Policies, Config

LEMMA GateTypeInit == GateInit => GateTypeInv
<1> SUFFICES ASSUME GateInit PROVE GateTypeInv
  OBVIOUS
<1>1. policy \in Policies
  BY DecideType DEF GateInit
<1>2. Len(line) <= Cardinality(Callers)
  BY GateConstants, FS_CardinalityType DEF GateInit
<1>3. LineMatches
  BY DEF GateInit, LineMatches, ToSet, IsInjective
<1> QED
  BY <1>1, <1>2, <1>3 DEF GateInit, GateTypeInv, GateTypeOK, Policies

\* A caller that walks to a place outside the line.
LEMMA WalkKeepsLine ==
  ASSUME GateTypeInv, NEW c \in Callers, at[c] # "line",
         NEW place \in Places \ {"line"}, Goto(c, place), UNCHANGED line
  PROVE  at' \in [Callers -> Places] /\ LineMatches'
BY DEF GateTypeInv, GateTypeOK, LineMatches, Goto, Places

LEMMA JoinKeepsLine ==
  ASSUME GateTypeInv, NEW c \in Callers, at[c] # "line",
         Goto(c, "line"), line' = Append(line, c)
  PROVE  /\ at' \in [Callers -> Places]
         /\ line' \in Seq(Callers) /\ Len(line') <= Cardinality(Callers)
         /\ LineMatches'
<1>1. at' \in [Callers -> Places] /\ at' = [at EXCEPT ![c] = "line"]
  BY DEF GateTypeInv, GateTypeOK, Goto, Places
<1>2. /\ line \in Seq(Callers) /\ IsInjective(line) /\ c \notin ToSet(line)
  BY DEF GateTypeInv, GateTypeOK, LineMatches
<1>3. /\ line' \in Seq(Callers) /\ ToSet(line') = ToSet(line) \cup {c}
      /\ IsInjective(line')
  BY <1>2, JoinLine
<1>4. Len(line') <= Cardinality(Callers)
  BY <1>3, GateConstants, LineBounded
<1>5. ToSet(line') = {d \in Callers : at'[d] = "line"}
  BY <1>1, <1>3 DEF GateTypeInv, GateTypeOK, LineMatches
<1> QED
  BY <1>1, <1>3, <1>4, <1>5 DEF LineMatches

LEMMA GrantKeepsLine ==
  ASSUME GateTypeInv, NEW c \in Callers, Granted(c)
  PROVE  /\ at[c] = "line"
         /\ at' \in [Callers -> Places]
         /\ line' \in Seq(Callers) /\ Len(line') <= Cardinality(Callers)
         /\ LineMatches'
<1>1. line \in Seq(Callers) /\ IsInjective(line) /\ line # <<>> /\ Head(line) = c
  BY DEF GateTypeInv, GateTypeOK, LineMatches, Granted
<1>2. /\ c \in ToSet(line) /\ line' \in Seq(Callers)
      /\ ToSet(line') = ToSet(line) \ {c} /\ IsInjective(line')
  BY <1>1, LeaveLine DEF Granted
<1>3. at[c] = "line" /\ at' \in [Callers -> Places] /\ at' = [at EXCEPT ![c] = "call"]
  BY <1>2 DEF GateTypeInv, GateTypeOK, LineMatches, Granted, Goto, Places
<1>4. Len(line') <= Cardinality(Callers)
  BY <1>2, GateConstants, LineBounded
<1>5. ToSet(line') = {d \in Callers : at'[d] = "line"}
  BY <1>2, <1>3 DEF GateTypeInv, GateTypeOK, LineMatches
<1> QED
  BY <1>2, <1>3, <1>4, <1>5 DEF LineMatches

LEMMA GateTypeStep == GateTypeInv /\ [GateNext]_gateVars => GateTypeInv'
<1> SUFFICES ASSUME GateTypeInv, [GateNext]_gateVars
             PROVE  GateTypeInv'
  OBVIOUS
<1> USE DEF GateTypeInv, Places, Policies
<1>1. ASSUME NEW s \in AllSignals, Measure(s) PROVE GateTypeInv'
  BY <1>1 DEF Measure, state, GateTypeOK, LineMatches
<1>2. ASSUME StoreSample PROVE GateTypeInv'
  <2>1. sample \in AllSignals /\ Decide(sample, config) \in Policies
    BY <1>2, DecideType DEF StoreSample, GateTypeOK
  <2> QED
    BY <1>2, <2>1 DEF StoreSample, PolicyAfterSample, GateTypeOK, LineMatches
<1>3. ASSUME NEW c \in AllConfigs, UpdateConfig(c) PROVE GateTypeInv'
  <2>1. Decide(signals, c) \in Policies
    BY <1>3, DecideType DEF GateTypeOK
  <2> QED
    BY <1>3, <2>1 DEF UpdateConfig, GateTypeOK, LineMatches
<1>4. CASE SignOut
  BY <1>4 DEF SignOut, state, GateTypeOK, LineMatches
<1>5. CASE SignIn
  BY <1>5 DEF SignIn, state, GateTypeOK, LineMatches
<1>6. ASSUME NEW c \in Callers, Ask(c) PROVE GateTypeInv'
  <2>1. at' \in [Callers -> Places] /\ LineMatches'
    BY <1>6, WalkKeepsLine DEF Ask
  <2> QED
    BY <1>6, <2>1 DEF Ask, state, GateTypeOK
<1>7. ASSUME NEW c \in Callers, CheckSession(c) PROVE GateTypeInv'
  <2>1. at' \in [Callers -> Places] /\ LineMatches'
    BY <1>7, WalkKeepsLine DEF CheckSession
  <2> QED
    BY <1>7, <2>1 DEF CheckSession, state, GateTypeOK
<1>8. ASSUME NEW c \in Callers, ReadPolicy(c) PROVE GateTypeInv'
  <2>1. /\ at' \in [Callers -> Places] /\ LineMatches'
        /\ line' \in Seq(Callers) /\ Len(line') <= Cardinality(Callers)
    <3>1. CASE Goto(c, "line") /\ line' = Append(line, c)
      BY <1>8, <3>1, JoinKeepsLine DEF ReadPolicy
    <3>2. CASE Goto(c, "pause") /\ UNCHANGED line
      BY <1>8, <3>2, WalkKeepsLine DEF ReadPolicy, GateTypeOK
    <3>3. CASE Goto(c, "backoff") /\ UNCHANGED line
      BY <1>8, <3>3, WalkKeepsLine DEF ReadPolicy, GateTypeOK
    <3> QED
      BY <1>8, <3>1, <3>2, <3>3 DEF ReadPolicy
  <2> QED
    BY <1>8, <2>1 DEF ReadPolicy, state, GateTypeOK
<1>9. ASSUME NEW c \in Callers, PollAgain(c) PROVE GateTypeInv'
  <2>1. at' \in [Callers -> Places] /\ LineMatches'
    BY <1>9, WalkKeepsLine DEF PollAgain
  <2> QED
    BY <1>9, <2>1 DEF PollAgain, state, GateTypeOK
<1>10. ASSUME NEW c \in Callers, BackoffEnds(c) PROVE GateTypeInv'
  BY <1>10, JoinKeepsLine DEF BackoffEnds, state, GateTypeOK
<1>11. ASSUME NEW c \in Callers, Granted(c) PROVE GateTypeInv'
  <2>1. /\ at' \in [Callers -> Places] /\ LineMatches'
        /\ line' \in Seq(Callers) /\ Len(line') <= Cardinality(Callers)
    BY <1>11, GrantKeepsLine
  <2>2. leaked' \in [Callers -> Nat]
    BY <1>11 DEF Granted, GateTypeOK
  <2> QED
    BY <1>11, <2>1, <2>2 DEF Granted, state, GateTypeOK
<1>12. ASSUME NEW c \in Callers, Release(c) PROVE GateTypeInv'
  <2>1. at' \in [Callers -> Places] /\ LineMatches'
    BY <1>12, WalkKeepsLine DEF Release
  <2> QED
    BY <1>12, <2>1 DEF Release, state, GateTypeOK
<1>13. CASE UNCHANGED gateVars
  BY <1>13 DEF gateVars, state, GateTypeOK, LineMatches
<1> QED
  BY <1>1, <1>2, <1>3, <1>4, <1>5, <1>6, <1>7, <1>8, <1>9, <1>10, <1>11, <1>12, <1>13
     DEF GateNext, Step

\* Every reachable state is well typed; no caller stands in line twice, so the
\* line of the semaphore is never longer than there are callers.
THEOREM GateTypeCorrect == GateSpec => []GateTypeOK
<1>1. GateSpec => []GateTypeInv
  BY GateTypeInit, GateTypeStep, PTL DEF GateSpec
<1> QED
  BY <1>1, PTL DEF GateTypeInv

-----------------------------------------------------------------------------
(* The ceiling: the permits out are the callers in a call.                 *)

Ceiling == Cardinality(OnCall) <= Slots

LEMMA CeilingInit == GateInit => Ceiling
<1> SUFFICES ASSUME GateInit PROVE Ceiling
  OBVIOUS
<1>1. OnCall = {}
  BY DEF GateInit, OnCall
<1> QED
  BY <1>1, FS_EmptySet, GateConstants DEF Ceiling

LEMMA CeilingStep == GateTypeInv /\ Ceiling /\ [GateNext]_gateVars => Ceiling'
<1> SUFFICES ASSUME GateTypeInv, Ceiling, [GateNext]_gateVars
             PROVE  Ceiling'
  OBVIOUS
<1>1. /\ OnCall \subseteq Callers /\ IsFiniteSet(OnCall)
      /\ Cardinality(OnCall) \in Nat /\ Slots \in Nat
  <2>1. OnCall \in SUBSET Callers
    BY DEF OnCall
  <2>2. IsFiniteSet(OnCall)
    BY <2>1, FS_Subset, GateConstants
  <2> QED
    BY <2>1, <2>2, FS_CardinalityType, GateConstants
<1>2. ASSUME NEW c \in Callers, Granted(c) PROVE Ceiling'
  <2>1. at' = [at EXCEPT ![c] = "call"] /\ at[c] = "line" /\ Slots - Cardinality(OnCall) > 0
    BY <1>2, GrantKeepsLine DEF Granted, FreeSlots, Goto
  <2>2. OnCall' = OnCall \cup {c} /\ c \notin OnCall
    BY <2>1 DEF OnCall, GateTypeInv, GateTypeOK
  <2>3. Cardinality(OnCall') = Cardinality(OnCall) + 1
    BY <1>1, <2>2, FS_AddElement
  <2> QED
    BY <1>1, <2>1, <2>3 DEF Ceiling
<1>3. ASSUME \A c \in Callers : at'[c] = "call" => at[c] = "call"
      PROVE  Ceiling'
  <2>1. OnCall' \in SUBSET OnCall
    BY <1>3 DEF OnCall
  <2>2. IsFiniteSet(OnCall') /\ Cardinality(OnCall') <= Cardinality(OnCall)
    BY <1>1, <2>1, FS_Subset
  <2>3. Cardinality(OnCall') \in Nat
    BY <2>2, FS_CardinalityType
  <2> QED
    BY <1>1, <2>2, <2>3 DEF Ceiling
<1>4. CASE \A c \in Callers : ~Granted(c)
  <2>1. UNCHANGED at \/ \E c \in Callers, place \in Places \ {"call"} : Goto(c, place)
    BY <1>4 DEF GateNext, Step, Measure, StoreSample, UpdateConfig,
       SignOut, SignIn, Ask, CheckSession, ReadPolicy, PollAgain,
       BackoffEnds, Release, gateVars, Places
  <2> QED
    BY <1>3, <2>1 DEF Goto, GateTypeInv, GateTypeOK, Places
<1> QED
  BY <1>2, <1>4

\* At most Slots model calls run at a time, and the line of the semaphore is
\* exactly the callers that wait in it.
THEOREM SlotCorrect == GateSpec => []SingleSlot
<1> DEFINE SlotInv == GateTypeInv /\ Ceiling
<1>1. GateInit => SlotInv
  BY GateTypeInit, CeilingInit
<1>2. SlotInv /\ [GateNext]_gateVars => SlotInv'
  BY GateTypeStep, CeilingStep
<1>3. SlotInv => SingleSlot
  BY DEF SingleSlot, GateTypeInv, Ceiling
<1> QED
  BY <1>1, <1>2, <1>3, PTL DEF GateSpec

-----------------------------------------------------------------------------
(* The policy.                                                             *)

\* Whoever writes last, the sampler or the settings, the stored policy is the
\* decision on the stored signals and settings.
THEOREM PolicyCorrect == GateSpec => []PolicyCurrent
<1>1. GateInit => PolicyCurrent
  BY DEF GateInit, PolicyCurrent
<1>2. PolicyCurrent /\ [GateNext]_gateVars => PolicyCurrent'
  BY DEF PolicyCurrent, GateNext, Step, gateVars, state, Measure,
     StoreSample, PolicyAfterSample, UpdateConfig, SignOut, SignIn,
     Ask, CheckSession, ReadPolicy, PollAgain, BackoffEnds,
     Granted, Release
<1> QED
  BY <1>1, <1>2, PTL DEF GateSpec

LEMMA DecideMonotone ==
  ASSUME NEW s \in Signals, NEW r \in Signals,
         NEW c \in Config, BetterOff(s, r)
  PROVE  Strictness(Decide(s, c)) <= Strictness(Decide(r, c))
<1>1. /\ Clamp(c.severe) \in Int /\ Clamp(c.busy) \in Int
      /\ Clamp(c.battery_floor) \in Int
  BY DEF Clamp, Config
<1>2. /\ s.cpu \in Int /\ r.cpu \in Int /\ s.cpu <= r.cpu
      /\ s.charge \in Int /\ r.charge \in Int /\ s.charge >= r.charge
      /\ s.charge # NoReading /\ r.charge # NoReading
      /\ s.server = r.server /\ (r.on_ac => s.on_ac)
      /\ s.server \in BOOLEAN /\ s.on_ac \in BOOLEAN /\ r.on_ac \in BOOLEAN
  BY DEF Signals, Percent, BetterOff
<1>3. BatteryOk(r, c) => BatteryOk(s, c)
  BY <1>1, <1>2 DEF BatteryOk
<1>4. CpuOk(r, c) => CpuOk(s, c)
  BY <1>1, <1>2 DEF CpuOk
<1>5. (c.require_ac /\ ~s.on_ac) \/ s.cpu >= Clamp(c.severe)
        => (c.require_ac /\ ~r.on_ac) \/ r.cpu >= Clamp(c.severe)
  BY <1>1, <1>2
<1> QED
  BY <1>2, <1>3, <1>4, <1>5 DEF Decide, Strictness, Config

\* For every setting, well formed or not: mains, charge and an idler CPU never
\* make the policy stricter.
THEOREM MonotoneCorrect == GateSpec => []PolicyMonotone
<1>1. GateTypeOK => PolicyMonotone
  BY DecideMonotone, SchedulerGateAssumption DEF GateTypeOK, PolicyMonotone
<1> QED
  BY <1>1, GateTypeCorrect, PTL

-----------------------------------------------------------------------------
(* The stand-down.  A caller that got a permit after the session went away *)
(* is in its call, or has ended it and stands before the session check.    *)

StandDownInv ==
  signed_out => \A c \in Callers :
    leaked[c] = 0 \/ (leaked[c] = 1 /\ at[c] \in {"call", "idle", "check", "pause"})

LEMMA StandDownStep == GateTypeInv /\ StandDownInv /\ [GateNext]_gateVars => StandDownInv'
<1> SUFFICES ASSUME GateTypeInv, StandDownInv, [GateNext]_gateVars
             PROVE  StandDownInv'
  OBVIOUS
<1> USE DEF GateTypeInv, GateTypeOK, StandDownInv
<1>1. ASSUME UNCHANGED <<signed_out, leaked, at>> PROVE StandDownInv'
  BY <1>1
<1>2. CASE SignOut
  BY <1>2 DEF SignOut
<1>3. CASE SignIn
  BY <1>3 DEF SignIn
<1>4. ASSUME NEW c \in Callers, UNCHANGED <<signed_out, leaked>>,
             \/ \E place \in {"call", "idle", "check", "pause"} : Goto(c, place)
             \/ at[c] \in {"signed_in", "backoff"} /\ \E place \in Places : Goto(c, place)
             \/ ~signed_out
      PROVE  StandDownInv'
  BY <1>4 DEF Goto, Places
<1>5. ASSUME NEW c \in Callers, CheckSession(c) PROVE StandDownInv'
  BY <1>4, <1>5 DEF CheckSession, MayProceed
<1>6. ASSUME NEW c \in Callers, Granted(c) PROVE StandDownInv'
  <2>1. at[c] = "line" /\ at' = [at EXCEPT ![c] = "call"] /\ signed_out' = signed_out
        /\ leaked' = IF signed_out THEN [leaked EXCEPT ![c] = @ + 1] ELSE leaked
    BY <1>6, GrantKeepsLine DEF Granted, Goto
  <2>2. signed_out => leaked[c] = 0
    BY <2>1
  <2> QED
    BY <2>1, <2>2
<1>7. ASSUME NEW c \in Callers,
             \/ Ask(c) \/ ReadPolicy(c) \/ PollAgain(c)
             \/ BackoffEnds(c) \/ Release(c)
      PROVE  StandDownInv'
  BY <1>4, <1>7 DEF Ask, ReadPolicy, PollAgain, BackoffEnds, Release,
     Places
<1> QED
  BY <1>1, <1>2, <1>3, <1>5, <1>6, <1>7 DEF GateNext, Step, Measure,
     StoreSample, UpdateConfig, gateVars, state

\* The kill switch: whatever the interleaving, a caller starts at most one model
\* call after the session has gone.
THEOREM StandDownCorrect == GateSpec => []StandDown
<1>1. GateInit => GateTypeInv /\ StandDownInv
  BY GateTypeInit DEF GateInit, StandDownInv
<1>2. (GateTypeInv /\ StandDownInv) /\ [GateNext]_gateVars => (GateTypeInv /\ StandDownInv)'
  BY GateTypeStep, StandDownStep
<1>3. StandDownInv => StandDown
  BY DEF StandDownInv, StandDown
<1> QED
  BY <1>1, <1>2, <1>3, PTL DEF GateSpec

\* Books and permit agree, for any number of callers.
THEOREM GateCorrect == GateSpec => []GateInv
<1>1. GateTypeOK /\ SingleSlot => GateInv
  BY DEF GateInv
<1> QED
  BY <1>1, GateTypeCorrect, SlotCorrect, PTL

\* The policy in force is current and monotone, for any signals and settings.
THEOREM PolicySoundCorrect == GateSpec => []PolicySound
<1>1. PolicyCurrent /\ PolicyMonotone => PolicySound
  BY DEF PolicySound
<1> QED
  BY <1>1, PolicyCorrect, MonotoneCorrect, PTL
=============================================================================
