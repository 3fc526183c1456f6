------------------------------ MODULE JobTable ------------------------------
(***************************************************************************)
(* The rows of mem_tree_jobs and the SQL statements that change them       *)
(* (openhuman/memory/tree/jobs/store.rs).  A table is a function from row  *)
(* ids (the UUIDs enqueue draws) to rows; every operator below is one SQL  *)
(* statement and returns the table after it.  SQLite serialises writers,   *)
(* so a statement is atomic.  Times are milliseconds of Utc::now(), scaled *)
(* down; payloads, errors and the created/completed stamps are left out:   *)
(* no statement's WHERE clause reads them.                                 *)
(***************************************************************************)
EXTENDS Integers

CONSTANTS
  RowIds,        \* primary keys that may be drawn
  Keys,          \* dedupe keys; the kind of a job is a function of its key
  Priority,      \* the CASE kind ... of claim_next, as a function of the key
  NULL,          \* SQL NULL
  MaxAttempts,   \* max_attempts of every row (DEFAULT_MAX_ATTEMPTS)
  LockDuration,  \* DEFAULT_LOCK_DURATION_MS
  RetryBase,     \* RETRY_BASE_MS
  RetryCap       \* RETRY_CAP_MS

\* The struct claim_next returns: the token later settlements are gated on.
Job == [id : RowIds, attempts : Nat \ {0}, startedAt : Nat, lockedUntil : Nat]

ASSUME JobTableAssumption ==
  /\ NULL \notin Int
  /\ NULL \notin Keys
  /\ NULL \notin RowIds
  /\ NULL \notin Job
  /\ Priority \in [Keys -> 0..5]
  /\ MaxAttempts \in Nat \ {0}
  /\ LockDuration \in Nat
  /\ RetryBase \in Nat
  /\ RetryCap \in Nat

Active   == {"ready", "running"}
Terminal == {"done", "failed"}

Row == [key         : Keys \cup {NULL},
        status      : Active \cup Terminal \cup {"absent"},
        attempts    : Nat,
        availableAt : Nat,
        lockedUntil : Nat \cup {NULL},
        startedAt   : Nat \cup {NULL}]

\* An id no INSERT has used.
NoRow == [key |-> NULL, status |-> "absent", attempts |-> 0,
          availableAt |-> 0, lockedUntil |-> NULL, startedAt |-> NULL]

-----------------------------------------------------------------------------
(* enqueue_conn: INSERT OR IGNORE under the partial UNIQUE index on        *)
(* dedupe_key WHERE status IN ('ready', 'running').                        *)

KeyActive(t, k) == \E i \in RowIds : t[i].key = k /\ t[i].status \in Active

Inserted(t, id, k, availableAt) ==
  [t EXCEPT ![id] = [key |-> k, status |-> "ready", attempts |-> 0,
                     availableAt |-> availableAt,
                     lockedUntil |-> NULL, startedAt |-> NULL]]

-----------------------------------------------------------------------------
(* claim_next: the due row of the most downstream kind, oldest first.      *)

Due(t, now) == {i \in RowIds : t[i].status = "ready" /\ t[i].availableAt <= now}

ClaimsBefore(r, s) ==
  \/ Priority[r.key] < Priority[s.key]
  \/ Priority[r.key] = Priority[s.key] /\ r.availableAt <= s.availableAt

NextToClaim(t, now) ==
  {i \in Due(t, now) : \A j \in Due(t, now) : ClaimsBefore(t[i], t[j])}

Leased(r, now) ==
  [r EXCEPT !.status      = "running",
            !.attempts    = @ + 1,
            !.startedAt   = now,
            !.lockedUntil = now + LockDuration]

Claimed(t, id, now) == [t EXCEPT ![id] = Leased(@, now)]

\* RETURNING: the snapshot the worker keeps.
ClaimToken(t, id, now) ==
  [id |-> id, attempts |-> t[id].attempts + 1, startedAt |-> now,
   lockedUntil |-> now + LockDuration]

-----------------------------------------------------------------------------
(* mark_done, mark_failed and mark_deferred: one UPDATE each, gated on the *)
(* claim token and on nothing else; no match is a silent no-op.            *)

\* Mutants: the gate without started_at, and no gate.
TokenMatches_AttemptsOnly(t, job) == t[job.id].attempts = job.attempts
TokenMatches_Ungated(t, job) == TRUE

TokenMatches(t, job) ==
  /\ t[job.id].attempts = job.attempts
  /\ t[job.id].startedAt = job.startedAt

\* What the three UPDATEs set; the lock is always cleared.
Settled(r, status) == [r EXCEPT !.status = status, !.lockedUntil = NULL]

MarkedDone(t, job) ==
  IF TokenMatches(t, job)
    THEN [t EXCEPT ![job.id] = Settled(@, "done")]
    ELSE t

\* 1i64 << exp, for the exponents the shift is capped to.
Shl == <<1, 2, 4, 8, 16, 32, 64, 128, 256, 512, 1024, 2048, 4096, 8192, 16384,
         32768, 65536, 131072, 262144, 524288, 1048576>>

\* min(base * 2^(attempts - 1), cap), the exponent capped at 20.
Backoff(attempts) ==
  LET exp == IF attempts = 0 THEN 0 ELSE IF attempts > 21 THEN 20 ELSE attempts - 1
      raw == RetryBase * Shl[exp + 1]
  IN  IF raw < RetryCap THEN raw ELSE RetryCap

\* Mutants: one retry too many; a retry that forgets to leave "running".
MarkedFailed_OneMore(t, job, now) ==
  IF ~TokenMatches(t, job) THEN t
  ELSE IF job.attempts > MaxAttempts
    THEN [t EXCEPT ![job.id] = Settled(@, "failed")]
    ELSE [t EXCEPT ![job.id] = [Settled(@, "ready") EXCEPT
                                  !.availableAt = now + Backoff(job.attempts)]]

MarkedFailed_StaysRunning(t, job, now) ==
  IF ~TokenMatches(t, job) THEN t
  ELSE [t EXCEPT ![job.id] =
          Settled(@, IF job.attempts >= MaxAttempts THEN "failed" ELSE "running")]

MarkedFailed(t, job, now) ==
  IF ~TokenMatches(t, job) THEN t
  ELSE IF job.attempts >= MaxAttempts
    THEN [t EXCEPT ![job.id] = Settled(@, "failed")]
    ELSE [t EXCEPT ![job.id] = [Settled(@, "ready") EXCEPT
                                  !.availableAt = now + Backoff(job.attempts)]]

MarkedDeferred(t, job, until) ==
  IF TokenMatches(t, job)
    THEN [t EXCEPT ![job.id] = [Settled(@, "ready") EXCEPT
                                  !.attempts    = job.attempts - 1,
                                  !.availableAt = until,
                                  !.startedAt   = NULL]]
    ELSE t

-----------------------------------------------------------------------------
(* recover_stale_locks: every running row whose lock has run out goes back *)
(* to ready; attempts, started_at and locked_until keep their values.      *)

LockExpired(r, now) == r.lockedUntil # NULL /\ r.lockedUntil < now

\* Mutant: the comparison the wrong way round.
Stale_Swapped(t, now) ==
  {i \in RowIds : /\ t[i].status = "running" /\ t[i].lockedUntil # NULL
                  /\ now < t[i].lockedUntil}

Stale(t, now) == {i \in RowIds : t[i].status = "running" /\ LockExpired(t[i], now)}

Recovered(t, now) ==
  [i \in RowIds |-> IF i \in Stale(t, now)
                      THEN [t[i] EXCEPT !.status = "ready"] ELSE t[i]]
=============================================================================
