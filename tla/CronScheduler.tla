--------------------------- MODULE CronScheduler ---------------------------
(***************************************************************************)
(* The cron jobs of the core (cron/scheduler.rs, cron/store.rs): a polling *)
(* loop takes a batch of due jobs, runs it to the end and writes the       *)
(* results, while other threads add, edit, pause and remove the same rows. *)
(*                                                                         *)
(* The loop works on copies of the rows made when it read the batch, and   *)
(* an edit reads the row and writes all of it back in a second statement.  *)
(* A run stands for execute_job_with_retry with its retries and delivery;  *)
(* "Run now" (cron_run) touches neither schedules nor the loop and is left *)
(* out.  Time is a clock that stops at MaxTime.                            *)
(***************************************************************************)
EXTENDS Integers, FiniteSets

CONSTANTS
  Jobs,           \* ids of the jobs that may be added
  JobType,        \* JobType[j]: "shell" or "agent"
  AddedAs,        \* AddedAs[j]: the schedule j is added with
  NewSchedules,   \* schedules an edit may choose
  Editors,        \* threads that edit rows
  MaxTasks,       \* scheduler.max_tasks
  MaxConcurrent,  \* scheduler.max_concurrent
  MaxTime, MaxEdits, MaxFaults,
  NULL

Schedule == [kind : {"at", "every", "cron"}, t : Nat \ {0}]

\* A row of cron_jobs; once is delete_after_run.
Row == [sched : Schedule, next : Nat, enabled : BOOLEAN, once : BOOLEAN]

\* The loop's copy of a row, and a row on its way back to the table.
Copy    == [phase : {"queued", "run", "ok", "failed", "disable"}, row : Row]
Pending == [job : Jobs, row : Row]

ASSUME CronAssumption ==
  /\ IsFiniteSet(Jobs)
  /\ JobType \in [Jobs -> {"shell", "agent"}]
  /\ AddedAs \in [Jobs -> Schedule] /\ NewSchedules \subseteq Schedule
  /\ MaxTasks \in Nat \ {0} /\ MaxConcurrent \in Nat \ {0}
  /\ MaxTime \in Nat /\ MaxEdits \in Nat /\ MaxFaults \in Nat
  /\ NULL \notin BOOLEAN /\ NULL \notin Copy

VARIABLES
  clock,
  rows,     \* rows[j]: the row of j, NULL when there is none
  used,     \* ids that have been given out
  flight,   \* flight[j]: what the loop is doing with its copy of j, or NULL
  edit,     \* edit[e]: the row e has read, patched and not yet written, or NULL
  edits, faults,
  started,  \* occurrences <<j, next>> the loop has started, of rows that move on
  done,     \* occurrences of one-shots that have ended well
  repeats,  \* repeats[j]: starts of an occurrence that had been started before
  redone,   \* redone[j]: one-shots that ended well once more
  strays    \* strays[j]: starts since the row was last enabled

history == <<started, done, repeats, redone, strays>>
vars    == <<clock, rows, used, flight, edit, edits, faults, history>>

Flying  == {j \in Jobs : flight[j] # NULL}
Running == {j \in Flying : flight[j].phase # "queued"}

TypeOK ==
  /\ clock \in 0..MaxTime /\ edits \in Nat /\ faults \in Nat
  /\ rows \in [Jobs -> Row \cup {NULL}] /\ used \subseteq Jobs
  /\ flight \in [Jobs -> Copy \cup {NULL}]
  /\ Cardinality(Flying) <= MaxTasks /\ Cardinality(Running) <= MaxConcurrent
  /\ edit \in [Editors -> Pending \cup {NULL}]
  /\ started \subseteq Jobs \X Nat /\ done \subseteq started
  /\ {repeats, redone, strays} \subseteq [Jobs -> Nat]

Init ==
  /\ clock = 0 /\ edits = 0 /\ faults = 0
  /\ rows = [j \in Jobs |-> NULL] /\ used = {}
  /\ flight = [j \in Jobs |-> NULL]
  /\ edit = [e \in Editors |-> NULL]
  /\ started = {} /\ done = {}
  /\ repeats = [j \in Jobs |-> 0] /\ redone = repeats /\ strays = repeats

Tock ==
  /\ clock < MaxTime
  /\ clock' = clock + 1
  /\ UNCHANGED <<rows, used, flight, edit, edits, faults, history>>

-----------------------------------------------------------------------------
(* schedule.rs and store.rs                                                *)

\* The next occurrence strictly after now; an "at" always names its instant.
NextRun(s, now) ==
  CASE s.kind = "at"    -> s.t
    [] s.kind = "every" -> now + s.t
    [] s.kind = "cron"  -> ((now \div s.t) + 1) * s.t

\* delete_after_run is the caller's choice for an agent job and 0 for a shell job.
AddedRow(j, once) ==
  [sched |-> AddedAs[j], next |-> NextRun(AddedAs[j], clock), enabled |-> TRUE, once |-> once]

Valid(s) == s.kind = "at" => s.t > clock

Add(j, once) ==
  /\ j \notin used /\ Valid(AddedAs[j])
  /\ once => JobType[j] = "agent"
  /\ used' = used \cup {j}
  /\ rows' = [rows EXCEPT ![j] = AddedRow(j, once)]
  /\ UNCHANGED <<clock, flight, edit, edits, faults, history>>

RemoveJob(j) ==
  /\ rows[j] # NULL
  /\ rows' = [rows EXCEPT ![j] = NULL]
  /\ UNCHANGED <<clock, used, flight, edit, edits, faults, history>>

\* update_job: get_job, the patch, then one UPDATE of every column. A patch
\* of delete_after_run, of the command or of the delivery is left out.
Patched(row, on, s) ==
  [row EXCEPT !.enabled = IF on = NULL THEN @ ELSE on,
              !.sched = IF s = NULL THEN @ ELSE s,
              !.next = IF s = NULL THEN @ ELSE NextRun(s, clock)]

\* The UPDATE: nothing happens when the row is gone.
RowsAfterUpdate(j, row) == IF rows[j] = NULL THEN rows ELSE [rows EXCEPT ![j] = row]

StraysAfterUpdate(j, row) ==
  IF rows[j] # NULL /\ row.enabled THEN [strays EXCEPT ![j] = 0] ELSE strays

EditReads(e, j, on, s) ==
  /\ edit[e] = NULL /\ edits < MaxEdits
  /\ rows[j] # NULL
  /\ s # NULL => Valid(s)
  /\ edits' = edits + 1
  /\ edit' = [edit EXCEPT ![e] = [job |-> j, row |-> Patched(rows[j], on, s)]]
  /\ UNCHANGED <<clock, rows, used, flight, faults, history>>

EditWrites(e) ==
  /\ edit[e] # NULL
  /\ edit' = [edit EXCEPT ![e] = NULL]
  /\ rows' = RowsAfterUpdate(edit[e].job, edit[e].row)
  /\ strays' = StraysAfterUpdate(edit[e].job, edit[e].row)
  /\ UNCHANGED <<clock, used, flight, edits, faults, started, done, repeats, redone>>

-----------------------------------------------------------------------------
(* scheduler.rs.  The loop polls again only when its batch has been dealt  *)
(* with.                                                                   *)

\* Mutants: paused jobs are read as well; a job is due only on the dot.
Due_PausedToo == {j \in Jobs : rows[j] # NULL /\ rows[j].next <= clock}

Due_OnTheDot == {j \in Jobs : rows[j] # NULL /\ rows[j].enabled /\ rows[j].next = clock}

Due == {j \in Jobs : rows[j] # NULL /\ rows[j].enabled /\ rows[j].next <= clock}

\* ORDER BY next_run ASC LIMIT max_tasks.
IsBatch(batch) ==
  /\ Cardinality(batch) = IF Cardinality(Due) < MaxTasks THEN Cardinality(Due) ELSE MaxTasks
  /\ \A j \in batch, k \in Due \ batch : rows[j].next <= rows[k].next

Poll(batch) ==
  /\ Flying = {}
  /\ batch \subseteq Due /\ batch # {} /\ IsBatch(batch)
  /\ flight' = [j \in Jobs |-> IF j \in batch THEN [phase |-> "queued", row |-> rows[j]] ELSE NULL]
  /\ UNCHANGED <<clock, rows, used, edit, edits, faults, history>>

InPhase(j, phase) == flight[j] # NULL /\ flight[j].phase = phase

Goto(j, phase) == flight' = [flight EXCEPT ![j].phase = phase]

Landed(j) == flight' = [flight EXCEPT ![j] = NULL]

Occurrence(j) == <<j, flight[j].row.next>>

\* A one-shot is deleted after its run; any other "at" names its instant again
\* after every run, so it is kept and due at every poll.
IsOneShot(row) == row.once /\ row.sched.kind = "at"

Kept(row) == row.sched.kind = "at" /\ ~row.once

Counted(count, j, condition) == IF condition THEN [count EXCEPT ![j] = @ + 1] ELSE count

HasSlot == Cardinality(Running) < MaxConcurrent

\* buffer_unordered: the batch starts in its order, at most MaxConcurrent at once.
Start(j) ==
  /\ InPhase(j, "queued")
  /\ HasSlot
  /\ \A k \in Flying \ Running : flight[j].row.next <= flight[k].row.next
  /\ Goto(j, "run")
  /\ started' = IF Kept(flight[j].row) THEN started ELSE started \cup {Occurrence(j)}
  /\ repeats' = Counted(repeats, j, ~Kept(flight[j].row) /\ Occurrence(j) \in started)
  /\ strays' = Counted(strays, j, rows[j] = NULL \/ ~rows[j].enabled)
  /\ UNCHANGED <<clock, rows, used, edit, edits, faults, done, redone>>

OneShotEnds(j, outcome) == outcome = "ok" /\ IsOneShot(flight[j].row)

\* The last attempt has succeeded or retries are used up.
RunEnds(j, outcome) ==
  /\ InPhase(j, "run")
  /\ Goto(j, outcome)
  /\ done' = IF OneShotEnds(j, outcome) THEN done \cup {Occurrence(j)} ELSE done
  /\ redone' = Counted(redone, j, OneShotEnds(j, outcome) /\ Occurrence(j) \in done)
  /\ UNCHANGED <<clock, rows, used, edit, edits, faults, started, repeats, strays>>

RemoveOneShot(j) ==
  /\ InPhase(j, "ok") /\ IsOneShot(flight[j].row)
  /\ rows' = [rows EXCEPT ![j] = NULL]
  /\ Landed(j)
  /\ UNCHANGED <<clock, used, edit, edits, faults, history>>

\* A failed one-shot is disabled by update_job, in two statements again.
DisableReads(j) ==
  /\ InPhase(j, "failed") /\ IsOneShot(flight[j].row)
  /\ IF rows[j] = NULL THEN Landed(j)
     ELSE flight' = [flight EXCEPT ![j] = [phase |-> "disable", row |-> Patched(rows[j], FALSE, NULL)]]
  /\ UNCHANGED <<clock, rows, used, edit, edits, faults, history>>

DisableWrites(j) ==
  /\ InPhase(j, "disable")
  /\ rows' = RowsAfterUpdate(j, flight[j].row)
  /\ Landed(j)
  /\ UNCHANGED <<clock, used, edit, edits, faults, history>>

\* One UPDATE of next_run, from the schedule in the loop's copy.
\* Mutant: the run is recorded and next_run left as it was.
Rescheduled_RunOnly(row, s) == row

Rescheduled(row, s) == [row EXCEPT !.next = NextRun(s, clock)]

RescheduleAfterRun(j) ==
  /\ InPhase(j, "ok") \/ InPhase(j, "failed")
  /\ ~IsOneShot(flight[j].row)
  /\ rows' = IF rows[j] = NULL THEN rows
             ELSE [rows EXCEPT ![j] = Rescheduled(@, flight[j].row.sched)]
  /\ Landed(j)
  /\ UNCHANGED <<clock, used, edit, edits, faults, history>>

-----------------------------------------------------------------------------
(* Faults: writing a result fails and is only logged; the core dies.       *)

Fault == faults < MaxFaults /\ faults' = faults + 1

WriteFails(j) ==
  /\ Fault
  /\ \E phase \in {"ok", "failed", "disable"} : InPhase(j, phase)
  /\ Landed(j)
  /\ UNCHANGED <<clock, rows, used, edit, edits, history>>

CrashAndRestart ==
  /\ Fault
  /\ flight' = [j \in Jobs |-> NULL]
  /\ edit' = [e \in Editors |-> NULL]
  /\ UNCHANGED <<clock, rows, used, edits, history>>

LoopStep(j) ==
  \/ Start(j)
  \/ \E outcome \in {"ok", "failed"} : RunEnds(j, outcome)
  \/ RemoveOneShot(j) \/ DisableReads(j) \/ DisableWrites(j) \/ RescheduleAfterRun(j)

Next ==
  \/ Tock
  \/ \E j \in Jobs : RemoveJob(j) \/ \E once \in BOOLEAN : Add(j, once)
  \/ \E e \in Editors, j \in Jobs, on \in BOOLEAN \cup {NULL}, s \in NewSchedules \cup {NULL} :
       EditReads(e, j, on, s)
  \/ \E e \in Editors : EditWrites(e)
  \/ \E batch \in SUBSET Jobs : Poll(batch)
  \/ \E j \in Jobs : LoopStep(j) \/ WriteFails(j)
  \/ CrashAndRestart

Spec == Init /\ [][Next]_vars

\* Fairness: the loop polls, runs end (shell jobs are killed after two minutes,
\* agent turns have provider timeouts) and their results are written.
FairSpec ==
  /\ Spec
  /\ WF_vars(\E batch \in SUBSET Jobs : Poll(batch))
  /\ \A j \in Jobs : WF_vars(LoopStep(j))

-----------------------------------------------------------------------------
(* Properties *)

\* A job that the user has paused or removed is started at most once more, from
\* the batch that had been read before (store.rs: "WHERE enabled = 1").
StopsAfterPause == \A j \in Jobs : strays[j] <= 1

\* The loop's copies of rows never outgrow their batch and slots, and start a job
\* that was paused or removed at most once more.
PauseSafe == TypeOK /\ StopsAfterPause

\* One occurrence of a schedule is run once; each edit that writes back an old
\* row or meets a run, each lost result and each crash may cost one repetition.
\* Kept "at" rows are not among them: they are due again after every run.
OccurrenceOnce == \A j \in Jobs : repeats[j] <= edits + faults

\* A one-shot that is deleted after its run ends well once, whatever edits race
\* with its removal; only a crash or a failed removal may cost one repetition
\* (scheduler.rs: persist_job_result removes it "after success").
OneShotOnce == \A j \in Jobs : redone[j] <= faults

\* Every run of a row that moves on is accounted for: repetitions, of an
\* occurrence or of a one-shot, are paid for by edits, lost results and crashes.
RunsAccounted == OccurrenceOnce /\ OneShotOnce

\* Liveness: a job whose time has come is run, however late the poll, unless it
\* is paused, removed or rescheduled meanwhile.
Overdue(j) == rows[j] # NULL /\ rows[j].enabled /\ rows[j].next <= clock

DueJobsRun == \A j \in Jobs : Overdue(j) ~> (InPhase(j, "run") \/ ~Overdue(j))
=============================================================================
