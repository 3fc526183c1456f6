------------------------ MODULE CronSchedulerProofs ------------------------
(***************************************************************************)
(* Theorems about CronScheduler, for any jobs, schedules, editors, limits  *)
(* and bounds.                                                             *)
(***************************************************************************)
EXTENDS CronScheduler, FiniteSetTheorems, TLAPS

-----------------------------------------------------------------------------
(* Rows and what the statements of store.rs make of them.                  *)

\* next_run_for_schedule yields an instant for every schedule.
LEMMA NextRunType ==
  ASSUME NEW s \in Schedule, NEW now \in Nat
  PROVE  NextRun(s, now) \in Nat
<1>1. s.t \in Nat \ {0} /\ s.kind \in {"at", "every", "cron"}
  BY DEF Schedule
<1>2. now \div s.t \in Nat
  BY <1>1
<1>3. \A a, b \in Nat : a * b \in Nat
  OBVIOUS
<1>4. ((now \div s.t) + 1) * s.t \in Nat
  <2> DEFINE q == (now \div s.t) + 1
  <2>1. q \in Nat
    BY <1>2
  <2> HIDE DEF q
  <2>2. q * s.t \in Nat
    BY <2>1, <1>1, <1>3
  <2> QED
    BY <2>2 DEF q
<1>5. now + s.t \in Nat
  BY <1>1
<1> QED
  BY <1>1, <1>4, <1>5 DEF NextRun

\* update_job and reschedule_after_run turn rows into rows.
LEMMA PatchedType ==
  ASSUME NEW row \in Row, NEW on \in BOOLEAN \cup {NULL},
         NEW s \in NewSchedules \cup {NULL}, clock \in Nat
  PROVE  Patched(row, on, s) \in Row
<1>1. s # NULL => s \in Schedule /\ NextRun(s, clock) \in Nat
  BY NextRunType, CronAssumption
<1> QED
  BY <1>1 DEF Patched, Row

\* What add_shell_job and add_agent_job insert is a row.
LEMMA AddedRowType ==
  ASSUME NEW j \in Jobs, NEW once \in BOOLEAN, clock \in Nat
  PROVE  AddedRow(j, once) \in Row
<1>1. AddedAs[j] \in Schedule
  BY CronAssumption
<1>2. NextRun(AddedAs[j], clock) \in Nat
  BY <1>1, NextRunType
<1> QED
  BY <1>1, <1>2 DEF AddedRow, Row

\* The UPDATE of update_job leaves a table of rows.
LEMMA UpdateType ==
  ASSUME NEW j \in Jobs, NEW row \in Row, rows \in [Jobs -> Row \cup {NULL}]
  PROVE  RowsAfterUpdate(j, row) \in [Jobs -> Row \cup {NULL}]
BY DEF RowsAfterUpdate

LEMMA RescheduledType ==
  ASSUME NEW row \in Row, NEW s \in Schedule, clock \in Nat
  PROVE  Rescheduled(row, s) \in Row
<1>1. NextRun(s, clock) \in Nat
  BY NextRunType
<1> QED
  BY <1>1 DEF Rescheduled, Row

LEMMA CountedType ==
  ASSUME NEW count \in [Jobs -> Nat], NEW j \in Jobs, NEW condition \in BOOLEAN
  PROVE  Counted(count, j, condition) \in [Jobs -> Nat]
BY DEF Counted

LEMMA StraysType ==
  ASSUME NEW j \in Jobs, NEW row \in Row, strays \in [Jobs -> Nat]
  PROVE  StraysAfterUpdate(j, row) \in [Jobs -> Nat]
BY DEF StraysAfterUpdate

-----------------------------------------------------------------------------
(* The batch and its slots.  Only Poll makes jobs fly and only Start makes *)
(* them run.                                                               *)

Flights == [Jobs -> Copy \cup {NULL}]

Bounded == Cardinality(Flying) <= MaxTasks /\ Cardinality(Running) <= MaxConcurrent

\* Jobs that land, or go on after their start, leave the limits intact.
LEMMA LandingBounded ==
  ASSUME Bounded, flight \in Flights, flight' \in Flights,
         \A j \in Jobs : flight'[j] # NULL =>
            /\ flight[j] # NULL
            /\ flight'[j].phase # "queued" => flight[j].phase # "queued"
  PROVE  Bounded'
<1>1. Flying' \subseteq Flying /\ Running' \subseteq Running
  BY DEF Flying, Running
<1>2. IsFiniteSet(Jobs) /\ Flying \subseteq Jobs /\ Running \subseteq Flying
  BY CronAssumption DEF Flying, Running
<1>3. IsFiniteSet(Flying) /\ IsFiniteSet(Running)
  BY <1>2, FS_Subset
<1>4. /\ Cardinality(Flying') <= Cardinality(Flying)
      /\ Cardinality(Running') <= Cardinality(Running)
      /\ Cardinality(Flying) \in Nat /\ Cardinality(Running) \in Nat
      /\ Cardinality(Flying') \in Nat /\ Cardinality(Running') \in Nat
  BY <1>1, <1>3, FS_Subset, FS_CardinalityType
<1> QED
  BY <1>4, CronAssumption DEF Bounded

\* A batch has at most MaxTasks jobs, none of which runs yet.
LEMMA PollBounded ==
  ASSUME NEW batch \in SUBSET Jobs, Poll(batch)
  PROVE  Bounded'
<1>1. IsFiniteSet(Jobs) /\ Due \subseteq Jobs /\ MaxTasks \in Nat \ {0}
      /\ MaxConcurrent \in Nat \ {0}
  BY CronAssumption DEF Due
<1>2. IsFiniteSet(Due) /\ IsFiniteSet(batch)
  BY <1>1, FS_Subset
<1>3. Cardinality(Due) \in Nat /\ Cardinality(batch) \in Nat
  BY <1>2, FS_CardinalityType
<1>4. Cardinality(batch) <= MaxTasks
  BY <1>1, <1>3 DEF Poll, IsBatch
<1>5. Flying' \subseteq batch /\ Running' = {}
  BY DEF Poll, Flying, Running
<1>6. Cardinality(Flying') <= Cardinality(batch) /\ Cardinality(Flying') \in Nat
  BY <1>2, <1>5, FS_Subset, FS_CardinalityType
<1>7. Cardinality(Running') = 0
  BY <1>5, FS_EmptySet
<1> QED
  BY <1>1, <1>3, <1>4, <1>6, <1>7 DEF Bounded

\* A start takes a free slot.
LEMMA StartBounded ==
  ASSUME NEW j \in Jobs, Start(j), Bounded, flight \in Flights
  PROVE  Bounded'
<1>1. IsFiniteSet(Jobs) /\ Flying \subseteq Jobs /\ Running \subseteq Flying
  BY CronAssumption DEF Flying, Running
<1>2. /\ Flying' \subseteq Flying
      /\ Running' \subseteq Running \cup {j}
      /\ \A k \in Jobs \ {j} : flight'[k] = flight[k]
  BY DEF Start, Goto, InPhase, Flying, Running, Flights
<1>3. IsFiniteSet(Flying) /\ IsFiniteSet(Running) /\ IsFiniteSet(Running \cup {j})
  BY <1>1, FS_Subset, FS_AddElement
<1>4. /\ Cardinality(Flying') <= Cardinality(Flying)
      /\ Cardinality(Running') <= Cardinality(Running \cup {j})
  BY <1>2, <1>3, FS_Subset
<1>7. Cardinality(Running \cup {j}) = Cardinality(Running)
      \/ Cardinality(Running \cup {j}) = Cardinality(Running) + 1
  BY <1>3, FS_AddElement
<1>5. /\ Cardinality(Flying) \in Nat /\ Cardinality(Running) \in Nat
      /\ Cardinality(Flying') \in Nat /\ Cardinality(Running') \in Nat
      /\ Cardinality(Running \cup {j}) \in Nat
  BY <1>2, <1>3, FS_Subset, FS_CardinalityType
<1>6. Cardinality(Running) < MaxConcurrent
  BY DEF Start, HasSlot
<1> QED
  BY <1>4, <1>5, <1>6, <1>7, CronAssumption DEF Bounded

-----------------------------------------------------------------------------
(* Type correctness.                                                       *)

\* What runs has been entered into the history, so a one-shot that ends well has, too.
RunsStarted ==
  \A j \in Jobs : InPhase(j, "run") /\ ~Kept(flight[j].row) => Occurrence(j) \in started

TypeInv == TypeOK /\ RunsStarted

LEMMA TypeInit == Init => TypeInv
<1> SUFFICES ASSUME Init PROVE TypeInv
  OBVIOUS
<1>1. Flying = {} /\ Running = {}
  BY DEF Init, Flying, Running
<1>2. Cardinality(Flying) = 0 /\ Cardinality(Running) = 0
  BY <1>1, FS_EmptySet
<1> QED
  BY <1>2, CronAssumption DEF Init, TypeOK, TypeInv, RunsStarted, InPhase

LEMMA TypeStep == TypeInv /\ [Next]_vars => TypeOK'
<1> SUFFICES ASSUME TypeOK, RunsStarted, [Next]_vars PROVE TypeOK'
  BY DEF TypeInv
<1> USE CronAssumption
<1>0. clock \in Nat /\ Bounded /\ flight \in Flights /\ strays \in [Jobs -> Nat]
      /\ repeats \in [Jobs -> Nat] /\ redone \in [Jobs -> Nat]
  BY DEF TypeOK, Bounded, Flights
<1>1. CASE Tock
  BY <1>1 DEF Tock, TypeOK, Flying, Running, history
<1>2. ASSUME NEW j \in Jobs, NEW once \in BOOLEAN, Add(j, once) PROVE TypeOK'
  BY <1>0, <1>2, AddedRowType DEF Add, TypeOK, Flying, Running, history
<1>3. ASSUME NEW j \in Jobs, RemoveJob(j) PROVE TypeOK'
  BY <1>3 DEF RemoveJob, TypeOK, Flying, Running, history
<1>4. ASSUME NEW e \in Editors, NEW j \in Jobs, NEW on \in BOOLEAN \cup {NULL},
             NEW s \in NewSchedules \cup {NULL}, EditReads(e, j, on, s)
      PROVE  TypeOK'
  <2>1. rows[j] \in Row
    BY <1>4 DEF EditReads, TypeOK
  <2>2. Patched(rows[j], on, s) \in Row
    BY <1>0, <2>1, PatchedType
  <2>3. [job |-> j, row |-> Patched(rows[j], on, s)] \in Pending
    BY <2>2 DEF Pending
  <2>4. edit' \in [Editors -> Pending \cup {NULL}] /\ edits' \in Nat
    BY <1>4, <2>3 DEF EditReads, TypeOK
  <2> QED
    BY <1>4, <2>4 DEF EditReads, TypeOK, Flying, Running, history
<1>5. ASSUME NEW e \in Editors, EditWrites(e) PROVE TypeOK'
  <2>1. edit[e] \in Pending
    BY <1>5 DEF EditWrites, TypeOK
  <2>2. edit[e].job \in Jobs /\ edit[e].row \in Row
    BY <2>1 DEF Pending
  <2>3. rows' \in [Jobs -> Row \cup {NULL}] /\ strays' \in [Jobs -> Nat]
    BY <1>0, <1>5, <2>2, UpdateType, StraysType DEF EditWrites, TypeOK
  <2>4. edit' \in [Editors -> Pending \cup {NULL}]
    BY <1>5 DEF EditWrites, TypeOK
  <2> QED
    BY <1>5, <2>3, <2>4 DEF EditWrites, TypeOK, Flying, Running
<1>6. ASSUME NEW batch \in SUBSET Jobs, Poll(batch) PROVE TypeOK'
  <2>1. \A j \in batch : rows[j] \in Row
    BY <1>6 DEF Poll, Due, TypeOK
  <2>2. \A j \in batch : [phase |-> "queued", row |-> rows[j]] \in Copy
    BY <2>1 DEF Copy
  <2>3. flight' \in Flights
    BY <1>6, <2>2 DEF Poll, Flights
  <2>4. Bounded'
    BY <1>6, PollBounded
  <2> QED
    BY <1>6, <2>3, <2>4 DEF Poll, TypeOK, Bounded, Flights, history
<1>7. ASSUME NEW j \in Jobs, LoopStep(j) \/ WriteFails(j) PROVE TypeOK'
  <2>0. flight[j] \in Copy
    BY <1>0, <1>7 DEF LoopStep, Start, RunEnds, RemoveOneShot, DisableReads, DisableWrites,
                      RescheduleAfterRun, WriteFails, InPhase, Flights
  <2>1. /\ flight[j].row \in Row /\ flight[j].row.sched \in Schedule
        /\ Occurrence(j) \in Jobs \X Nat
    BY <2>0 DEF Copy, Row, Occurrence
  <2>2. ASSUME NEW phase \in {"run", "ok", "failed"}, Goto(j, phase) PROVE flight' \in Flights
    <3>1. [flight[j] EXCEPT !.phase = phase] \in Copy
      BY <2>0 DEF Copy
    <3> QED
      BY <1>0, <2>2, <3>1 DEF Goto, Flights
  <2>3. Landed(j) => flight' \in Flights /\ Bounded'
    <3> SUFFICES ASSUME Landed(j) PROVE flight' \in Flights /\ Bounded'
      OBVIOUS
    <3>1. flight' \in Flights
      BY <1>0 DEF Landed, Flights
    <3>2. \A k \in Jobs : flight'[k] # NULL => flight[k] # NULL /\ flight'[k] = flight[k]
      BY <1>0 DEF Landed, Flights
    <3> QED
      BY <1>0, <3>1, <3>2, LandingBounded
  <2>4. CASE Start(j)
    <3>1. flight' \in Flights
      BY <2>2, <2>4 DEF Start
    <3>2. Bounded'
      BY <1>0, <2>4, StartBounded
    <3>3. repeats' \in [Jobs -> Nat] /\ strays' \in [Jobs -> Nat]
      <4>1. /\ (~Kept(flight[j].row) /\ Occurrence(j) \in started) \in BOOLEAN
            /\ (rows[j] = NULL \/ ~rows[j].enabled) \in BOOLEAN
        OBVIOUS
      <4>2. /\ Counted(repeats, j, ~Kept(flight[j].row) /\ Occurrence(j) \in started) \in [Jobs -> Nat]
            /\ Counted(strays, j, rows[j] = NULL \/ ~rows[j].enabled) \in [Jobs -> Nat]
        BY <1>0, <4>1, CountedType, Zenon
      <4> QED
        BY <2>4, <4>2 DEF Start
    <3>4. started' \subseteq Jobs \X Nat /\ done' \subseteq started'
      BY <2>1, <2>4 DEF Start, TypeOK
    <3> QED
      BY <2>4, <3>1, <3>2, <3>3, <3>4 DEF Start, TypeOK, Bounded, Flights
  <2>5. ASSUME NEW outcome \in {"ok", "failed"}, RunEnds(j, outcome) PROVE TypeOK'
    <3>1. /\ flight' \in Flights
          /\ \A k \in Jobs : flight'[k] # NULL =>
               flight[k] # NULL /\ (flight'[k].phase # "queued" => flight[k].phase # "queued")
      BY <1>0, <2>2, <2>5 DEF RunEnds, InPhase, Goto, Flights
    <3>2. Bounded'
      BY <1>0, <3>1, LandingBounded
    <3>3. redone' \in [Jobs -> Nat]
      BY <1>0, <2>5, CountedType DEF RunEnds
    <3>4. started' \subseteq Jobs \X Nat /\ done' \subseteq started'
      <4>1. OneShotEnds(j, outcome) => Occurrence(j) \in started
        BY <2>5 DEF RunEnds, RunsStarted, OneShotEnds, IsOneShot, Kept
      <4> QED
        BY <2>5, <4>1 DEF RunEnds, TypeOK
    <3> QED
      BY <2>5, <3>1, <3>2, <3>3, <3>4 DEF RunEnds, TypeOK, Bounded, Flights
  <2>6. CASE RemoveOneShot(j)
    BY <2>3, <2>6 DEF RemoveOneShot, TypeOK, Bounded, Flights, history
  <2>7. CASE DisableReads(j)
    <3>1. CASE rows[j] = NULL
      BY <2>3, <2>7, <3>1 DEF DisableReads, TypeOK, Bounded, Flights, history
    <3>2. CASE rows[j] # NULL
      <4>1. Patched(rows[j], FALSE, NULL) \in Row
        BY <1>0, <3>2, PatchedType DEF TypeOK
      <4>2. [phase |-> "disable", row |-> Patched(rows[j], FALSE, NULL)] \in Copy
        BY <4>1 DEF Copy
      <4>3. /\ flight' \in Flights
            /\ \A k \in Jobs : flight'[k] # NULL =>
                 flight[k] # NULL /\ (flight'[k].phase # "queued" => flight[k].phase # "queued")
        BY <1>0, <2>7, <3>2, <4>2 DEF DisableReads, InPhase, Flights
      <4>4. Bounded'
        BY <1>0, <4>3, LandingBounded
      <4> QED
        BY <2>7, <4>3, <4>4 DEF DisableReads, TypeOK, Bounded, Flights, history
    <3> QED
      BY <3>1, <3>2
  <2>8. CASE DisableWrites(j)
    <3>1. rows' \in [Jobs -> Row \cup {NULL}]
      BY <2>1, <2>8, UpdateType DEF DisableWrites, TypeOK
    <3> QED
      BY <2>3, <2>8, <3>1 DEF DisableWrites, TypeOK, Bounded, Flights, history
  <2>9. CASE RescheduleAfterRun(j)
    <3>1. ASSUME rows[j] # NULL PROVE Rescheduled(rows[j], flight[j].row.sched) \in Row
      BY <1>0, <2>1, <3>1, RescheduledType DEF TypeOK
    <3>2. rows' \in [Jobs -> Row \cup {NULL}]
      BY <2>9, <3>1 DEF RescheduleAfterRun, TypeOK
    <3> QED
      BY <2>3, <2>9, <3>2 DEF RescheduleAfterRun, TypeOK, Bounded, Flights, history
  <2>10. CASE WriteFails(j)
    BY <2>3, <2>10 DEF WriteFails, Fault, TypeOK, Bounded, Flights, history
  <2> QED
    BY <1>7, <2>4, <2>5, <2>6, <2>7, <2>8, <2>9, <2>10 DEF LoopStep
<1>8. CASE CrashAndRestart
  <2>1. flight' \in Flights /\ \A k \in Jobs : flight'[k] = NULL
    BY <1>8 DEF CrashAndRestart, Flights
  <2>2. Bounded'
    BY <1>0, <2>1, LandingBounded
  <2> QED
    BY <1>8, <2>1, <2>2 DEF CrashAndRestart, Fault, TypeOK, Bounded, Flights, history
<1>9. CASE UNCHANGED vars
  BY <1>9 DEF vars, history, TypeOK, Flying, Running
<1> QED
  BY <1>1, <1>2, <1>3, <1>4, <1>5, <1>6, <1>7, <1>8, <1>9 DEF Next

LEMMA RunsStep == TypeInv /\ [Next]_vars => RunsStarted'
<1> SUFFICES ASSUME flight \in Flights, RunsStarted, [Next]_vars,
                    NEW j \in Jobs, InPhase(j, "run")', ~Kept(flight'[j].row)
             PROVE  Occurrence(j)' \in started'
  BY DEF TypeInv, TypeOK, RunsStarted, Flights
<1> USE DEF InPhase, Occurrence, RunsStarted, history
<1>1. CASE UNCHANGED <<flight, started>>
  BY <1>1
<1>2. CASE Tock \/ \E k \in Jobs : RemoveJob(k) \/ \E once \in BOOLEAN : Add(k, once)
  BY <1>1, <1>2 DEF Tock, Add, RemoveJob
<1>3. CASE \E e \in Editors, k \in Jobs, on \in BOOLEAN \cup {NULL}, s \in NewSchedules \cup {NULL} :
              EditReads(e, k, on, s)
  BY <1>1, <1>3 DEF EditReads
<1>4. CASE \E e \in Editors : EditWrites(e)
  BY <1>1, <1>4 DEF EditWrites
<1>5. CASE CrashAndRestart \/ \E batch \in SUBSET Jobs : Poll(batch)
  BY <1>5 DEF CrashAndRestart, Poll
<1>6. ASSUME NEW k \in Jobs, LoopStep(k) \/ WriteFails(k) PROVE Occurrence(j)' \in started'
  <2>1. CASE j # k
    <3>1. flight'[j] = flight[j] /\ started \subseteq started'
      BY <1>6, <2>1 DEF LoopStep, Start, RunEnds, RemoveOneShot, DisableReads, DisableWrites,
                        RescheduleAfterRun, WriteFails, Goto, Landed, Flights
    <3> QED
      BY <3>1
  <2>2. CASE Start(j)
    <3>1. flight'[j] = [flight[j] EXCEPT !.phase = "run"]
      BY <2>2 DEF Start, Goto, Flights
    <3>2. flight[j] \in Copy
      BY <2>2 DEF Start, Flights
    <3>3. flight'[j].row = flight[j].row
      BY <3>1, <3>2 DEF Copy
    <3> QED
      BY <2>2, <3>3 DEF Start
  <2>3. CASE j = k /\ ~Start(j)
    <3>1. ~Landed(j)
      BY DEF Landed, Flights
    <3>2. ASSUME NEW phase \in {"ok", "failed"}, Goto(j, phase), flight[j] # NULL PROVE FALSE
      <4>1. flight[j] \in Copy /\ flight'[j] = [flight[j] EXCEPT !.phase = phase]
        BY <3>2 DEF Goto, Flights
      <4>2. flight'[j].phase = phase
        BY <4>1 DEF Copy
      <4> QED
        BY <4>2
    <3>3. \A outcome \in {"ok", "failed"} : ~RunEnds(j, outcome)
      BY <3>2 DEF RunEnds
    <3>4. ~DisableReads(j)
      <4> DEFINE copy == [phase |-> "disable", row |-> Patched(rows[j], FALSE, NULL)]
      <4>1. copy.phase = "disable"
        OBVIOUS
      <4> HIDE DEF copy
      <4>2. flight' = [flight EXCEPT ![j] = copy] => flight'[j].phase = "disable"
        BY <4>1 DEF Flights
      <4> QED
        BY <3>1, <4>2 DEF DisableReads, copy
    <3> QED
      BY <1>6, <2>3, <3>1, <3>3, <3>4
      DEF LoopStep, RemoveOneShot, DisableWrites, RescheduleAfterRun, WriteFails
  <2> QED
    BY <2>1, <2>2, <2>3
<1>7. CASE UNCHANGED vars
  BY <1>1, <1>7 DEF vars
<1> QED
  BY <1>2, <1>3, <1>4, <1>5, <1>6, <1>7 DEF Next

\* Every reachable state is well typed: no batch is larger than max_tasks, no
\* more than max_concurrent jobs run at once, and nothing ends that was not
\* started.
THEOREM TypeCorrect == Spec => []TypeOK
<1>1. TypeInv /\ [Next]_vars => TypeInv'
  BY TypeStep, RunsStep DEF TypeInv
<1>2. TypeInv => TypeOK
  BY DEF TypeInv
<1> QED
  BY TypeInit, <1>1, <1>2, PTL DEF Spec

-----------------------------------------------------------------------------
(* A paused or removed job is started at most once more.  The one stray    *)
(* start uses up the loop's copy, and no batch takes the job up again      *)
(* before an edit has enabled it, which starts the count anew.             *)

Stopped(j) == rows[j] = NULL \/ ~rows[j].enabled

PauseInv ==
  /\ \A j \in Jobs : rows[j] # NULL \/ flight[j] # NULL \/ strays[j] # 0 => j \in used
  /\ \A j \in Jobs : \/ strays[j] = 0
                     \/ strays[j] = 1 /\ Stopped(j) /\ ~InPhase(j, "queued")
  /\ \A j \in Jobs : InPhase(j, "disable") => ~flight[j].row.enabled

LEMMA PauseInit == Init => PauseInv
BY DEF Init, PauseInv, InPhase

LEMMA PauseStep == TypeInv /\ PauseInv /\ [Next]_vars => PauseInv'
<1> SUFFICES ASSUME TypeOK, PauseInv, [Next]_vars PROVE PauseInv'
  BY DEF TypeInv
<1>0. /\ strays \in [Jobs -> Nat] /\ rows \in [Jobs -> Row \cup {NULL}]
      /\ flight \in Flights /\ used \subseteq Jobs
      /\ edit \in [Editors -> Pending \cup {NULL}]
  BY DEF TypeOK, Flights
<1> USE DEF PauseInv, Stopped, InPhase
<1>1. CASE UNCHANGED <<rows, used, flight, strays>>
  BY <1>1
<1>2. ASSUME NEW k \in Jobs, NEW once \in BOOLEAN, Add(k, once) PROVE PauseInv'
  <2>1. strays[k] = 0 /\ k \in used' /\ UNCHANGED <<flight, strays>>
    BY <1>2 DEF Add, history
  <2>2. \A j \in Jobs \ {k} : rows'[j] = rows[j] /\ (j \in used => j \in used')
    BY <1>0, <1>2 DEF Add
  <2> QED
    BY <2>1, <2>2
<1>3. ASSUME NEW k \in Jobs, RemoveJob(k) PROVE PauseInv'
  BY <1>0, <1>3 DEF RemoveJob, history
<1>4. ASSUME NEW e \in Editors, EditWrites(e) PROVE PauseInv'
  <2>1. edit[e] \in Pending
    BY <1>0, <1>4 DEF EditWrites
  <2> DEFINE k == edit[e].job
             row == edit[e].row
  <2>2. k \in Jobs /\ row \in Row
    BY <2>1 DEF Pending
  <2>3. /\ rows' = RowsAfterUpdate(k, row) /\ strays' = StraysAfterUpdate(k, row)
        /\ UNCHANGED <<flight, used>>
    BY <1>4 DEF EditWrites
  <2> HIDE DEF k, row
  <2>4. CASE rows[k] = NULL
    BY <2>3, <2>4 DEF RowsAfterUpdate, StraysAfterUpdate
  <2>5. CASE rows[k] # NULL
    <3>1. rows' = [rows EXCEPT ![k] = row] /\ k \in used
      BY <2>2, <2>3, <2>5 DEF RowsAfterUpdate
    <3>2. strays' = IF row.enabled THEN [strays EXCEPT ![k] = 0] ELSE strays
      BY <2>3, <2>5 DEF StraysAfterUpdate
    <3> QED
      BY <1>0, <2>2, <2>3, <3>1, <3>2
  <2> QED
    BY <2>4, <2>5
<1>5. ASSUME NEW batch \in SUBSET Jobs, Poll(batch) PROVE PauseInv'
  BY <1>0, <1>5 DEF Poll, Due, Flights, history
<1>6. ASSUME NEW k \in Jobs, LoopStep(k) \/ WriteFails(k) PROVE PauseInv'
  <2>1. k \in used /\ used' = used
    BY <1>6 DEF LoopStep, Start, RunEnds, RemoveOneShot, DisableReads, DisableWrites,
                RescheduleAfterRun, WriteFails
  <2>2. \A j \in Jobs \ {k} :
          rows'[j] = rows[j] /\ flight'[j] = flight[j] /\ strays'[j] = strays[j]
    BY <1>0, <1>6 DEF LoopStep, Start, RunEnds, RemoveOneShot, DisableReads, DisableWrites,
                      RescheduleAfterRun, WriteFails, RowsAfterUpdate, Goto, Landed, Counted,
                      Flights, history
  <2>3. ASSUME NEW phase \in {"run", "ok", "failed"}, flight[k] # NULL, Goto(k, phase)
        PROVE  flight'[k].phase = phase
    <3>1. flight[k] \in Copy /\ flight'[k] = [flight[k] EXCEPT !.phase = phase]
      BY <1>0, <2>3 DEF Goto, Flights
    <3> QED
      BY <3>1 DEF Copy
  <2>4. Landed(k) => flight'[k] = NULL
    BY <1>0 DEF Landed, Flights
  <2>5. /\ \/ strays'[k] = 0
           \/ strays'[k] = 1 /\ Stopped(k)' /\ ~InPhase(k, "queued")'
        /\ InPhase(k, "disable")' => ~flight'[k].row.enabled
    <3>1. CASE Start(k)
      <4>1. strays[k] = 0 /\ rows' = rows /\ flight'[k].phase = "run"
        BY <2>3, <3>1 DEF Start
      <4>2. strays' = IF Stopped(k) THEN [strays EXCEPT ![k] = @ + 1] ELSE strays
        BY <3>1 DEF Start, Counted
      <4> QED
        BY <1>0, <4>1, <4>2
    <3>2. ASSUME NEW outcome \in {"ok", "failed"}, RunEnds(k, outcome)
          PROVE  /\ UNCHANGED <<strays, rows>> /\ flight'[k].phase = outcome
      BY <2>3, <3>2 DEF RunEnds
    <3>3. CASE RemoveOneShot(k) \/ WriteFails(k)
      BY <1>0, <2>4, <3>3 DEF RemoveOneShot, WriteFails, history
    <3>4. CASE DisableReads(k)
      <4>1. UNCHANGED <<strays, rows>>
        BY <3>4 DEF DisableReads, history
      <4>2. CASE rows[k] = NULL
        BY <2>4, <3>4, <4>1, <4>2 DEF DisableReads
      <4>3. CASE rows[k] # NULL
        <5> DEFINE row == Patched(rows[k], FALSE, NULL)
        <5>1. rows[k] \in Row /\ row.enabled = FALSE
          BY <1>0, <4>3, CronAssumption DEF Patched, Row
        <5>2. flight' = [flight EXCEPT ![k] = [phase |-> "disable", row |-> row]]
          BY <3>4, <4>3 DEF DisableReads
        <5> HIDE DEF row
        <5>3. flight'[k].phase = "disable" /\ flight'[k].row = row
          BY <1>0, <5>2 DEF Flights
        <5> QED
          BY <4>1, <5>1, <5>3
      <4> QED
        BY <4>2, <4>3
    <3>5. CASE DisableWrites(k)
      <4>1. ~flight[k].row.enabled /\ flight'[k] = NULL /\ strays' = strays
        BY <2>4, <3>5 DEF DisableWrites, history
      <4>2. Stopped(k)'
        BY <1>0, <3>5, <4>1 DEF DisableWrites, RowsAfterUpdate
      <4> QED
        BY <4>1, <4>2
    <3>6. CASE RescheduleAfterRun(k)
      <4>1. flight'[k] = NULL /\ strays' = strays
        BY <2>4, <3>6 DEF RescheduleAfterRun, history
      <4>2. ASSUME NEW row \in Row, NEW s PROVE Rescheduled(row, s).enabled = row.enabled
        BY DEF Rescheduled, Row
      <4>3. Stopped(k) => Stopped(k)'
        BY <1>0, <3>6, <4>2 DEF RescheduleAfterRun
      <4> QED
        BY <4>1, <4>3
    <3> QED
      BY <1>6, <3>1, <3>2, <3>3, <3>4, <3>5, <3>6 DEF LoopStep
  <2> QED
    BY <2>1, <2>2, <2>5
<1>7. CASE CrashAndRestart
  BY <1>0, <1>7 DEF CrashAndRestart, history
<1>8. CASE Tock \/ UNCHANGED vars
  BY <1>1, <1>8 DEF Tock, vars, history
<1>9. CASE \E e \in Editors, k \in Jobs, on \in BOOLEAN \cup {NULL}, s \in NewSchedules \cup {NULL} :
              EditReads(e, k, on, s)
  BY <1>1, <1>9 DEF EditReads, history
<1> QED
  BY <1>2, <1>3, <1>4, <1>5, <1>6, <1>7, <1>8, <1>9 DEF Next

\* A job that is paused or removed while a batch waits is started at most once
\* more, however edits, results and crashes interleave with the loop.
THEOREM PauseCorrect == Spec => []StopsAfterPause
<1>1. TypeInv /\ PauseInv => StopsAfterPause
  BY DEF TypeInv, TypeOK, PauseInv, StopsAfterPause
<1>2. TypeInv /\ [Next]_vars => TypeInv'
  BY TypeStep, RunsStep DEF TypeInv
<1> QED
  BY TypeInit, PauseInit, <1>1, <1>2, PauseStep, PTL DEF Spec

\* Bounded batches, and at most one stray start, for any jobs and editors.
THEOREM PauseSafeCorrect == Spec => []PauseSafe
<1>1. TypeOK /\ StopsAfterPause => PauseSafe
  BY DEF PauseSafe
<1> QED
  BY <1>1, TypeCorrect, PauseCorrect, PTL
-----------------------------------------------------------------------------
(* Repetitions are paid for.  A run is repeated when the loop starts an     *)
(* occurrence that has been started, or a one-shot that has ended well.     *)
(* Such a start is loaded beforehand: by an edit that writes an old         *)
(* next_run back, or by a result that is not written.  The invariants       *)
(* charge a start when it is loaded, and an edit from the moment it reads.  *)

\* What has been started, or waits in a batch, is past.
StartsPast ==
  /\ \A j \in Jobs, t \in Nat : <<j, t>> \in started => t <= clock /\ j \in used
  /\ \A j \in Jobs : InPhase(j, "queued") => flight[j].row.next <= clock

\* The next start of j is a repetition, or will be: a kept "at" that runs while an
\* edit gives the row another schedule writes its old instant back.
Stale(j) ==
  IF flight[j] = NULL
  THEN rows[j] # NULL /\ rows[j].enabled /\ ~Kept(rows[j]) /\ <<j, rows[j].next>> \in started
  ELSE \/ InPhase(j, "queued") /\ ~Kept(flight[j].row) /\ Occurrence(j) \in started
       \/ ~InPhase(j, "disable") /\ Kept(flight[j].row) /\ rows[j] # NULL /\ ~Kept(rows[j])

Unwritten(j) == {e \in Editors : edit[e] # NULL /\ edit[e].job = j}

Owed(condition) == IF condition THEN 1 ELSE 0

RepeatsPaid ==
  \A j \in Jobs :
    /\ IsFiniteSet(Unwritten(j))
    /\ repeats[j] + Cardinality(Unwritten(j)) + Owed(Stale(j)) <= edits + faults

\* A one-shot has ended well and is not about to be removed.
Surviving(j) ==
  /\ \E t \in Nat : <<j, t>> \in done
  /\ rows[j] # NULL \/ flight[j] # NULL
  /\ ~(InPhase(j, "ok") /\ IsOneShot(flight[j].row))

RedoPaid == \A j \in Jobs : redone[j] + Owed(Surviving(j)) <= faults

\* The multiple of t after now.
LEMMA NextMultiple ==
  ASSUME NEW now \in Nat, NEW t \in Nat \ {0}
  PROVE  ((now \div t) + 1) * t > now
<1> DEFINE q == now \div t
<1>1. q \in Int /\ now % t \in 0..(t - 1) /\ now = t * q + (now % t)
  OBVIOUS
<1> HIDE DEF q
<1>2. (q + 1) * t = t * q + t /\ t * q \in Int
  BY <1>1
<1> QED
  BY <1>1, <1>2 DEF q

\* Every schedule but an "at" moves on from the present.
LEMMA NextRunLater ==
  ASSUME NEW s \in Schedule, NEW now \in Nat, s.kind # "at"
  PROVE  NextRun(s, now) > now
<1>1. s.t \in Nat \ {0} /\ s.kind \in {"every", "cron"}
  BY DEF Schedule
<1>2. now + s.t > now
  BY <1>1
<1>3. ((now \div s.t) + 1) * s.t > now
  BY <1>1, NextMultiple
<1> QED
  BY <1>1, <1>2, <1>3 DEF NextRun

\* A copy that goes on keeps its row.
LEMMA GotoCopy ==
  ASSUME NEW j \in Jobs, NEW phase, flight \in Flights, flight[j] # NULL, Goto(j, phase)
  PROVE  /\ flight'[j] # NULL => flight'[j].row = flight[j].row
         /\ flight'[j] = [phase |-> phase, row |-> flight[j].row]
         /\ \A k \in Jobs \ {j} : flight'[k] = flight[k]
<1>1. flight[j] \in Copy /\ flight'[j] = [flight[j] EXCEPT !.phase = phase]
  BY DEF Goto, Flights
<1>2. PICK p, r : flight[j] = [phase |-> p, row |-> r]
  BY <1>1 DEF Copy
<1>3. flight'[j] = [phase |-> phase, row |-> flight[j].row]
  BY <1>1, <1>2
<1> QED
  BY <1>3 DEF Goto, Flights

\* One loop step moves its own job only.
LEMMA OthersStay ==
  ASSUME NEW k \in Jobs, LoopStep(k) \/ WriteFails(k), TypeOK,
         NEW j \in Jobs, j # k
  PROVE  /\ rows'[j] = rows[j] /\ flight'[j] = flight[j]
         /\ repeats'[j] = repeats[j] /\ redone'[j] = redone[j]
         /\ \A t \in Nat : <<j, t>> \in started' <=> <<j, t>> \in started
         /\ \A t \in Nat : <<j, t>> \in done' <=> <<j, t>> \in done
         /\ UNCHANGED <<edit, edits, clock, used>>
<1>1. /\ rows'[j] = rows[j] /\ flight'[j] = flight[j]
      /\ repeats'[j] = repeats[j] /\ redone'[j] = redone[j]
      /\ UNCHANGED <<edit, edits, clock, used>>
  BY DEF LoopStep, Start, RunEnds, RemoveOneShot, DisableReads, DisableWrites,
         RescheduleAfterRun, WriteFails, RowsAfterUpdate, Goto, Landed, Counted,
         Flights, history, TypeOK
<1>2. \A t \in Nat : <<j, t>> # Occurrence(k)
  BY DEF Occurrence
<1>3. /\ started' = started \/ started' = started \cup {Occurrence(k)}
      /\ done' = done \/ done' = done \cup {Occurrence(k)}
  BY DEF LoopStep, Start, RunEnds, RemoveOneShot, DisableReads, DisableWrites,
         RescheduleAfterRun, WriteFails, history
<1> QED
  BY <1>1, <1>2, <1>3

\* A batch holds jobs that are due, and the clock does not go back.
LEMMA PastStep == TypeInv /\ PauseInv /\ StartsPast /\ [Next]_vars => StartsPast'
<1> SUFFICES ASSUME TypeOK, PauseInv, StartsPast, [Next]_vars PROVE StartsPast'
  BY DEF TypeInv
<1>0. /\ rows \in [Jobs -> Row \cup {NULL}] /\ flight \in Flights
      /\ clock \in Nat /\ clock' \in Nat /\ clock <= clock'
      /\ used \subseteq used'
  <2>1. clock' = clock \/ clock' = clock + 1
    BY DEF Next, vars, history, Tock, Add, RemoveJob, EditReads, EditWrites, Poll, LoopStep,
           Start, RunEnds, RemoveOneShot, DisableReads, DisableWrites, RescheduleAfterRun,
           WriteFails, CrashAndRestart
  <2>2. used' = used \/ \E k \in Jobs : used' = used \cup {k}
    BY DEF Next, vars, history, Tock, Add, RemoveJob, EditReads, EditWrites, Poll, LoopStep,
           Start, RunEnds, RemoveOneShot, DisableReads, DisableWrites, RescheduleAfterRun,
           WriteFails, CrashAndRestart
  <2>3. clock \in Nat
    BY CronAssumption DEF TypeOK
  <2> QED
    BY <2>1, <2>2, <2>3 DEF TypeOK, Flights
<1>a. ASSUME started' = started, \A j \in Jobs : flight'[j] = NULL \/ flight'[j] = flight[j]
      PROVE  StartsPast'
  <2>1. \A j \in Jobs : InPhase(j, "queued") =>
          flight[j].row.next \in Nat /\ flight[j].row.next <= clock
    BY <1>0 DEF StartsPast, InPhase, Flights, Copy, Row
  <2>2. \A j \in Jobs, t \in Nat : <<j, t>> \in started => t <= clock /\ j \in used
    BY DEF StartsPast
  <2> QED
    BY <1>0, <1>a, <2>1, <2>2 DEF StartsPast, InPhase
<1>1. CASE UNCHANGED <<flight, started>>
  BY <1>1, <1>a
<1>2. CASE Tock \/ UNCHANGED vars \/ \E k \in Jobs : RemoveJob(k) \/ \E once \in BOOLEAN : Add(k, once)
  BY <1>1, <1>2 DEF Tock, Add, RemoveJob, vars, history
<1>3. CASE \E e \in Editors, k \in Jobs, on \in BOOLEAN \cup {NULL}, s \in NewSchedules \cup {NULL} :
              EditReads(e, k, on, s)
  BY <1>1, <1>3 DEF EditReads, history
<1>4. CASE \E e \in Editors : EditWrites(e)
  BY <1>1, <1>4 DEF EditWrites
<1>5. CASE CrashAndRestart
  BY <1>0, <1>5, <1>a DEF CrashAndRestart, history
<1>6. ASSUME NEW batch \in SUBSET Jobs, Poll(batch) PROVE StartsPast'
  <2>1. UNCHANGED <<clock, started, used>>
    BY <1>6 DEF Poll, history
  <2>2. \A j \in batch : rows[j].next <= clock
    BY <1>6 DEF Poll, Due
  <2>3. \A j \in Jobs : flight'[j] = IF j \in batch THEN [phase |-> "queued", row |-> rows[j]]
                                     ELSE NULL
    BY <1>6 DEF Poll
  <2>4. \A j \in Jobs : InPhase(j, "queued")' => flight'[j].row.next <= clock
    <3> SUFFICES ASSUME NEW j \in Jobs, flight'[j] # NULL
                 PROVE  flight'[j].row.next <= clock
      BY DEF InPhase
    <3>1. j \in batch /\ flight'[j] = [phase |-> "queued", row |-> rows[j]]
      BY <2>3
    <3>2. flight'[j].row = rows[j]
      BY <3>1
    <3> QED
      BY <2>2, <3>1, <3>2
  <2> QED
    BY <2>1, <2>4 DEF StartsPast
<1>7. ASSUME NEW k \in Jobs, LoopStep(k) \/ WriteFails(k) PROVE StartsPast'
  <2>1. flight[k] # NULL /\ flight[k] \in Copy /\ UNCHANGED <<clock, used>>
    BY <1>0, <1>7 DEF LoopStep, Start, RunEnds, RemoveOneShot, DisableReads, DisableWrites,
                      RescheduleAfterRun, WriteFails, InPhase, Flights
  <2>2. \A j \in Jobs \ {k} : flight'[j] = flight[j]
    BY <1>7, OthersStay
  <2>g. ASSUME NEW phase, Goto(k, phase) PROVE flight'[k].phase = phase
    <3>1. flight'[k] = [phase |-> phase, row |-> flight[k].row]
      BY <1>0, <2>1, <2>g, GotoCopy
    <3> QED
      BY <3>1
  <2>3. CASE Start(k)
    <3>1. flight'[k].phase = "run"
      BY <2>3, <2>g DEF Start
    <3>2. \A j \in Jobs : InPhase(j, "queued")' => flight'[j] = flight[j]
      BY <2>2, <3>1 DEF InPhase
    <3>3. started' = started \/ started' = started \cup {<<k, flight[k].row.next>>}
      BY <2>3 DEF Start, Occurrence
    <3>4. flight[k].row.next <= clock /\ k \in used
      BY <2>3 DEF Start, StartsPast, PauseInv, InPhase
    <3> QED
      BY <2>1, <3>2, <3>3, <3>4 DEF StartsPast, InPhase
  <2>4. CASE started' = started /\ ~InPhase(k, "queued")'
    BY <2>1, <2>2, <2>4 DEF StartsPast, InPhase
  <2>5. ASSUME NEW outcome \in {"ok", "failed"}, RunEnds(k, outcome) PROVE StartsPast'
    <3>1. flight'[k].phase = outcome
      BY <2>5, <2>g DEF RunEnds
    <3> QED
      BY <2>4, <2>5, <3>1 DEF RunEnds, InPhase
  <2>6. CASE Landed(k) /\ started' = started
    BY <1>0, <2>4, <2>6 DEF Landed, InPhase, Flights
  <2>7. CASE DisableReads(k)
    <3> DEFINE row == Patched(rows[k], FALSE, NULL)
    <3>1. Landed(k) \/ flight' = [flight EXCEPT ![k] = [phase |-> "disable", row |-> row]]
      BY <2>7 DEF DisableReads
    <3> HIDE DEF row
    <3>2. started' = started
      BY <2>7 DEF DisableReads, history
    <3> QED
      BY <1>0, <2>4, <2>6, <3>1, <3>2 DEF InPhase, Flights
  <2> QED
    BY <1>7, <2>3, <2>5, <2>6, <2>7
    DEF LoopStep, RemoveOneShot, DisableWrites, RescheduleAfterRun, WriteFails, history
<1> QED
  BY <1>2, <1>3, <1>4, <1>5, <1>6, <1>7 DEF Next

\* What an edit adds to or takes from its job's unwritten edits.
LEMMA UnwrittenChange ==
  ASSUME NEW j \in Jobs, IsFiniteSet(Unwritten(j)),
         NEW e \in Editors, \A f \in Editors \ {e} : edit'[f] = edit[f]
  PROVE  /\ IsFiniteSet(Unwritten(j)')
         /\ Cardinality(Unwritten(j)) \in Nat /\ Cardinality(Unwritten(j)') \in Nat
         /\ Cardinality(Unwritten(j)') <= Cardinality(Unwritten(j)) + 1
         /\ e \notin Unwritten(j)' => Cardinality(Unwritten(j)') <= Cardinality(Unwritten(j))
         /\ e \in Unwritten(j) /\ e \notin Unwritten(j)' =>
              Cardinality(Unwritten(j)') = Cardinality(Unwritten(j)) - 1
<1> DEFINE U == Unwritten(j)
           V == Unwritten(j)'
<1>1. V \in {U \cup {e}, U \ {e}}
  <2>1. \A f \in Editors \ {e} : f \in U <=> f \in V
    BY DEF Unwritten
  <2>2. U \subseteq Editors /\ V \subseteq Editors
    BY DEF Unwritten
  <2> HIDE DEF U, V
  <2>3. CASE e \in V
    <3>1. V = U \cup {e}
      BY <2>1, <2>2, <2>3
    <3> QED
      BY <3>1
  <2>4. CASE e \notin V
    <3>1. V = U \ {e}
      BY <2>1, <2>2, <2>4
    <3> QED
      BY <3>1
  <2> QED
    BY <2>3, <2>4
<1>2. IsFiniteSet(U)
  OBVIOUS
<1> HIDE DEF U, V
<1>3. Cardinality(U) \in Nat
  BY <1>2, FS_CardinalityType
<1>4. CASE V = U \cup {e}
  <2>1. IsFiniteSet(V) /\ (Cardinality(V) = Cardinality(U) \/ Cardinality(V) = Cardinality(U) + 1)
    BY <1>2, <1>4, FS_AddElement
  <2>2. e \in V
    BY <1>4
  <2>3. Cardinality(V) \in Nat /\ Cardinality(V) <= Cardinality(U) + 1
    BY <1>3, <2>1
  <2> QED
    BY <1>3, <2>1, <2>2, <2>3 DEF U, V
<1>5. CASE V = U \ {e}
  <2>1. IsFiniteSet(V)
    BY <1>2, <1>5, FS_RemoveElement
  <2>2. e \in U => Cardinality(V) = Cardinality(U) - 1
    BY <1>2, <1>5, FS_RemoveElement
  <2>3. e \notin U => V = U
    BY <1>5
  <2>4. e \notin V
    BY <1>5
  <2>5. Cardinality(V) \in Nat
    BY <2>1, FS_CardinalityType
  <2>6. Cardinality(V) <= Cardinality(U)
    BY <1>3, <2>2, <2>3
  <2>7. Cardinality(V) <= Cardinality(U) + 1
    BY <1>3, <2>5, <2>6
  <2> QED
    BY <1>3, <2>1, <2>2, <2>4, <2>5, <2>6, <2>7 DEF U, V
<1> QED
  BY <1>1, <1>4, <1>5

\* Loading a start costs an edit that has been read or a fault, and the start
\* uses the load up.
LEMMA RepeatsStep ==
  TypeInv /\ PauseInv /\ StartsPast /\ RepeatsPaid /\ [Next]_vars => RepeatsPaid'
<1> SUFFICES ASSUME TypeOK, PauseInv, StartsPast, RepeatsPaid, [Next]_vars,
                    NEW j \in Jobs
             PROVE  /\ IsFiniteSet(Unwritten(j)')
                    /\ repeats'[j] + Cardinality(Unwritten(j)') + Owed(Stale(j)')
                         <= edits' + faults'
  BY DEF TypeInv, RepeatsPaid, Owed
<1> DEFINE U == Unwritten(j)
           Now == Stale(j)
           Later == Stale(j)'
           F == flight[j]
<1>0. /\ rows \in [Jobs -> Row \cup {NULL}] /\ flight \in Flights
      /\ edit \in [Editors -> Pending \cup {NULL}]
      /\ clock \in Nat /\ repeats \in [Jobs -> Nat] /\ edits \in Nat /\ faults \in Nat
  BY CronAssumption DEF TypeOK, Flights
<1>1. IsFiniteSet(U) /\ Cardinality(U) \in Nat
  BY FS_CardinalityType DEF RepeatsPaid
<1>2. /\ repeats[j] + Cardinality(U) + Owed(Now) <= edits + faults
      /\ repeats[j] \in Nat
  BY <1>0 DEF RepeatsPaid
<1>3. Owed(Now) \in {0, 1} /\ Owed(Later) \in {0, 1} /\ (~Later => Owed(Later) = 0)
      /\ (Now => Owed(Now) = 1)
  BY DEF Owed
<1>4. ASSUME UNCHANGED <<edit, edits, faults>>, repeats'[j] = repeats[j], Later => Now
      PROVE  /\ IsFiniteSet(U')
             /\ repeats'[j] + Cardinality(U') + Owed(Later) <= edits' + faults'
  <2>1. U' = U
    BY <1>4 DEF Unwritten
  <2>2. Owed(Later) <= Owed(Now)
    BY <1>3, <1>4
  <2> HIDE DEF U, Now, Later
  <2> QED
    BY <1>0, <1>1, <1>2, <1>3, <1>4, <2>1, <2>2
<1>5. ASSUME UNCHANGED <<rows, flight, started>> PROVE Later <=> Now
  BY <1>5 DEF Stale, InPhase, Occurrence
<1>6. CASE Tock \/ UNCHANGED vars
  BY <1>4, <1>5, <1>6 DEF Tock, vars, history
<1>7. ASSUME NEW k \in Jobs, NEW once \in BOOLEAN, Add(k, once)
      PROVE  /\ IsFiniteSet(U')
             /\ repeats'[j] + Cardinality(U') + Owed(Later) <= edits' + faults'
  <2>1. UNCHANGED <<edit, edits, faults, repeats, flight, started>>
    BY <1>7 DEF Add, history
  <2>2. CASE j = k
    <3>1. F = NULL /\ \A t \in Nat : <<j, t>> \notin started
      BY <1>7, <2>2 DEF Add, PauseInv, StartsPast
    <3>2. rows'[j] = AddedRow(j, once) /\ AddedRow(j, once) \in Row
      BY <1>0, <1>7, <2>2, AddedRowType DEF Add
    <3>3. rows'[j].next \in Nat
      BY <3>2 DEF Row
    <3>4. ~Later
      BY <2>1, <3>1, <3>3 DEF Stale
    <3> QED
      BY <1>4, <2>1, <3>4
  <2>3. CASE j # k
    <3>1. rows'[j] = rows[j]
      BY <1>0, <1>7, <2>3 DEF Add
    <3>2. Later => Now
      BY <2>1, <3>1 DEF Stale, InPhase, Occurrence
    <3> QED
      BY <1>4, <2>1, <3>2
  <2> QED
    BY <2>2, <2>3
<1>8. ASSUME NEW k \in Jobs, RemoveJob(k)
      PROVE  /\ IsFiniteSet(U')
             /\ repeats'[j] + Cardinality(U') + Owed(Later) <= edits' + faults'
  <2>1. UNCHANGED <<edit, edits, faults, repeats, flight, started>>
    BY <1>8 DEF RemoveJob, history
  <2>2. rows'[j] = rows[j] \/ rows'[j] = NULL
    BY <1>0, <1>8 DEF RemoveJob
  <2>3. Later => Now
    BY <2>1, <2>2 DEF Stale, InPhase, Occurrence
  <2> QED
    BY <1>4, <2>1, <2>3
<1>9. ASSUME NEW e \in Editors, NEW k \in Jobs, NEW on \in BOOLEAN \cup {NULL},
             NEW s \in NewSchedules \cup {NULL}, EditReads(e, k, on, s)
      PROVE  /\ IsFiniteSet(U')
             /\ repeats'[j] + Cardinality(U') + Owed(Later) <= edits' + faults'
  <2>1. /\ UNCHANGED <<rows, faults, repeats, flight, started>> /\ edits' = edits + 1
        /\ \A f \in Editors \ {e} : edit'[f] = edit[f]
    BY <1>0, <1>9 DEF EditReads, history
  <2>2. IsFiniteSet(U') /\ Cardinality(U') \in Nat /\ Cardinality(U') <= Cardinality(U) + 1
    BY <1>1, <2>1, UnwrittenChange
  <2>3. Owed(Later) <= Owed(Now)
    BY <1>3, <1>5, <2>1
  <2> HIDE DEF U, Now, Later
  <2> QED
    BY <1>0, <1>1, <1>2, <1>3, <2>1, <2>2, <2>3
<1>10. ASSUME NEW e \in Editors, EditWrites(e)
       PROVE  /\ IsFiniteSet(U')
              /\ repeats'[j] + Cardinality(U') + Owed(Later) <= edits' + faults'
  <2>1. /\ UNCHANGED <<edits, faults, repeats, flight, started>>
        /\ \A f \in Editors \ {e} : edit'[f] = edit[f]
        /\ edit'[e] = NULL /\ edit[e] # NULL
    BY <1>0, <1>10 DEF EditWrites
  <2>2. e \notin U'
    BY <2>1 DEF Unwritten
  <2>3. /\ IsFiniteSet(U') /\ Cardinality(U') \in Nat /\ Cardinality(U') <= Cardinality(U)
        /\ e \in U => Cardinality(U') = Cardinality(U) - 1
    BY <1>1, <2>1, <2>2, UnwrittenChange
  <2>4. CASE edit[e].job = j
    <3>1. e \in U
      BY <2>1, <2>4 DEF Unwritten
    <3> HIDE DEF U, Now, Later
    <3> QED
      BY <1>0, <1>1, <1>2, <1>3, <2>1, <2>3, <3>1
  <2>5. CASE edit[e].job # j
    <3>1. rows'[j] = rows[j]
      BY <1>0, <1>10, <2>5 DEF EditWrites, RowsAfterUpdate
    <3>2. Later => Now
      BY <2>1, <3>1 DEF Stale, InPhase, Occurrence
    <3>3. Owed(Later) <= Owed(Now)
      BY <1>3, <3>2
    <3> HIDE DEF U, Now, Later
    <3> QED
      BY <1>0, <1>1, <1>2, <1>3, <2>1, <2>3, <3>3
  <2> QED
    BY <2>4, <2>5
<1>11. ASSUME NEW batch \in SUBSET Jobs, Poll(batch)
       PROVE  /\ IsFiniteSet(U')
              /\ repeats'[j] + Cardinality(U') + Owed(Later) <= edits' + faults'
  <2>1. UNCHANGED <<rows, edit, edits, faults, repeats, started>> /\ F = NULL
    BY <1>11 DEF Poll, history, Flying
  <2>2. CASE j \in batch
    <3>1. flight'[j] = [phase |-> "queued", row |-> rows[j]] /\ rows[j] # NULL /\ rows[j].enabled
      BY <1>11, <2>2 DEF Poll, Due
    <3>2. flight'[j].row = rows[j]
      BY <3>1
    <3>3. Occurrence(j)' = <<j, rows[j].next>>
      BY <3>2 DEF Occurrence
    <3>4. ~Kept(rows[j]) /\ <<j, rows[j].next>> \in started' => Now
      BY <2>1, <3>1 DEF Stale
    <3>5. flight'[j] # NULL /\ Kept(flight'[j].row) = Kept(rows[j])
          /\ Kept(rows'[j]) = Kept(rows[j])
      <4>1. rows[j] \in Row
        BY <1>0, <3>1
      <4>2. flight'[j] \in Copy
        BY <3>1, <4>1 DEF Copy
      <4> QED
        BY <2>1, <3>2, <4>2, CronAssumption
    <3>6. Later => Now
      BY <3>3, <3>4, <3>5 DEF Stale
    <3> QED
      BY <1>4, <2>1, <3>6
  <2>3. CASE j \notin batch
    <3>1. flight'[j] = NULL
      BY <1>11, <2>3 DEF Poll
    <3>2. Later => Now
      BY <2>1, <3>1 DEF Stale
    <3> QED
      BY <1>4, <2>1, <3>2
  <2> QED
    BY <2>2, <2>3
<1>12. ASSUME NEW k \in Jobs, WriteFails(k) \/ CrashAndRestart
       PROVE  /\ IsFiniteSet(U')
              /\ repeats'[j] + Cardinality(U') + Owed(Later) <= edits' + faults'
  <2>1. UNCHANGED <<edits, repeats>> /\ faults' = faults + 1
    BY <1>12 DEF WriteFails, CrashAndRestart, Fault, history
  <2>2. IsFiniteSet(U') /\ Cardinality(U') \in Nat /\ Cardinality(U') <= Cardinality(U)
    <3>1. CASE edit' = edit
      <4>1. U' = U
        BY <3>1 DEF Unwritten
      <4> HIDE DEF U
      <4> QED
        BY <1>1, <4>1
    <3>2. CASE edit' = [e \in Editors |-> NULL]
      <4>1. U' = {}
        BY <3>2 DEF Unwritten
      <4> HIDE DEF U
      <4> QED
        BY <1>1, <4>1, FS_EmptySet
    <3> QED
      BY <1>12, <3>1, <3>2 DEF WriteFails, CrashAndRestart
  <2> HIDE DEF U, Now, Later
  <2> QED
    BY <1>0, <1>1, <1>2, <1>3, <2>1, <2>2
<1>13. ASSUME NEW k \in Jobs, LoopStep(k)
       PROVE  /\ IsFiniteSet(U')
              /\ repeats'[j] + Cardinality(U') + Owed(Later) <= edits' + faults'
  <2>1. UNCHANGED <<edit, edits, faults>> /\ flight[k] # NULL /\ flight[k] \in Copy
    BY <1>0, <1>13 DEF LoopStep, Start, RunEnds, RemoveOneShot, DisableReads, DisableWrites,
                       RescheduleAfterRun, InPhase, Flights
  <2>2. CASE j # k
    <3>1. /\ rows'[j] = rows[j] /\ flight'[j] = F /\ repeats'[j] = repeats[j]
          /\ \A t \in Nat : <<j, t>> \in started' <=> <<j, t>> \in started
      BY <1>13, <2>2, OthersStay
    <3>2. /\ rows[j] # NULL => rows[j].next \in Nat
          /\ F # NULL => F.row.next \in Nat
      BY <1>0 DEF Flights, Copy, Row
    <3>3. Later => Now
      BY <3>1, <3>2 DEF Stale, InPhase, Occurrence
    <3> QED
      BY <1>4, <2>1, <3>1, <3>3
  <2>3. CASE j = k /\ Start(j)
    <3>1. flight'[j] = [phase |-> "run", row |-> F.row]
      BY <1>0, <2>1, <2>3, GotoCopy DEF Start
    <3>2. flight'[j] # NULL /\ flight'[j].phase = "run"
      BY <2>1, <2>3, <3>1, CronAssumption DEF Copy
    <3>3. CASE Kept(F.row)
      <4>1. repeats' = repeats /\ rows' = rows
        BY <2>3, <3>3 DEF Start, Counted
      <4>2. flight'[j].row = F.row
        BY <3>1
      <4>3. Now <=> rows[j] # NULL /\ ~Kept(rows[j])
        BY <2>1, <2>3, <3>3 DEF Stale, Start, InPhase
      <4>4. Later => Now
        BY <3>2, <3>3, <4>1, <4>2, <4>3 DEF Stale, InPhase
      <4> QED
        BY <1>4, <2>1, <4>1, <4>4
    <3>4. CASE ~Kept(F.row)
      <4>1. flight'[j].row = F.row
        BY <3>1
      <4>2. ~Later
        BY <3>2, <3>4, <4>1 DEF Stale, InPhase
      <4>3. Now <=> Occurrence(j) \in started
        BY <2>1, <2>3, <3>4 DEF Stale, Start, InPhase
      <4>4. repeats'[j] = IF Occurrence(j) \in started THEN repeats[j] + 1 ELSE repeats[j]
        BY <1>0, <2>3, <3>4 DEF Start, Counted
      <4>5. repeats'[j] + 0 <= repeats[j] + Owed(Now) /\ repeats'[j] \in Nat
        BY <1>2, <1>3, <4>3, <4>4
      <4>6. U' = U
        BY <2>1 DEF Unwritten
      <4> HIDE DEF U, Now, Later
      <4> QED
        BY <1>0, <1>1, <1>2, <1>3, <2>1, <4>2, <4>5, <4>6
    <3> QED
      BY <3>3, <3>4
  <2>4. ASSUME j = k, repeats' = repeats, ~Later
        PROVE  /\ IsFiniteSet(U')
               /\ repeats'[j] + Cardinality(U') + Owed(Later) <= edits' + faults'
    BY <1>4, <2>1, <2>4
  <2>5. ASSUME NEW outcome \in {"ok", "failed"}, j = k, RunEnds(j, outcome)
        PROVE  repeats' = repeats /\ (Later => Now)
    <3>1. flight'[j] = [phase |-> outcome, row |-> F.row]
      BY <1>0, <2>1, <2>5, GotoCopy DEF RunEnds
    <3>2. flight'[j].phase = outcome
      BY <3>1
    <3>3. flight'[j] # NULL /\ flight'[j].row = F.row
      BY <2>1, <2>5, <3>1, CronAssumption DEF Copy
    <3>4. F.phase = "run" /\ UNCHANGED <<rows, repeats>>
      BY <2>5 DEF RunEnds, InPhase
    <3> QED
      BY <2>1, <2>5, <3>2, <3>3, <3>4 DEF Stale, InPhase
  <2>6. CASE j = k /\ RemoveOneShot(j)
    <3>1. rows'[j] = NULL /\ flight'[j] = NULL /\ repeats' = repeats
      BY <1>0, <2>6 DEF RemoveOneShot, Landed, Flights, history
    <3> QED
      BY <2>4, <2>6, <3>1 DEF Stale
  <2>7. CASE j = k /\ DisableReads(j)
    <3> DEFINE row == Patched(rows[j], FALSE, NULL)
    <3>1. repeats' = repeats /\ rows' = rows
      BY <2>7 DEF DisableReads, history
    <3>2. CASE rows[j] = NULL
      <4>1. flight'[j] = NULL
        BY <1>0, <2>7, <3>2 DEF DisableReads, Landed, Flights
      <4> QED
        BY <2>4, <2>7, <3>1, <3>2, <4>1 DEF Stale
    <3>3. CASE rows[j] # NULL
      <4>1. row \in Row
        BY <1>0, <3>3, PatchedType
      <4>2. flight' = [flight EXCEPT ![j] = [phase |-> "disable", row |-> row]]
        BY <2>7, <3>3 DEF DisableReads
      <4> HIDE DEF row
      <4>3. flight'[j] = [phase |-> "disable", row |-> row]
        BY <1>0, <4>2 DEF Flights
      <4>4. flight'[j] # NULL /\ flight'[j].phase = "disable"
        BY <4>1, <4>3, CronAssumption DEF Copy
      <4>5. ~Later
        BY <4>4 DEF Stale, InPhase
      <4> QED
        BY <2>4, <2>7, <3>1, <4>5
    <3> QED
      BY <3>2, <3>3
  <2>8. CASE j = k /\ DisableWrites(j)
    <3>1. repeats' = repeats /\ flight'[j] = NULL /\ ~F.row.enabled
      BY <1>0, <2>8 DEF DisableWrites, Landed, Flights, history, PauseInv
    <3>2. rows'[j] = NULL \/ rows'[j] = F.row
      BY <1>0, <2>8 DEF DisableWrites, RowsAfterUpdate
    <3>3. ~Later
      BY <3>1, <3>2 DEF Stale
    <3> QED
      BY <2>4, <2>8, <3>1, <3>3
  <2>9. CASE j = k /\ RescheduleAfterRun(j)
    <3> DEFINE s == F.row.sched
    <3>1. repeats' = repeats /\ started' = started /\ flight'[j] = NULL
      BY <1>0, <2>9 DEF RescheduleAfterRun, Landed, Flights, history
    <3>2. CASE rows[j] = NULL
      <4>1. rows'[j] = NULL
        BY <2>9, <3>2 DEF RescheduleAfterRun
      <4> QED
        BY <2>4, <2>9, <3>1, <4>1 DEF Stale
    <3>3. CASE rows[j] # NULL
      <4>1. PICK a, b, c, d : rows[j] = [sched |-> a, next |-> b, enabled |-> c, once |-> d]
        BY <1>0, <3>3 DEF Row
      <4>2. rows'[j] = Rescheduled(rows[j], s)
        BY <1>0, <2>9, <3>3 DEF RescheduleAfterRun
      <4>3. rows'[j].next = NextRun(s, clock) /\ (Kept(rows'[j]) <=> Kept(rows[j]))
        BY <4>1, <4>2 DEF Rescheduled, Kept
      <4>4. CASE Kept(F.row)
        <5>1. ~Kept(rows[j]) => Now
          BY <2>1, <2>9, <3>3, <4>4 DEF Stale, RescheduleAfterRun, InPhase
        <5>2. Later => Now
          BY <3>1, <4>3, <5>1 DEF Stale
        <5> QED
          BY <1>4, <2>1, <2>9, <3>1, <5>2
      <4>5. CASE ~Kept(F.row)
        <5>1. s \in Schedule /\ s.kind # "at"
          BY <2>1, <2>9, <4>5 DEF RescheduleAfterRun, IsOneShot, Kept, Copy, Row
        <5>2. NextRun(s, clock) > clock /\ NextRun(s, clock) \in Nat
          BY <1>0, <5>1, NextRunLater, NextRunType
        <5>3. <<j, rows'[j].next>> \notin started
          BY <1>0, <4>3, <5>2 DEF StartsPast
        <5>4. ~Later
          BY <3>1, <5>3 DEF Stale
        <5> QED
          BY <2>4, <2>9, <3>1, <5>4
      <4> QED
        BY <4>4, <4>5
    <3> QED
      BY <3>2, <3>3
  <2> HIDE DEF U, Now, Later
  <2>10. ASSUME NEW outcome \in {"ok", "failed"}, j = k, RunEnds(j, outcome)
         PROVE  /\ IsFiniteSet(U')
                /\ repeats'[j] + Cardinality(U') + Owed(Later) <= edits' + faults'
    BY <1>4, <2>1, <2>5, <2>10
  <2> QED
    BY <1>13, <2>2, <2>3, <2>6, <2>7, <2>8, <2>9, <2>10 DEF LoopStep
<1> HIDE DEF U, Now, Later
<1> QED
  BY <1>6, <1>7, <1>8, <1>9, <1>10, <1>11, <1>12, <1>13 DEF Next, U, Later

\* A one-shot that has ended well runs again only when its removal was lost.
LEMMA RedoStep ==
  TypeInv /\ PauseInv /\ StartsPast /\ RedoPaid /\ [Next]_vars => RedoPaid'
<1> SUFFICES ASSUME TypeOK, PauseInv, StartsPast, RedoPaid, [Next]_vars,
                    NEW j \in Jobs
             PROVE  redone'[j] + Owed(Surviving(j)') <= faults'
  BY DEF TypeInv, RedoPaid, Owed
<1> DEFINE Now == Surviving(j)
           Later == Surviving(j)'
           F == flight[j]
<1>0. /\ rows \in [Jobs -> Row \cup {NULL}] /\ flight \in Flights
      /\ redone \in [Jobs -> Nat] /\ faults \in Nat
  BY DEF TypeOK, Flights
<1>2. redone[j] + Owed(Now) <= faults /\ redone[j] \in Nat
  BY <1>0 DEF RedoPaid
<1>3. Owed(Now) \in {0, 1} /\ Owed(Later) \in {0, 1} /\ (~Later => Owed(Later) = 0)
      /\ (Now => Owed(Now) = 1)
  BY DEF Owed
<1>4. ASSUME faults' = faults, redone'[j] = redone[j], Later => Now
      PROVE  redone'[j] + Owed(Later) <= faults'
  <2>1. Owed(Later) <= Owed(Now)
    BY <1>3, <1>4
  <2> HIDE DEF Now, Later
  <2> QED
    BY <1>0, <1>2, <1>3, <1>4, <2>1
<1>5. ASSUME UNCHANGED <<flight, done>>, rows'[j] # NULL => rows[j] # NULL PROVE Later => Now
  BY <1>5 DEF Surviving, InPhase, IsOneShot
<1>6. CASE Tock \/ UNCHANGED vars
  BY <1>4, <1>5, <1>6 DEF Tock, vars, history
<1>7. ASSUME NEW k \in Jobs, NEW once \in BOOLEAN, Add(k, once) PROVE redone'[j] + Owed(Later) <= faults'
  <2>1. UNCHANGED <<faults, redone, flight, done>>
    BY <1>7 DEF Add, history
  <2>2. CASE j = k
    <3>1. \A t \in Nat : <<j, t>> \notin done
      BY <1>7, <2>2 DEF Add, StartsPast, TypeOK
    <3>2. ~Later
      BY <2>1, <3>1 DEF Surviving
    <3> QED
      BY <1>4, <2>1, <3>2
  <2>3. CASE j # k
    <3>1. rows'[j] = rows[j]
      BY <1>0, <1>7, <2>3 DEF Add
    <3> QED
      BY <1>4, <1>5, <2>1, <3>1
  <2> QED
    BY <2>2, <2>3
<1>8. ASSUME NEW k \in Jobs, RemoveJob(k) PROVE redone'[j] + Owed(Later) <= faults'
  <2>1. UNCHANGED <<faults, redone, flight, done>>
    BY <1>8 DEF RemoveJob, history
  <2>2. rows'[j] = rows[j] \/ rows'[j] = NULL
    BY <1>0, <1>8 DEF RemoveJob
  <2> QED
    BY <1>4, <1>5, <2>1, <2>2
<1>9. ASSUME NEW e \in Editors, NEW k \in Jobs, NEW on \in BOOLEAN \cup {NULL},
             NEW s \in NewSchedules \cup {NULL}, EditReads(e, k, on, s)
      PROVE  redone'[j] + Owed(Later) <= faults'
  BY <1>4, <1>5, <1>9 DEF EditReads, history
<1>10. ASSUME NEW e \in Editors, EditWrites(e) PROVE redone'[j] + Owed(Later) <= faults'
  <2>1. UNCHANGED <<faults, redone, flight, done>>
    BY <1>10 DEF EditWrites
  <2>2. rows'[j] # NULL => rows[j] # NULL
    BY <1>0, <1>10 DEF EditWrites, RowsAfterUpdate
  <2> QED
    BY <1>4, <1>5, <2>1, <2>2
<1>11. ASSUME NEW batch \in SUBSET Jobs, Poll(batch) PROVE redone'[j] + Owed(Later) <= faults'
  <2>1. UNCHANGED <<rows, faults, redone, done>> /\ F = NULL
    BY <1>11 DEF Poll, history, Flying
  <2>2. flight'[j] # NULL => rows[j] # NULL
    BY <1>11 DEF Poll, Due
  <2>3. Later => Now
    BY <2>1, <2>2 DEF Surviving, InPhase
  <2> QED
    BY <1>4, <2>1, <2>3
<1>12. CASE CrashAndRestart \/ \E k \in Jobs : WriteFails(k)
  <2>1. redone'[j] = redone[j] /\ faults' = faults + 1 /\ faults \in Nat
    BY <1>0, <1>12 DEF WriteFails, CrashAndRestart, Fault, history
  <2> DEFINE now == Owed(Now)
             later == Owed(Later)
  <2>2. redone[j] + now <= faults /\ redone[j] \in Nat /\ now \in {0, 1} /\ later \in {0, 1}
    BY <1>2, <1>3
  <2> HIDE DEF now, later
  <2>3. redone'[j] + later <= faults'
    BY <2>1, <2>2
  <2> QED
    BY <2>3 DEF later
<1>13. ASSUME NEW k \in Jobs, LoopStep(k) PROVE redone'[j] + Owed(Later) <= faults'
  <2>1. faults' = faults /\ flight[k] # NULL /\ flight[k] \in Copy
    BY <1>0, <1>13 DEF LoopStep, Start, RunEnds, RemoveOneShot, DisableReads, DisableWrites,
                       RescheduleAfterRun, InPhase, Flights
  <2>2. CASE j # k
    <3>1. /\ rows'[j] = rows[j] /\ flight'[j] = F /\ redone'[j] = redone[j]
          /\ \A t \in Nat : <<j, t>> \in done' <=> <<j, t>> \in done
      BY <1>13, <2>2, OthersStay
    <3>2. Later => Now
      BY <3>1 DEF Surviving, InPhase, IsOneShot
    <3> QED
      BY <1>4, <2>1, <3>1, <3>2
  <2>3. CASE j = k /\ Start(j)
    <3>1. F.phase = "queued" /\ redone' = redone /\ done' = done /\ F # NULL
      BY <2>1, <2>3 DEF Start, InPhase
    <3>2. Later => Now
      BY <3>1 DEF Surviving, InPhase
    <3> QED
      BY <1>4, <2>1, <3>1, <3>2
  <2>4. ASSUME j = k, RunEnds(j, "failed") PROVE redone'[j] + Owed(Later) <= faults'
    <3>1. F.phase = "run" /\ F # NULL /\ ~OneShotEnds(j, "failed")
      BY <2>4 DEF RunEnds, InPhase, OneShotEnds
    <3>2. redone' = redone /\ done' = done
      BY <1>0, <2>4, <3>1 DEF RunEnds, Counted
    <3>3. Later => Now
      BY <3>1, <3>2 DEF Surviving, InPhase
    <3> QED
      BY <1>4, <2>1, <3>2, <3>3
  <2>5. ASSUME j = k, RunEnds(j, "ok") PROVE redone'[j] + Owed(Later) <= faults'
    <3>1. F.phase = "run" /\ F # NULL /\ rows' = rows
      BY <2>5 DEF RunEnds, InPhase
    <3>2. flight'[j] = [phase |-> "ok", row |-> F.row]
      BY <1>0, <2>1, <2>5, GotoCopy DEF RunEnds
    <3>3. flight'[j] # NULL /\ flight'[j].phase = "ok" /\ flight'[j].row = F.row
      BY <2>1, <2>5, <3>2, CronAssumption DEF Copy
    <3>4. CASE OneShotEnds(j, "ok")
      <4>1. IsOneShot(F.row)
        BY <3>4 DEF OneShotEnds
      <4>2. InPhase(j, "ok")' /\ IsOneShot(flight'[j].row)
        BY <3>3, <4>1 DEF InPhase
      <4>3. ~Later
        BY <4>2 DEF Surviving
      <4>4. redone'[j] = IF Occurrence(j) \in done THEN redone[j] + 1 ELSE redone[j]
        BY <1>0, <2>5, <3>4 DEF RunEnds, Counted
      <4>5. Occurrence(j) \in done => Now
        <5>1. F.row.next \in Nat
          BY <2>1, <2>5 DEF Copy, Row
        <5> QED
          BY <3>1, <5>1 DEF Surviving, Occurrence, InPhase
      <4>6. redone'[j] <= redone[j] + Owed(Now) /\ redone'[j] \in Nat
        BY <1>2, <1>3, <4>4, <4>5
      <4> HIDE DEF Now, Later
      <4> QED
        BY <1>0, <1>2, <1>3, <2>1, <4>3, <4>6
    <3>5. CASE ~OneShotEnds(j, "ok")
      <4>1. redone' = redone /\ done' = done
        BY <1>0, <2>5, <3>5 DEF RunEnds, Counted
      <4>2. Later => Now
        BY <3>1, <4>1 DEF Surviving, InPhase
      <4> QED
        BY <1>4, <2>1, <4>1, <4>2
    <3> QED
      BY <3>4, <3>5
  <2>6. CASE j = k /\ RemoveOneShot(j)
    <3>1. rows'[j] = NULL /\ flight'[j] = NULL /\ redone' = redone
      BY <1>0, <2>6 DEF RemoveOneShot, Landed, Flights, history
    <3>2. ~Later
      BY <3>1 DEF Surviving
    <3> QED
      BY <1>4, <2>1, <3>1, <3>2
  <2>7. CASE j = k /\ (DisableReads(j) \/ DisableWrites(j) \/ RescheduleAfterRun(j))
    <3>1. /\ redone' = redone /\ done' = done
          /\ F # NULL /\ ~(InPhase(j, "ok") /\ IsOneShot(F.row))
      BY <2>1, <2>7 DEF DisableReads, DisableWrites, RescheduleAfterRun, InPhase, history
    <3>2. Later => Now
      BY <3>1 DEF Surviving
    <3> QED
      BY <1>4, <2>1, <3>1, <3>2
  <2> HIDE DEF Now, Later
  <2> QED
    BY <1>13, <2>2, <2>3, <2>4, <2>5, <2>6, <2>7 DEF LoopStep
<1> HIDE DEF Now, Later
<1> QED
  BY <1>6, <1>7, <1>8, <1>9, <1>10, <1>11, <1>12, <1>13 DEF Next, Later

LEMMA RunsInit == Init => StartsPast /\ RepeatsPaid /\ RedoPaid
<1> SUFFICES ASSUME Init PROVE StartsPast /\ RepeatsPaid /\ RedoPaid
  OBVIOUS
<1>1. ASSUME NEW j \in Jobs
      PROVE  /\ IsFiniteSet(Unwritten(j)) /\ Cardinality(Unwritten(j)) = 0
             /\ repeats[j] = 0 /\ redone[j] = 0 /\ ~Stale(j) /\ ~Surviving(j)
  <2>1. Unwritten(j) = {}
    BY DEF Init, Unwritten
  <2> QED
    BY <2>1, FS_EmptySet DEF Init, Stale, Surviving
<1>2. edits = 0 /\ faults = 0
  BY DEF Init
<1> QED
  BY <1>1, <1>2 DEF Init, StartsPast, RepeatsPaid, RedoPaid, Owed, InPhase

\* No occurrence of a row that moves on is started again, and no one-shot that is
\* deleted after its run ends well again, unless an edit, a lost result or a crash
\* pays for it, one repetition each; for any jobs, schedules, editors and slots.
THEOREM RunsCorrect == Spec => []RunsAccounted
<1> DEFINE Inv == TypeInv /\ PauseInv /\ StartsPast /\ RepeatsPaid /\ RedoPaid
<1>1. Init => Inv
  BY TypeInit, PauseInit, RunsInit
<1>2. Inv /\ [Next]_vars => Inv'
  <2>1. TypeInv /\ [Next]_vars => TypeInv'
    BY TypeStep, RunsStep DEF TypeInv
  <2> QED
    BY <2>1, PauseStep, PastStep, RepeatsStep, RedoStep
<1>3. Inv => RunsAccounted
  <2> SUFFICES ASSUME TypeOK, RepeatsPaid, RedoPaid, NEW j \in Jobs
               PROVE  repeats[j] <= edits + faults /\ redone[j] <= faults
    BY DEF TypeInv, RunsAccounted, OccurrenceOnce, OneShotOnce
  <2>1. repeats[j] \in Nat /\ redone[j] \in Nat /\ edits \in Nat /\ faults \in Nat
    BY DEF TypeOK
  <2>2. Cardinality(Unwritten(j)) \in Nat
    BY FS_CardinalityType DEF RepeatsPaid
  <2>3. Owed(Stale(j)) \in Nat /\ Owed(Surviving(j)) \in Nat
    BY DEF Owed
  <2> QED
    BY <2>1, <2>2, <2>3 DEF RepeatsPaid, RedoPaid
<1> QED
  BY <1>1, <1>2, <1>3, PTL DEF Spec
=============================================================================
