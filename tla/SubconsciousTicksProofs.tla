---------------------- MODULE SubconsciousTicksProofs ----------------------
(***************************************************************************)
(* Theorems about SubconsciousTicks, for any finite number of tasks, any    *)
(* interval between heartbeats and any bounds on edits, verdicts and time.  *)
(***************************************************************************)
EXTENDS SubconsciousTicks, FiniteSetTheorems, TLAPS

------------------------------------------------------------------------------
(* Rows and sequences *)

\* The ways to list a finite set.
LEMMA ListsOfSet ==
    ASSUME NEW S, IsFiniteSet(S), NEW s \in SetToSeqs(S) PROVE s \in Seq(S)
<1>1. s \in [1..Cardinality(S) -> S]
  BY DEF SetToSeqs
<1> QED
  BY <1>1, FS_CardinalityType

LEMMA EmptySeq == \A S : <<>> \in Seq(S)
OBVIOUS

\* What the model may answer is a sequence of tasks that were taken up.
LEMMA AnswersAreTasks ==
    ASSUME NEW S, NEW n \in Nat, NEW s \in SeqOf(S, n) PROVE s \in Seq(S)
<1>1. PICK m \in 0..n : s \in [1..m -> S]
  BY DEF SeqOf
<1> QED
  BY <1>1

LEMMA NewRow == ASSUME NEW r \in Recurrences PROVE New(r) \in Rows /\ New(r) # NULL
<1>1. New(r) \in Rows
  BY DEF New, Rows
<1> QED
  BY <1>1, TicksAssumption

\* A write by the engine changes the instant and the end of one row.
Rewrites(t, table) ==
    /\ table \in [Tasks -> Rows \cup {NULL}]
    /\ \A u \in Tasks \ {t} : table[u] = task[u]
    /\ task[t] = NULL <=> table[t] = NULL
    /\ task[t] # NULL =>
         /\ table[t].enabled = task[t].enabled /\ table[t].recur = task[t].recur
         /\ task[t].completed => table[t].completed

LEMMA WithRewrites ==
    ASSUME TypeOK, NEW t \in Tasks, NEW row,
           task[t] # NULL =>
             /\ row \in Rows
             /\ row.enabled = task[t].enabled /\ row.recur = task[t].recur
             /\ task[t].completed => row.completed
    PROVE  Rewrites(t, With(t, row))
BY TicksAssumption DEF TypeOK, With, Rewrites

LEMMA AdvancedRewrites ==
    ASSUME TypeOK, NEW t \in Tasks, NEW at \in Nat, copy[t] # NULL
    PROVE  Rewrites(t, Advanced(t, at))
<1> DEFINE next == CASE copy[t] = "once" -> task[t].next
                     [] copy[t] = "cron" -> clock + 1
                     [] copy[t] = "bad_cron" -> NULL
                     [] copy[t] = "pending" -> at + Interval
           row == [task[t] EXCEPT !.next = next]
<1>1. ASSUME task[t] # NULL
      PROVE  /\ row \in Rows
             /\ row.enabled = task[t].enabled /\ row.recur = task[t].recur
             /\ task[t].completed => row.completed
  <2>1. task[t] \in Rows
    BY <1>1 DEF TypeOK
  <2>2. copy[t] \in Recurrences /\ clock \in Nat
    BY DEF TypeOK
  <2>3. next \in Nat \cup {NULL}
    BY <2>1, <2>2, TicksAssumption DEF Recurrences, Rows
  <2> HIDE DEF next
  <2> QED
    BY <2>1, <2>3 DEF Rows
<1>2. Advanced(t, at) = With(t, row)
  BY DEF Advanced
<1> HIDE DEF row
<1> QED
  BY <1>1, <1>2, WithRewrites

LEMMA RanRewrites ==
    ASSUME TypeOK, NEW t \in Tasks, NEW at \in Nat, copy[t] # NULL
    PROVE  /\ Rewrites(t, Ran(t, at))
           /\ copy[t] = "once" /\ task[t] # NULL => Ran(t, at)[t].completed
<1>1. CASE copy[t] = "once"
  <2> DEFINE row == [task[t] EXCEPT !.completed = TRUE]
  <2>1. ASSUME task[t] # NULL
        PROVE  /\ row \in Rows
               /\ row.enabled = task[t].enabled /\ row.recur = task[t].recur
               /\ row.completed
    <3>1. task[t] \in Rows
      BY <2>1 DEF TypeOK
    <3> QED
      BY <3>1 DEF Rows
  <2>2. Ran(t, at) = With(t, row)
    BY <1>1 DEF Ran
  <2> HIDE DEF row
  <2>3. task[t] # NULL => With(t, row)[t] = row
    BY DEF With, TypeOK
  <2> QED
    BY <2>1, <2>2, <2>3, WithRewrites
<1>2. CASE copy[t] # "once"
  BY <1>2, AdvancedRewrites DEF Ran
<1> QED
  BY <1>1, <1>2

------------------------------------------------------------------------------
(* The inductive invariant *)

\* Verdicts are about tasks that were taken up; at rest nothing was.
VerdictsTaken ==
    /\ \A i \in 1..Len(verdicts) : verdicts[i] \in Taken
    /\ phase \in {"idle", "evaluate"} => verdicts = <<>>
    /\ phase = "idle" => Taken = {}

\* A one-off that was run is completed, and so it is not due, or the write that
\* completes it is the next one, or that write has not been done.
OnceInv ==
    /\ \A t \in recorded :
         /\ task[t] # NULL /\ task[t].recur = "once"
         /\ task[t].completed \/ t \in halved
            \/ (phase \in Writing /\ t = Now /\ copy[t] = "once")
    /\ OnceDone

\* The model has answered, and its verdicts are carried out.
Deciding == {"decide", "execute", "record", "mark"}

\* An entry in progress whose task has been answered for belongs to a verdict that
\* is still to be carried out, or its write has failed.
AnsweredInv ==
    phase \in Deciding =>
      \A t \in open \cap answered :
        t \in orphaned \/ \E i \in 1..Len(verdicts) : verdicts[i] = t

\* The log entry of a run is closed before its row is written.
MarkedInv == phase = "mark" => Now \notin open

\* What has left reflections lies before last_tick_at, or before the instant that
\* the tick will store there, unless a tick was cut off between the two.
WindowInv ==
    /\ phase \notin Deciding \/ failed => reflected <= lastTick \/ cut
    /\ phase \in Deciding => reflected <= tickAt \/ cut
    /\ phase \in Deciding \cup {"evaluate"} => lastTick <= tickAt
    /\ phase \notin Deciding => ~failed

TickBooks == TypeOK /\ VerdictsTaken /\ InProgressOwned /\ AnsweredInv /\ MarkedInv /\ WindowInv

\* The first verdict is about a task that was taken up.
LEMMA NowTaken ==
    ASSUME TypeOK, VerdictsTaken, verdicts # <<>>
    PROVE  /\ Now \in Tasks /\ copy[Now] # NULL
           /\ Tail(verdicts) \in Seq(Tasks)
           /\ \A i \in 1..Len(Tail(verdicts)) : Tail(verdicts)[i] \in Taken
<1>1. verdicts \in Seq(Tasks) /\ Len(verdicts) \in Nat \ {0}
  BY DEF TypeOK
<1>2. Now \in Taken
  BY <1>1 DEF VerdictsTaken, Now
<1>3. ASSUME NEW i \in 1..Len(Tail(verdicts)) PROVE Tail(verdicts)[i] \in Taken
  <2>1. i + 1 \in 1..Len(verdicts) /\ Tail(verdicts)[i] = verdicts[i + 1]
    BY <1>1
  <2> QED
    BY <2>1 DEF VerdictsTaken
<1> QED
  BY <1>1, <1>2, <1>3 DEF Taken

\* Nothing is local to an activity that is over.
LEMMA IdleTyped ==
    ASSUME Idle, clock' \in Nat
    PROVE  /\ phase' = "idle" /\ tickAt' \in 0..clock' /\ verdicts' = <<>> /\ verdicts' \in Seq(Tasks)
           /\ copy' \in [Tasks -> Recurrences \cup {NULL}]
           /\ failed' = FALSE /\ answered' = {}
           /\ VerdictsTaken'
<1>1. Taken' = {}
  BY DEF Idle, NoCopy, Taken
<1>2. VerdictsTaken'
  BY <1>1 DEF Idle, VerdictsTaken
<1>3. verdicts' \in Seq(Tasks)
  BY EmptySeq DEF Idle
<1>4. copy' \in [Tasks -> Recurrences \cup {NULL}]
  BY DEF Idle, NoCopy
<1>5. phase' = "idle" /\ verdicts' = <<>> /\ failed' = FALSE /\ answered' = {}
  BY DEF Idle
<1>6. tickAt' \in 0..clock'
  BY DEF Idle
<1> QED
  BY <1>2, <1>3, <1>4, <1>5, <1>6

LEMMA InitBooks == Init => TickBooks /\ OnceInv
<1> SUFFICES ASSUME Init PROVE TickBooks /\ OnceInv
  OBVIOUS
<1>1. task \in [Tasks -> Rows \cup {NULL}]
  <2>1. {New(r) : r \in Kinds} \subseteq Rows
    BY NewRow, TicksAssumption
  <2> QED
    BY <2>1 DEF Init
<1>2. TypeOK
  <2>1. copy \in [Tasks -> Recurrences \cup {NULL}]
    BY DEF Init, NoCopy
  <2>2. /\ clock \in 0..MaxClock /\ lastTick \in 0..clock /\ tickAt \in 0..clock
        /\ upsets \in 0..MaxUpsets /\ reflected \in 0..clock
    BY TicksAssumption DEF Init
  <2>3. /\ open \subseteq Tasks /\ asked \subseteq Tasks
        /\ orphaned \subseteq Tasks /\ recorded \subseteq Tasks /\ halved \subseteq Tasks
    BY DEF Init
  <2>4. /\ phase \in Phases /\ verdicts \in Seq(Tasks) /\ failed \in BOOLEAN
        /\ answered \subseteq Tasks /\ cut \in BOOLEAN /\ owed \in Nat \cup {NULL}
    BY EmptySeq DEF Init, Phases
  <2>5. phase = "idle"
    BY DEF Init
  <2> QED
    BY <1>1, <2>1, <2>2, <2>3, <2>4, <2>5 DEF TypeOK, Approving
<1>3. VerdictsTaken
  BY DEF Init, VerdictsTaken, Taken, NoCopy
<1> QED
  BY <1>2, <1>3 DEF Init, TickBooks, InProgressOwned, AnsweredInv, MarkedInv, WindowInv, Deciding, OnceInv, OnceDone

\* The types survive every step, and so do the verdicts' ties to the tasks.
LEMMA TypeStep ==
    ASSUME TypeOK, VerdictsTaken, [Next]_vars PROVE TypeOK' /\ VerdictsTaken'
<1> USE TicksAssumption DEF Approving, runs, windows
<1>1. CASE Tock
  BY <1>1 DEF Tock, TypeOK, VerdictsTaken, Taken, rowvars, local, ghosts
<1>2. CASE BeginTick
  <2>1. CASE Due = {}
    BY <1>2, <2>1 DEF BeginTick, Opened, TypeOK, VerdictsTaken, Taken, rowvars, local, ghosts
  <2>2. CASE Due # {}
    <3>1. copy' \in [Tasks -> Recurrences \cup {NULL}]
      <4>1. ASSUME NEW t \in Due PROVE task[t].recur \in Recurrences
        BY <4>1 DEF Due, DueAt, TypeOK, Rows
      <4> QED
        BY <1>2, <2>2, <4>1 DEF BeginTick
    <3>2. verdicts = <<>>
      BY <1>2 DEF BeginTick, VerdictsTaken
    <3>3. Due \subseteq Tasks
      BY DEF Due
    <3>4. verdicts' = <<>> /\ phase' = "evaluate"
      BY <1>2, <2>2, <3>2 DEF BeginTick
    <3>5. TypeOK'
      BY <1>2, <2>2, <3>1, <3>3, <3>4 DEF BeginTick, Opened, TypeOK, Phases, rowvars
    <3> QED
      BY <3>4, <3>5 DEF VerdictsTaken
  <2> QED
    BY <2>1, <2>2
<1>3. CASE Evaluate
  <2>1. verdicts' \in Seq(Taken)
    <3>1. Taken \subseteq Tasks /\ IsFiniteSet(Taken)
      BY FS_Subset DEF Taken
    <3>2. CASE verdicts' \in SeqOf(Taken, MaxVerdicts)
      BY <3>2, AnswersAreTasks
    <3>3. CASE verdicts' \in SetToSeqs(Taken)
      BY <3>1, <3>3, ListsOfSet
    <3> QED
      BY <1>3, <3>2, <3>3 DEF Evaluate
  <2>2. /\ verdicts' \in Seq(Tasks) /\ \A i \in 1..Len(verdicts') : verdicts'[i] \in Taken
        /\ answered' \subseteq Tasks
    <3>1. Taken \subseteq Tasks
      BY DEF Taken
    <3> QED
      BY <1>3, <2>1, <3>1 DEF Evaluate, ToSet
  <2>3. Taken' = Taken /\ failed' \in BOOLEAN
    BY <1>3 DEF Evaluate, Taken
  <2>4. reflected' \in 0..clock /\ cut' \in BOOLEAN /\ owed' \in Nat \cup {NULL}
    BY <1>3 DEF Evaluate, Reflect, TypeOK
  <2>5. TypeOK'
    BY <1>3, <2>2, <2>3, <2>4 DEF Evaluate, TypeOK, Phases, rowvars
  <2> QED
    BY <1>3, <2>2, <2>3, <2>5 DEF Evaluate, VerdictsTaken
<1>4. CASE Act \/ Execute
  BY <1>4 DEF Act, Execute, TypeOK, Phases, VerdictsTaken, Taken, rowvars, local, ghosts
<1>5. ASSUME NextVerdict, verdicts # <<>>, upsets' \in 0..MaxUpsets,
             UNCHANGED <<clock, lastTick, tickAt, copy, answered, failed, windows>>,
             task' \in [Tasks -> Rows \cup {NULL}], open' \subseteq Tasks,
             asked' \subseteq Tasks, orphaned' \subseteq Tasks,
             recorded' \subseteq Tasks, halved' \subseteq Tasks
      PROVE  TypeOK' /\ VerdictsTaken'
  <2>1. Taken' = Taken
    BY <1>5 DEF Taken
  <2> QED
    BY <1>5, <2>1, NowTaken DEF NextVerdict, TypeOK, Phases, VerdictsTaken
<1>6. CASE Escalate \/ ExecuteFails
  <2>1. verdicts # <<>> /\ Now \in Tasks
    BY <1>6, NowTaken DEF Escalate, ExecuteFails, TypeOK
  <2>2. asked' \subseteq Tasks
    BY <1>6, <2>1 DEF Escalate, ExecuteFails, TypeOK
  <2> QED
    BY <1>5, <1>6, <2>1, <2>2 DEF Escalate, ExecuteFails, Settle, TypeOK, ghosts
<1>7. CASE Noop
  <2>1. verdicts # <<>> /\ Now \in Tasks /\ copy[Now] # NULL
    BY <1>7, NowTaken DEF Noop
  <2>2. tickAt \in Nat
    BY DEF TypeOK
  <2>3. Rewrites(Now, task')
    BY <1>7, <2>1, <2>2, AdvancedRewrites DEF Noop
  <2> QED
    BY <1>5, <1>7, <2>1, <2>3 DEF Noop, Settle, TypeOK, Rewrites, ghosts
<1>8. ASSUME phase \in {"record", "mark", "approved", "resolve"}
      PROVE  /\ verdicts # <<>> /\ Now \in Tasks /\ copy[Now] # NULL
             /\ Rewrites(Now, Ran(Now, tickAt))
  <2>1. verdicts # <<>> /\ tickAt \in Nat
    BY <1>8 DEF TypeOK
  <2> QED
    BY <2>1, NowTaken, RanRewrites
<1>9. CASE LogRun \/ LogApproved
  <2>1. recorded' \subseteq Tasks
    BY <1>8, <1>9 DEF LogRun, LogApproved, NoteRun, TypeOK
  <2>2. Taken' = Taken
    BY <1>9 DEF LogRun, LogApproved, Taken, local
  <2>3. VerdictsTaken'
    BY <1>9, <2>2 DEF LogRun, LogApproved, VerdictsTaken, local
  <2>4. TypeOK'
    BY <1>8, <1>9, <2>1 DEF LogRun, LogApproved, TypeOK, Phases, rowvars, local
  <2> QED
    BY <2>3, <2>4
<1>18. CASE MarkRun
  <2>1. halved' \subseteq Tasks
    BY <1>18 DEF MarkRun, NoteMark, TypeOK
  <2> QED
    BY <1>5, <1>8, <1>18, <2>1 DEF MarkRun, TypeOK, Rewrites
<1>19. CASE WriteFails
  <2>1. verdicts # <<>> /\ Now \in Tasks /\ copy[Now] # NULL /\ tickAt \in Nat
    BY <1>19, NowTaken DEF WriteFails, TypeOK
  <2>2. task' \in [Tasks -> Rows \cup {NULL}]
    BY <1>19, <2>1, AdvancedRewrites DEF WriteFails, TypeOK, Rewrites
  <2>3. halved' \subseteq Tasks /\ open' \subseteq Tasks /\ orphaned' \subseteq Tasks
    BY <1>19, <2>1 DEF WriteFails, NoteNoMark, TypeOK
  <2>4. upsets' \in 0..MaxUpsets
    BY <1>19 DEF WriteFails, Upset, TypeOK
  <2> QED
    BY <1>5, <1>19, <2>1, <2>2, <2>3, <2>4 DEF WriteFails, TypeOK
<1>10. CASE EndTick
  <2>1. Idle /\ clock' = clock /\ clock \in Nat
    BY <1>10 DEF EndTick, TypeOK
  <2> QED
    BY <1>10, <2>1, IdleTyped DEF EndTick, TypeOK, Phases, rowvars
<1>11. ASSUME NEW t \in Tasks, Approve(t) PROVE TypeOK' /\ VerdictsTaken'
  <2>1. task[t].recur \in Recurrences
    BY <1>11 DEF Approve, TypeOK, Rows
  <2>2. copy' \in [Tasks -> Recurrences \cup {NULL}] /\ copy'[t] # NULL
    BY <1>11, <2>1 DEF Approve, NoCopy
  <2>3. verdicts' \in Seq(Tasks) /\ verdicts' # <<>> /\ Len(verdicts') = 1 /\ verdicts'[1] = t
    BY <1>11 DEF Approve
  <2>4. TypeOK'
    BY <1>11, <2>2, <2>3 DEF Approve, TypeOK, Phases, rowvars, ghosts
  <2>5. t \in Taken'
    BY <2>2 DEF Taken
  <2> QED
    BY <1>11, <2>3, <2>4, <2>5 DEF Approve, VerdictsTaken
<1>12. CASE ExecuteApproved
  BY <1>12 DEF ExecuteApproved, TypeOK, Phases, VerdictsTaken, Taken, rowvars, ghosts
<1>13. CASE MarkApproved
  <2>1. halved' \subseteq Tasks
    BY <1>8, <1>13 DEF MarkApproved, NoteMark, TypeOK
  <2>2. Idle /\ clock' = clock /\ clock \in Nat
    BY <1>13 DEF MarkApproved, TypeOK
  <2>3. task' \in [Tasks -> Rows \cup {NULL}]
    BY <1>8, <1>13 DEF MarkApproved, Rewrites
  <2> QED
    BY <1>13, <2>1, <2>2, <2>3, IdleTyped DEF MarkApproved, TypeOK, Phases
<1>14. ASSUME Upset \/ UNCHANGED upsets, task' \in [Tasks -> Rows \cup {NULL}], asked' \subseteq Tasks, recorded' \subseteq Tasks,
              UNCHANGED <<clock, open, lastTick, phase, local, orphaned, halved, windows>>
       PROVE  TypeOK' /\ VerdictsTaken'
  BY <1>14 DEF Upset, TypeOK, VerdictsTaken, Taken, local
<1>15. ASSUME NEW t \in Tasks, EditTask(t) PROVE TypeOK' /\ VerdictsTaken'
  <2>1. CASE RemoveTask(t)
    BY <1>14, <2>1 DEF RemoveTask, TypeOK
  <2>2. CASE AddTask(t)
    <3>1. New("pending") \in Rows
      BY NewRow DEF Recurrences
    <3> QED
      BY <1>14, <2>2, <3>1 DEF AddTask, TypeOK, ghosts
  <2>3. ASSUME NEW on \in BOOLEAN, SetEnabled(t, on) PROVE TypeOK' /\ VerdictsTaken'
    <3>1. task[t] \in Rows
      BY <2>3 DEF SetEnabled, TypeOK
    <3>2. [task[t] EXCEPT !.enabled = on] \in Rows
      BY <3>1 DEF Rows
    <3> QED
      BY <1>14, <2>3, <3>2 DEF SetEnabled, TypeOK, ghosts
  <2>4. ASSUME NEW r \in Recurrences, SetRecurrence(t, r) PROVE TypeOK' /\ VerdictsTaken'
    <3>1. task[t] \in Rows
      BY <2>4 DEF SetRecurrence, TypeOK
    <3>2. [task[t] EXCEPT !.recur = r] \in Rows
      BY <3>1 DEF Rows
    <3> QED
      BY <1>14, <2>4, <3>2 DEF SetRecurrence, TypeOK
  <2> QED
    BY <1>15, <2>1, <2>2, <2>3, <2>4 DEF EditTask
<1>16. CASE Abort \/ ApprovalFails
  <2>1. Idle /\ clock' = clock /\ clock \in Nat
    BY <1>16 DEF Abort, ApprovalFails, TypeOK
  <2>2. halved' \subseteq Tasks /\ upsets' \in 0..MaxUpsets
    BY <1>16 DEF Abort, ApprovalFails, NoteNoMark, Upset, TypeOK
  <2> QED
    BY <1>16, <2>1, <2>2, IdleTyped DEF Abort, ApprovalFails, TypeOK, Phases, rowvars
<1>17. CASE UNCHANGED vars
  BY <1>17 DEF vars, TypeOK, VerdictsTaken, Taken, rowvars, local, ghosts
<1> QED
  BY <1>1, <1>2, <1>3, <1>4, <1>6, <1>7, <1>9, <1>10, <1>11, <1>12, <1>13, <1>15, <1>16, <1>17, <1>18,
     <1>19 DEF Next, TickStep, ApprovedStep, Fails

\* The steps that write a row as their copy has it.
EngineWrites == Noop \/ MarkRun \/ MarkApproved

LEMMA WritesRewrite ==
    ASSUME TypeOK, VerdictsTaken, EngineWrites
    PROVE  verdicts # <<>> /\ Now \in Tasks /\ Rewrites(Now, task')
<1>1. verdicts # <<>> /\ tickAt \in Nat
  BY DEF EngineWrites, Noop, MarkRun, MarkApproved, TypeOK, Approving
<1>2. Now \in Tasks /\ copy[Now] # NULL
  BY <1>1, NowTaken
<1>3. CASE Noop
  BY <1>1, <1>2, <1>3, AdvancedRewrites DEF Noop
<1>4. CASE MarkRun \/ MarkApproved
  BY <1>1, <1>2, <1>4, RanRewrites DEF MarkRun, MarkApproved
<1> QED
  BY <1>1, <1>2, <1>3, <1>4 DEF EngineWrites

\* No step leaves an entry in progress without an owner.
LEMMA OwnedStep ==
    ASSUME TypeOK, VerdictsTaken, InProgressOwned, AnsweredInv, [Next]_vars
    PROVE  InProgressOwned'
<1> DEFINE Ticking(p) == p \notin {"idle"} \cup Approving
<1> USE DEF Approving
<1>1. ASSUME open' \subseteq open, orphaned' = orphaned, copy' = copy,
             Ticking(phase) => Ticking(phase')
      PROVE  InProgressOwned'
  BY <1>1 DEF InProgressOwned, Taken
<1>2. ASSUME open' \subseteq open, orphaned' = orphaned, ~Ticking(phase) PROVE InProgressOwned'
  BY <1>2 DEF InProgressOwned
<1>3. CASE BeginTick
  <2>1. CASE Due = {}
    BY <1>3, <2>1 DEF BeginTick, Opened, InProgressOwned
  <2>2. CASE Due # {}
    <3>1. ASSUME NEW t \in Due PROVE t \in Tasks /\ task[t].recur # NULL
      BY <3>1, TicksAssumption DEF Due, DueAt, TypeOK, Rows
    <3> QED
      BY <1>3, <2>2, <3>1 DEF BeginTick, Opened, InProgressOwned, Taken
  <2> QED
    BY <2>1, <2>2
<1>4. CASE Evaluate \/ Act \/ Execute
  BY <1>1, <1>4 DEF Evaluate, Act, Execute, local, ghosts
<1>5. CASE Escalate \/ Noop \/ ExecuteFails \/ LogRun \/ MarkRun
  BY <1>1, <1>5
     DEF Escalate, Noop, ExecuteFails, LogRun, MarkRun, Settle, NextVerdict, local, ghosts
<1>6. CASE WriteFails
  BY <1>6 DEF WriteFails, NextVerdict, InProgressOwned, Taken
<1>7. CASE EndTick
  <2>1. \A t \in open \cap answered : t \in orphaned
    BY <1>7 DEF EndTick, AnsweredInv, Deciding
  <2>2. open \subseteq orphaned \cup Taken
    BY DEF InProgressOwned
  <2> QED
    BY <1>7, <2>1, <2>2 DEF EndTick, InProgressOwned
<1>8. CASE ApprovedStep \/ ApprovalFails
  BY <1>2, <1>8
     DEF ApprovedStep, ExecuteApproved, LogApproved, MarkApproved, ApprovalFails, ghosts
<1>9. ASSUME NEW t \in Tasks, Approve(t) PROVE InProgressOwned'
  BY <1>2, <1>9 DEF Approve, ghosts
<1>10. ASSUME NEW t \in Tasks, EditTask(t) PROVE InProgressOwned'
  BY <1>1, <1>10 DEF EditTask, RemoveTask, AddTask, SetEnabled, SetRecurrence, local, ghosts
<1>11. CASE Abort
  BY <1>11 DEF Abort, InProgressOwned
<1>12. CASE Tock \/ UNCHANGED vars
  BY <1>1, <1>12 DEF Tock, vars, local, ghosts
<1> QED
  BY <1>3, <1>4, <1>5, <1>6, <1>7, <1>8, <1>9, <1>10, <1>11, <1>12 DEF Next, TickStep, Fails

\* Carrying out the first verdict leaves the others to be carried out.
LEMMA RestOfVerdicts ==
    ASSUME TypeOK, verdicts # <<>>, NextVerdict, NEW t, t # Now,
           NEW i \in 1..Len(verdicts), verdicts[i] = t
    PROVE  \E j \in 1..Len(verdicts') : verdicts'[j] = t
<1>1. verdicts \in Seq(Tasks) /\ Len(verdicts) \in Nat \ {0} /\ verdicts' = Tail(verdicts)
  BY DEF TypeOK, NextVerdict
<1>2. i # 1
  BY <1>1 DEF Now
<1>3. i - 1 \in 1..Len(verdicts') /\ verdicts'[i - 1] = t
  BY <1>1, <1>2
<1> QED
  BY <1>3

\* Answered tasks do not lose their verdicts.
LEMMA AnsweredStep ==
    ASSUME TypeOK, VerdictsTaken, AnsweredInv, MarkedInv, [Next]_vars PROVE AnsweredInv'
<1> USE DEF Deciding, Approving
<1>1. ASSUME phase' \notin Deciding PROVE AnsweredInv'
  BY <1>1 DEF AnsweredInv
<1>2. ASSUME phase \in Deciding, open' \subseteq open, orphaned' = orphaned,
             verdicts' = verdicts, answered' = answered
      PROVE  AnsweredInv'
  BY <1>2 DEF AnsweredInv
<1>3. ASSUME phase \in Deciding, verdicts # <<>>, NextVerdict, answered' = answered,
             orphaned \subseteq orphaned', open' \subseteq open,
             Now \in open' => Now \in orphaned'
      PROVE  AnsweredInv'
  <2> SUFFICES ASSUME NEW t \in open' \cap answered'
               PROVE  t \in orphaned' \/ \E j \in 1..Len(verdicts') : verdicts'[j] = t
    BY DEF AnsweredInv
  <2>1. CASE t = Now
    BY <1>3, <2>1
  <2>2. CASE t # Now
    <3>1. t \in orphaned \/ \E i \in 1..Len(verdicts) : verdicts[i] = t
      BY <1>3 DEF AnsweredInv
    <3> QED
      BY <1>3, <2>2, <3>1, RestOfVerdicts
  <2> QED
    BY <2>1, <2>2
<1>4. CASE BeginTick
  BY <1>1, <1>4 DEF BeginTick
<1>5. CASE Evaluate
  BY <1>5 DEF Evaluate, AnsweredInv, ToSet, VerdictsTaken
<1>6. CASE Act \/ Execute
  BY <1>2, <1>6 DEF Act, Execute, local, ghosts
<1>7. CASE Escalate \/ Noop \/ ExecuteFails
  <2>1. verdicts # <<>>
    BY <1>7 DEF Escalate, Noop, ExecuteFails, TypeOK
  <2> QED
    BY <1>3, <1>7, <2>1 DEF Escalate, Noop, ExecuteFails, Settle, ghosts
<1>8. CASE LogRun
  BY <1>2, <1>8 DEF LogRun, local
<1>9. CASE MarkRun
  <2>1. verdicts # <<>>
    BY <1>9 DEF MarkRun, TypeOK
  <2>2. Now \in open => Now \in orphaned
    BY <1>9 DEF MarkRun, MarkedInv
  <2> QED
    BY <1>3, <1>9, <2>1, <2>2 DEF MarkRun
<1>10. CASE WriteFails
  BY <1>3, <1>10 DEF WriteFails
<1>11. CASE EndTick \/ ApprovedStep \/ ApprovalFails \/ Abort
  BY <1>1, <1>11 DEF EndTick, ApprovedStep, ExecuteApproved, LogApproved, MarkApproved,
     ApprovalFails, Abort, Idle
<1>12. ASSUME NEW t \in Tasks, Approve(t) PROVE AnsweredInv'
  BY <1>1, <1>12 DEF Approve
<1>13. ASSUME NEW t \in Tasks, EditTask(t) PROVE AnsweredInv'
  BY <1>13
     DEF EditTask, RemoveTask, AddTask, SetEnabled, SetRecurrence, local, ghosts, AnsweredInv
<1>14. CASE Tock \/ UNCHANGED vars
  BY <1>14 DEF Tock, vars, local, ghosts, AnsweredInv
<1> QED
  BY <1>4, <1>5, <1>6, <1>7, <1>8, <1>9, <1>10, <1>11, <1>12, <1>13, <1>14 DEF Next, TickStep, Fails

\* Reflections lie before what is, or will be, last_tick_at.
LEMMA WindowStep ==
    ASSUME TypeOK, WindowInv, [Next]_vars PROVE WindowInv'
<1> USE DEF WindowInv, Deciding, Approving, TypeOK
<1>1. CASE BeginTick
  <2>1. CASE Due = {}
    BY <1>1, <2>1 DEF BeginTick, local, windows
  <2>2. CASE Due # {}
    BY <1>1, <2>2, TicksAssumption DEF BeginTick, windows
  <2> QED
    BY <2>1, <2>2
<1>2. CASE Evaluate
  BY <1>2 DEF Evaluate, Reflect, windows
<1>3. CASE Act \/ Escalate \/ Noop \/ Execute \/ ExecuteFails
  BY <1>3 DEF Act, Escalate, Noop, Execute, ExecuteFails, Settle, NextVerdict, local, ghosts, windows
<1>4. CASE LogRun \/ MarkRun \/ WriteFails
  BY <1>4 DEF LogRun, MarkRun, WriteFails, NextVerdict, local, windows
<1>5. CASE EndTick
  BY <1>5 DEF EndTick, Idle
<1>6. CASE ApprovedStep \/ ApprovalFails
  BY <1>6 DEF ApprovedStep, ExecuteApproved, LogApproved, MarkApproved, ApprovalFails, Idle,
     local, ghosts, windows
<1>7. CASE Abort
  BY <1>7 DEF Abort, Idle
<1>8. ASSUME NEW t \in Tasks, Approve(t) \/ EditTask(t) PROVE WindowInv'
  BY <1>8 DEF Approve, EditTask, RemoveTask, AddTask, SetEnabled, SetRecurrence, local, ghosts, windows
<1>9. CASE Tock \/ UNCHANGED vars
  BY <1>9 DEF Tock, vars, local, ghosts, windows
<1> QED
  BY <1>1, <1>2, <1>3, <1>4, <1>5, <1>6, <1>7, <1>8, <1>9 DEF Next, TickStep, Fails

\* Nothing opens the entry of a run that is written down.
LEMMA MarkedStep ==
    ASSUME TypeOK, MarkedInv, [Next]_vars PROVE MarkedInv'
<1>1. CASE LogRun
  BY <1>1 DEF LogRun, MarkedInv, Now, local
<1>2. ASSUME phase' # "mark" PROVE MarkedInv'
  BY <1>2 DEF MarkedInv
<1>3. CASE BeginTick \/ Evaluate \/ Act \/ Execute
  BY <1>2, <1>3 DEF BeginTick, Evaluate, Act, Execute
<1>4. CASE Escalate \/ Noop \/ ExecuteFails \/ MarkRun \/ WriteFails
  BY <1>2, <1>4 DEF Escalate, Noop, ExecuteFails, MarkRun, WriteFails, Settle, NextVerdict
<1>5. CASE EndTick \/ ApprovedStep \/ ApprovalFails \/ Abort
  BY <1>2, <1>5 DEF EndTick, ApprovedStep, ExecuteApproved, LogApproved, MarkApproved,
     ApprovalFails, Abort, Idle
<1>6. ASSUME NEW t \in Tasks, Approve(t) \/ EditTask(t) PROVE MarkedInv'
  BY <1>2, <1>6
     DEF Approve, EditTask, RemoveTask, AddTask, SetEnabled, SetRecurrence, local, MarkedInv, Now
<1>7. CASE Tock \/ UNCHANGED vars
  BY <1>7 DEF Tock, vars, local, MarkedInv, Now
<1> QED
  BY <1>1, <1>3, <1>4, <1>5, <1>6, <1>7 DEF Next, TickStep, Fails

\* A run that is written down is completed, or about to be, or was never marked.
LEMMA OnceStep ==
    ASSUME TypeOK, VerdictsTaken, OnceInv, [Next]_vars PROVE OnceInv'
<1> DEFINE OneOff(t) == task[t] # NULL /\ task[t].recur = "once"
           Marking(t) == phase \in Writing /\ t = Now /\ copy[t] = "once"
           Finished(t) == OneOff(t) /\ (task[t].completed \/ t \in halved)
           Good(t) == OneOff(t) /\ (task[t].completed \/ t \in halved \/ Marking(t))
<1> USE DEF Writing
<1>1. ASSUME task' = task, recorded' = recorded, halved' = halved, UNCHANGED local, phase' = phase
      PROVE OnceInv'
  BY <1>1 DEF OnceInv, OnceDone, local, Now
<1>2. ASSUME task' = task, recorded' = recorded, halved \subseteq halved', phase' # "evaluate",
             phase \in Writing /\ Now \in recorded => Now \in halved'
      PROVE  OnceInv'
  BY <1>2 DEF OnceInv, OnceDone
<1>3. CASE EngineWrites
  <2>1. Now \in Tasks /\ Rewrites(Now, task')
    BY <1>3, WritesRewrite
  <2>2. recorded' = recorded /\ phase' # "evaluate"
    BY <1>3 DEF EngineWrites, Noop, MarkRun, MarkApproved, NextVerdict, Settle, Idle, ghosts, runs
  <2>3. ASSUME NEW t \in recorded PROVE Finished(t)'
    <3>1. Good(t) /\ t \in Tasks
      BY DEF OnceInv, TypeOK
    <3>2. OneOff(t)' /\ (task[t].completed => task'[t].completed)
      BY <2>1, <3>1 DEF Rewrites
    <3>3. CASE MarkRun \/ MarkApproved
      <4>1. task' = Ran(Now, tickAt) /\ NoteMark(Now) /\ tickAt \in Nat
        BY <3>3 DEF MarkRun, MarkApproved, TypeOK
      <4>2. copy[Now] = "once" => task[Now] = NULL \/ task'[Now].completed
        BY <2>1, <4>1, RanRewrites, TicksAssumption DEF Recurrences
      <4>3. t # Now \/ copy[Now] # "once" => (t \in halved => t \in halved')
        BY <4>1 DEF NoteMark
      <4> QED
        BY <3>1, <3>2, <4>2, <4>3
    <3>4. CASE Noop
      BY <3>1, <3>2, <3>4 DEF Noop, ghosts, runs
    <3> QED
      BY <1>3, <3>3, <3>4 DEF EngineWrites
  <2> QED
    BY <2>2, <2>3 DEF OnceInv, OnceDone
<1>11. CASE LogRun \/ LogApproved
  <2>1. /\ task' = task /\ halved' = halved /\ UNCHANGED local /\ NoteRun(Now)
        /\ phase' \in Writing
    BY <1>11 DEF LogRun, LogApproved, rowvars
  <2>2. phase \notin Writing
    BY <1>11 DEF LogRun, LogApproved
  <2>3. ASSUME NEW t \in recorded' PROVE Good(t)'
    BY <2>1, <2>2, <2>3 DEF NoteRun, OnceInv, local, Now
  <2> QED
    BY <2>1, <2>3 DEF OnceInv, OnceDone
<1>12. CASE WriteFails
  <2>1. verdicts # <<>> /\ Now \in Tasks /\ copy[Now] # NULL /\ tickAt \in Nat
    BY <1>12, NowTaken DEF WriteFails, TypeOK
  <2>2. task' = task \/ Rewrites(Now, task')
    BY <1>12, <2>1, AdvancedRewrites DEF WriteFails
  <2>3. /\ recorded' = recorded /\ phase' = "decide" /\ halved \subseteq halved'
        /\ phase \in Writing /\ Now \in recorded => Now \in halved'
    BY <1>12 DEF WriteFails, NextVerdict, NoteNoMark
  <2>4. ASSUME NEW t \in recorded PROVE Finished(t)'
    <3>1. Good(t) /\ t \in Tasks
      BY DEF OnceInv, TypeOK
    <3>2. OneOff(t)' /\ (task[t].completed => task'[t].completed)
      BY <2>1, <2>2, <3>1 DEF Rewrites
    <3> QED
      BY <2>3, <3>1, <3>2
  <2> QED
    BY <2>3, <2>4 DEF OnceInv, OnceDone
<1>4. CASE BeginTick
  <2>1. task' = task /\ recorded' = recorded /\ halved' = halved /\ phase = "idle"
    BY <1>4 DEF BeginTick, rowvars, runs
  <2>2. ASSUME NEW t \in recorded \ halved, phase' = "evaluate" PROVE copy'[t] # "once"
    <3>1. t \in Tasks /\ t \notin Due
      BY <1>4 DEF BeginTick, OnceInv, TypeOK, Due, DueAt, Writing
    <3>2. copy'[t] = NULL
      BY <1>4, <2>2, <3>1 DEF BeginTick
    <3> QED
      BY <3>2, TicksAssumption DEF Recurrences
  <2> QED
    BY <2>1, <2>2 DEF OnceInv, OnceDone
<1>5. CASE Evaluate \/ Act \/ Escalate \/ Execute \/ ExecuteFails \/ EndTick
  <2>1. phase' # "evaluate" /\ phase \notin Writing
    BY <1>5 DEF Evaluate, Act, Escalate, Execute, ExecuteFails, EndTick, Settle, NextVerdict, Idle
  <2>2. task' = task /\ recorded' = recorded /\ halved' = halved
    BY <1>5 DEF Evaluate, Act, Escalate, Execute, ExecuteFails, EndTick, rowvars, ghosts, runs
  <2> QED
    BY <1>2, <2>1, <2>2
<1>6. CASE ExecuteApproved
  BY <1>2, <1>6 DEF ExecuteApproved, rowvars, ghosts, runs
<1>7. ASSUME NEW t \in Tasks, Approve(t) PROVE OnceInv'
  BY <1>2, <1>7 DEF Approve, rowvars, ghosts, runs
<1>8. ASSUME NEW t \in Tasks, EditTask(t) PROVE OnceInv'
  <2>1. /\ recorded' \subseteq recorded /\ halved' = halved /\ UNCHANGED local /\ phase' = phase
        /\ \A u \in Tasks \ {t} : task'[u] = task[u]
    BY <1>8 DEF EditTask, RemoveTask, AddTask, SetEnabled, SetRecurrence, local, ghosts, runs, TypeOK
  <2>2. ASSUME t \in recorded'
        PROVE  OneOff(t)' /\ task'[t].completed = task[t].completed
    <3>1. OneOff(t) /\ t \in recorded
      BY <2>1, <2>2 DEF OnceInv
    <3>2. ~AddTask(t) /\ ~RemoveTask(t) /\ ~(\E r \in Recurrences : SetRecurrence(t, r))
      BY <2>2, <3>1 DEF AddTask, RemoveTask, SetRecurrence
    <3>3. PICK on \in BOOLEAN : SetEnabled(t, on)
      BY <1>8, <3>2 DEF EditTask
    <3>4. task'[t] = [task[t] EXCEPT !.enabled = on] /\ task[t] \in Rows
      BY <3>3 DEF SetEnabled, TypeOK
    <3>5. /\ task'[t] \in Rows /\ task'[t].recur = task[t].recur
          /\ task'[t].completed = task[t].completed
      BY <3>4 DEF Rows
    <3> QED
      BY <3>1, <3>5, TicksAssumption
  <2>3. ASSUME NEW u \in recorded' PROVE Good(u)'
    <3>1. Good(u) /\ u \in Tasks
      BY <2>1 DEF OnceInv, TypeOK
    <3>2. OneOff(u)' /\ task'[u].completed = task[u].completed
      BY <2>1, <2>2, <3>1
    <3> QED
      BY <2>1, <3>1, <3>2 DEF local, Now
  <2> QED
    BY <2>1, <2>3 DEF OnceInv, OnceDone, local
<1>9. CASE Tock \/ UNCHANGED vars
  BY <1>1, <1>9 DEF Tock, vars, rowvars, ghosts, runs
<1>10. CASE Abort \/ ApprovalFails
  <2>1. /\ task' = task /\ recorded' = recorded /\ phase' = "idle" /\ halved \subseteq halved'
        /\ phase \in Writing /\ Now \in recorded => Now \in halved'
    BY <1>10 DEF Abort, ApprovalFails, NoteNoMark, Idle, rowvars
  <2> QED
    BY <1>2, <2>1
<1> QED
  BY <1>3, <1>4, <1>5, <1>6, <1>7, <1>8, <1>9, <1>10, <1>11, <1>12
     DEF Next, TickStep, ApprovedStep, EngineWrites, Fails

------------------------------------------------------------------------------
(* Theorems *)

\* Every reachable state has the invariant.
LEMMA Books == Spec => [](TickBooks /\ OnceInv)
<1>1. Init => TickBooks /\ OnceInv
  BY InitBooks
<1>2. TickBooks /\ OnceInv /\ [Next]_vars => (TickBooks /\ OnceInv)'
  BY TypeStep, OwnedStep, AnsweredStep, MarkedStep, WindowStep, OnceStep DEF TickBooks
<1> QED
  BY <1>1, <1>2, PTL DEF Spec

\* The next tick finds books it can trust: every in_progress entry belongs to
\* the tick that runs or was left by an abort or a failed write since, and no window
\* that has left reflections is shown again unless the tick was cut off after it had
\* stored them (engine.rs:264, 360).
THEOREM TickCorrect == Spec => []TickInv
<1>1. TickBooks => TickInv
  BY DEF TickBooks, TickInv, WindowsOnce, WindowInv, Deciding
<1> QED
  BY <1>1, Books, PTL

\* A one-off with a run written down is not put to the model again, unless its
\* completion could not be written down after it.
THEOREM OnceCorrect == Spec => []OnceDone
<1>1. OnceInv => OnceDone
  BY DEF OnceInv
<1> QED
  BY <1>1, Books, PTL

\* What the engine writes from its copy undoes no edit.
THEOREM EditsCorrect == Spec => EditsStand
<1> DEFINE Stands(t) == /\ task[t] = NULL <=> task'[t] = NULL
                        /\ task[t] # NULL => /\ task'[t].enabled = task[t].enabled
                                             /\ task'[t].recur = task[t].recur
           Edit == \E t \in Tasks : EditTask(t)
           Stand == \A t \in Tasks : Stands(t)
<1>1. ASSUME TypeOK, VerdictsTaken, Next PROVE Edit \/ Stand
  <2>1. CASE EngineWrites
    <3>1. Rewrites(Now, task') /\ Now \in Tasks
      BY <1>1, <2>1, WritesRewrite
    <3> QED
      BY <3>1 DEF Rewrites
  <2>2. CASE task' = task
    BY <2>2
  <2>3. CASE Tock \/ Abort \/ ApprovalFails \/ ExecuteApproved \/ LogApproved \/ LogRun
    BY <2>2, <2>3 DEF Tock, Abort, ApprovalFails, ExecuteApproved, LogApproved, LogRun, rowvars
  <2>6. CASE WriteFails
    <3>1. verdicts # <<>> /\ Now \in Tasks /\ copy[Now] # NULL /\ tickAt \in Nat
      BY <1>1, <2>6, NowTaken DEF WriteFails, TypeOK
    <3>2. task' = task \/ Rewrites(Now, task')
      BY <1>1, <2>6, <3>1, AdvancedRewrites DEF WriteFails
    <3> QED
      BY <2>2, <3>1, <3>2 DEF Rewrites
  <2>4. CASE BeginTick \/ Evaluate \/ Act \/ Escalate \/ Execute \/ ExecuteFails \/ EndTick
    BY <2>2, <2>4 DEF BeginTick, Evaluate, Act, Escalate, Execute, ExecuteFails, EndTick, rowvars
  <2>5. ASSUME NEW t \in Tasks, Approve(t) PROVE Stand
    BY <2>2, <2>5 DEF Approve, rowvars
  <2> QED
    BY <1>1, <2>1, <2>3, <2>4, <2>5, <2>6
       DEF Next, TickStep, ApprovedStep, EngineWrites, Fails
<1>2. TickBooks /\ [Next]_vars => [Edit \/ Stand]_vars
  BY <1>1 DEF TickBooks
<1>3. Spec => [][Edit \/ Stand]_vars
  BY <1>2, Books, PTL DEF Spec
<1> QED
  BY <1>3 DEF EditsStand

==============================================================================
