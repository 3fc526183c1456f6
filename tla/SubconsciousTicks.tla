-------------------------- MODULE SubconsciousTicks --------------------------
(***************************************************************************)
(* The subconscious engine (subconscious/engine.rs, store.rs): ticks that   *)
(* take up the due tasks, have a model judge them, act, escalate or let be, *)
(* and approvals of escalations.                                            *)
(*                                                                          *)
(* Everybody who ticks or approves keeps the mutex of the engine throughout *)
(* (heartbeat/engine.rs, schemas.rs), so there is one such activity at a    *)
(* time; the awaits in it let the clock, edits of tasks and an abort in.    *)
(* The generation counter of a tick therefore never finds a newer tick.     *)
(***************************************************************************)
EXTENDS Integers, FiniteSets, Sequences, SequencesExt

CONSTANTS Tasks,
          NULL,
          Kinds,         \* how the tasks of the first state recur
          Interval,      \* minutes between heartbeats
          MaxClock,      \* bound: the last instant
          MaxVerdicts,   \* bound: evaluations in one answer of the model
          MaxUpsets      \* bound: edits, removals, aborts and failed writes

VARIABLES
    clock,
    task,       \* subconscious_tasks: the rows, NULL where there is none
    open,       \* tasks with a log entry that says in_progress
    asked,      \* tasks with an escalation, pending or resolved: nobody looks
    lastTick,   \* last_tick_at
    phase,      \* where the holder of the engine is
    tickAt,     \* its local variables: when it began,
    copy,       \* the recurrence of each task it took up, NULL for the others,
    verdicts,   \* the tasks the model has answered for and that are still to do,
    answered,   \* those it has answered for at all,
    failed,     \* and whether the call failed
    upsets,
    \* History:
    orphaned,   \* in_progress entries an abort or a failed write left since the last tick
    recorded,   \* one-offs with a run written down,
    halved,     \* and those of them whose completion was not written after it
    reflected,  \* up to where windows have left reflections,
    cut,        \* and whether the last to do so ended before last_tick_at was stored
    owed        \* where the window of a failed evaluation begins, NULL if shown since

rowvars == <<task, asked>>
local == <<tickAt, copy, verdicts, answered, failed>>
runs == <<recorded, halved>>
windows == <<reflected, cut, owed>>
ghosts == <<orphaned, runs, windows>>
vars == <<clock, rowvars, open, lastTick, phase, local, upsets, ghosts>>

\* A cron expression that cannot be read is stored as any other.
Recurrences == {"once", "cron", "bad_cron", "pending"}
Rows == [recur : Recurrences, enabled : BOOLEAN, next : Nat \cup {NULL}, completed : BOOLEAN]
Phases == {"idle", "evaluate", "decide", "execute", "record", "mark",
           "approve", "approved", "resolve"}
Approving == {"approve", "approved", "resolve"}
Writing == {"mark", "resolve"}

ASSUME TicksAssumption ==
    /\ IsFiniteSet(Tasks) /\ Kinds \subseteq Recurrences
    /\ NULL \notin Recurrences /\ NULL \notin Rows /\ NULL \notin Nat
    /\ MaxVerdicts \in Nat \ {0} /\ Interval \in Nat \ {0}
    /\ MaxClock \in Nat /\ MaxUpsets \in Nat

\* The types, and what is local to an activity is gone when it is over.
TypeOK ==
    /\ clock \in 0..MaxClock /\ lastTick \in 0..clock /\ tickAt \in 0..clock
    /\ task \in [Tasks -> Rows \cup {NULL}] /\ copy \in [Tasks -> Recurrences \cup {NULL}]
    /\ open \subseteq Tasks /\ asked \subseteq Tasks
    /\ phase \in Phases /\ verdicts \in Seq(Tasks)
    /\ answered \subseteq Tasks /\ failed \in BOOLEAN
    /\ phase \in {"execute", "record", "mark"} \cup Approving => verdicts # <<>>
    /\ upsets \in 0..MaxUpsets
    /\ orphaned \subseteq Tasks /\ recorded \subseteq Tasks /\ halved \subseteq Tasks
    /\ reflected \in 0..clock /\ cut \in BOOLEAN /\ owed \in Nat \cup {NULL}

NoCopy == [t \in Tasks |-> NULL]
New(recur) == [recur |-> recur, enabled |-> TRUE, next |-> NULL, completed |-> FALSE]

Init ==
    /\ clock = 0 /\ lastTick = 0
    /\ task \in [Tasks -> {New(r) : r \in Kinds}]
    /\ open = {} /\ asked = {}
    /\ phase = "idle" /\ tickAt = 0 /\ copy = NoCopy /\ verdicts = <<>>
    /\ answered = {} /\ failed = FALSE
    /\ upsets = 0 /\ orphaned = {} /\ recorded = {} /\ halved = {}
    /\ reflected = 0 /\ cut = FALSE /\ owed = NULL

Tock ==
    /\ clock < MaxClock /\ clock' = clock + 1
    /\ UNCHANGED <<rowvars, open, lastTick, phase, local, upsets, ghosts>>

------------------------------------------------------------------------------
(* A tick *)

\* Mutant: those that never ran are not due.
DueAt_NotFresh(row, now) ==
    row # NULL /\ row.enabled /\ ~row.completed /\ row.next # NULL /\ row.next <= now

\* due_tasks.
DueAt(row, now) ==
    row # NULL /\ row.enabled /\ ~row.completed /\ (row.next = NULL \/ row.next <= now)

Due == {t \in Tasks : DueAt(task[t], clock)}

\* Rest between two activities.
Idle == /\ phase' = "idle" /\ tickAt' = 0 /\ copy' = NoCopy
        /\ verdicts' = <<>> /\ answered' = {} /\ failed' = FALSE

\* Mutant: the entries of earlier ticks stay.
Opened_Adds(ts) == open \cup ts

\* cancel_stale_in_progress, then an entry for each due task.
Opened(ts) == ts

\* With nothing due the tick is over, and the window moves on.
BeginTick ==
    /\ phase = "idle"
    /\ open' = Opened(Due)
    /\ IF Due = {}
       THEN lastTick' = clock /\ UNCHANGED <<phase, local>>
       ELSE /\ phase' = "evaluate" /\ tickAt' = clock
            /\ copy' = [t \in Tasks |-> IF t \in Due THEN task[t].recur ELSE NULL]
            /\ UNCHANGED <<lastTick, verdicts, answered, failed>>
    /\ orphaned' = {}
    /\ UNCHANGED <<clock, rowvars, upsets, runs, windows>>

Taken == {t \in Tasks : copy[t] # NULL}

\* What the model has to say of the window is stored; the next window begins here.
Reflect == reflected' = tickAt /\ cut' = FALSE /\ owed' = NULL

\* The model answers for some of the tasks, perhaps for one of them twice or
\* for none it was asked about (what it says is left to the steps below); an
\* answer that cannot be read counts as a noop for every task, without
\* reflections; and so does a call that failed, which the tick remembers.
Evaluate ==
    /\ phase = "evaluate" /\ phase' = "decide"
    /\ \/ verdicts' \in SeqOf(Taken, MaxVerdicts) /\ failed' = FALSE /\ Reflect
       \/ /\ verdicts' \in SetToSeqs(Taken)
          /\ failed' \in BOOLEAN
          /\ UNCHANGED windows
    /\ answered' = ToSet(verdicts')
    /\ UNCHANGED <<clock, rowvars, open, lastTick, tickAt, copy, upsets, orphaned, runs>>

Now == Head(verdicts)
With(t, row) == [task EXCEPT ![t] = IF @ = NULL THEN NULL ELSE row]

\* advance_task_schedule_in_conn: by the recurrence in the copy.
Advanced(t, at) ==
    LET next == CASE copy[t] = "once" -> task[t].next
                  [] copy[t] = "cron" -> clock + 1
                  [] copy[t] = "bad_cron" -> NULL
                  [] copy[t] = "pending" -> at + Interval
    IN  With(t, [task[t] EXCEPT !.next = next])

\* Mutants: a one-off task stays as it is; the copy is written back.
Ran_KeepsOnce(t, at) == Advanced(t, at)
Ran_WritesCopy(t, at) ==
    IF copy[t] = "once" THEN With(t, [New("once") EXCEPT !.completed = TRUE]) ELSE Advanced(t, at)

\* What is done to the row after a run.
Ran(t, at) == IF copy[t] = "once" THEN With(t, [task[t] EXCEPT !.completed = TRUE])
              ELSE Advanced(t, at)

\* History: a one-off, in the copy and still in the table, is done.
NoteRun(t) == recorded' = IF task[t] # NULL /\ task[t].recur = "once" /\ copy[t] = "once"
                          THEN recorded \cup {t} ELSE recorded

\* History: its row now says so, or will not.
NoteMark(t) == halved' = IF copy[t] = "once" THEN halved \ {t} ELSE halved
NoteNoMark == halved' = IF phase \in Writing THEN halved \cup (recorded \cap {Now}) ELSE halved

\* A step that is through with the first verdict.
NextVerdict == verdicts' = Tail(verdicts) /\ phase' = "decide"
Settle == open' = open \ {Now} /\ NextVerdict

Act ==
    /\ phase = "decide" /\ verdicts # <<>> /\ ~failed
    /\ phase' = "execute"
    /\ UNCHANGED <<clock, rowvars, open, lastTick, local, upsets, ghosts>>

\* handle_escalate; the task stays due.
Escalate ==
    /\ phase = "decide" /\ verdicts # <<>> /\ ~failed
    /\ asked' = asked \cup {Now} /\ Settle
    /\ UNCHANGED <<clock, task, lastTick, tickAt, copy, answered, failed, upsets, ghosts>>

\* handle_noop.
Noop ==
    /\ phase = "decide" /\ verdicts # <<>>
    /\ task' = Advanced(Now, tickAt) /\ Settle
    /\ UNCHANGED <<clock, asked, lastTick, tickAt, copy, answered, failed, upsets, ghosts>>

\* execute_task runs the task,
Execute ==
    /\ phase = "execute" /\ phase' = "record"
    /\ UNCHANGED <<clock, rowvars, open, lastTick, local, upsets, ghosts>>

\* or finds that it wants to write without leave, and escalates it, or fails.
ExecuteFails ==
    /\ phase = "execute"
    /\ asked' \in {asked, asked \cup {Now}} /\ Settle
    /\ UNCHANGED <<clock, task, lastTick, tickAt, copy, answered, failed, upsets, ghosts>>

\* handle_act writes down a run,
LogRun ==
    /\ phase = "record" /\ phase' = "mark"
    /\ open' = open \ {Now} /\ NoteRun(Now)
    /\ UNCHANGED <<clock, rowvars, lastTick, local, upsets, orphaned, halved, windows>>

\* and, in a write of its own, what it means for the row.
MarkRun ==
    /\ phase = "mark"
    /\ task' = Ran(Now, tickAt) /\ NoteMark(Now) /\ NextVerdict
    /\ UNCHANGED <<clock, asked, open, lastTick, tickAt, copy, answered, failed, upsets,
                   orphaned, recorded, windows>>

\* Mutant: the window stays where it is when a task was left out of the answer.
EndTick_Whole ==
    /\ phase = "decide" /\ verdicts = <<>>
    /\ open' = open \ (Taken \ answered)
    /\ IF failed THEN owed' = (IF owed = NULL THEN lastTick ELSE owed) /\ UNCHANGED lastTick
                 ELSE lastTick' = (IF answered = Taken THEN tickAt ELSE lastTick) /\ UNCHANGED owed
    /\ Idle
    /\ UNCHANGED <<clock, rowvars, upsets, orphaned, runs, reflected, cut>>

\* Tasks without a verdict are logged as noop; the window moves on unless the
\* evaluation failed.
EndTick ==
    /\ phase = "decide" /\ verdicts = <<>>
    /\ open' = open \ (Taken \ answered)
    /\ IF failed THEN owed' = (IF owed = NULL THEN lastTick ELSE owed) /\ UNCHANGED lastTick
                 ELSE lastTick' = tickAt /\ UNCHANGED owed
    /\ Idle
    /\ UNCHANGED <<clock, rowvars, upsets, orphaned, runs, reflected, cut>>

------------------------------------------------------------------------------
(* Approvals *)

\* approve_escalation: any escalation will do, also one that was resolved.
Approve(t) ==
    /\ phase = "idle" /\ t \in asked /\ task[t] # NULL
    /\ phase' = "approve"
    /\ copy' = [NoCopy EXCEPT ![t] = task[t].recur] /\ verdicts' = <<t>>
    /\ UNCHANGED <<clock, rowvars, open, lastTick, tickAt, answered, failed, upsets, ghosts>>

\* The write is done, or failed,
ExecuteApproved ==
    /\ phase = "approve" /\ phase' = "approved" /\ tickAt' = clock
    /\ UNCHANGED <<clock, rowvars, open, lastTick, copy, verdicts, answered, failed, upsets, ghosts>>

\* and is written down all the same,
LogApproved ==
    /\ phase = "approved" /\ phase' = "resolve"
    /\ NoteRun(Now)
    /\ UNCHANGED <<clock, rowvars, open, lastTick, local, upsets, orphaned, halved, windows>>

\* and, once the escalation is resolved, so is what it means for the row.
MarkApproved ==
    /\ phase = "resolve"
    /\ task' = Ran(Now, tickAt) /\ NoteMark(Now)
    /\ Idle
    /\ UNCHANGED <<clock, asked, open, lastTick, upsets, orphaned, recorded, windows>>

------------------------------------------------------------------------------
(* Edits, which do not take the lock, failed writes and aborts *)

Upset == upsets < MaxUpsets /\ upsets' = upsets + 1

\* update_task; completed is not touched.
SetEnabled(t, on) ==
    /\ Upset /\ task[t] # NULL /\ task[t].enabled # on
    /\ task' = [task EXCEPT ![t].enabled = on]
    /\ UNCHANGED <<clock, asked, open, lastTick, phase, local, ghosts>>

SetRecurrence(t, r) ==
    /\ Upset /\ task[t] # NULL /\ task[t].recur # r
    /\ task' = [task EXCEPT ![t].recur = r]
    /\ recorded' = recorded \ {t}
    /\ UNCHANGED <<clock, asked, open, lastTick, phase, local, orphaned, halved, windows>>

RemoveTask(t) ==
    /\ Upset /\ task[t] # NULL
    /\ task' = [task EXCEPT ![t] = NULL]
    /\ recorded' = recorded \ {t}
    /\ UNCHANGED <<clock, asked, open, lastTick, phase, local, orphaned, halved, windows>>

\* add_task waits for the engine; the row is a new one, "pending".  Each
\* makes up for a removal.
AddTask(t) ==
    /\ phase = "idle" /\ task[t] = NULL
    /\ task' = [task EXCEPT ![t] = New("pending")]
    /\ asked' = asked \ {t}
    /\ UNCHANGED <<clock, open, lastTick, phase, local, upsets, ghosts>>

\* A write of a tick is refused.  Those that were to follow it are given up; of the
\* log entry and the row, which handle_noop and handle_escalate write one after the
\* other, either may be written.
WriteFails ==
    /\ Upset /\ phase \in {"decide", "execute", "record", "mark"} /\ verdicts # <<>>
    /\ open' \in IF phase = "record" THEN {open} ELSE {open, open \ {Now}}
    /\ task' \in IF phase = "decide" THEN {task, Advanced(Now, tickAt)} ELSE {task}
    /\ orphaned' = orphaned \cup (open' \cap {Now})
    /\ NoteNoMark /\ NextVerdict
    /\ UNCHANGED <<clock, asked, lastTick, tickAt, copy, answered, failed, recorded, windows>>

\* One of an approval's three writes is refused.
ApprovalFails ==
    /\ Upset /\ phase \in {"approved", "resolve"}
    /\ NoteNoMark /\ Idle
    /\ UNCHANGED <<clock, rowvars, open, lastTick, orphaned, recorded, windows>>

\* A sign-out aborts the heartbeat, a client hangs up, the core goes down.
Abort ==
    /\ Upset /\ phase # "idle"
    /\ NoteNoMark /\ Idle
    /\ orphaned' = open
    /\ cut' = (cut \/ (phase \notin {"evaluate"} \cup Approving /\ ~failed))
    /\ UNCHANGED <<clock, rowvars, open, lastTick, recorded, reflected, owed>>

------------------------------------------------------------------------------
TickStep == BeginTick \/ Evaluate \/ Act \/ Escalate \/ Noop \/ Execute \/ ExecuteFails
            \/ LogRun \/ MarkRun \/ EndTick
ApprovedStep == ExecuteApproved \/ LogApproved \/ MarkApproved
Fails == WriteFails \/ ApprovalFails \/ Abort
EditTask(t) == \/ RemoveTask(t) \/ AddTask(t)
               \/ \E on \in BOOLEAN : SetEnabled(t, on)
               \/ \E r \in Recurrences : SetRecurrence(t, r)

Next == Tock \/ TickStep \/ ApprovedStep \/ Fails \/ \E t \in Tasks : Approve(t) \/ EditTask(t)

\* The heartbeat ticks again and again, in its turn: the mutex is fair.  Model
\* calls end.  Nobody has to trigger, approve or edit.
Fairness == SF_vars(BeginTick) /\ WF_vars((phase # "idle" /\ TickStep) \/ ApprovedStep)

Spec == Init /\ [][Next]_vars /\ Fairness

------------------------------------------------------------------------------
\* Every entry that says in_progress belongs to the tick that runs, or was left
\* by an abort or a failed write since the last tick began; no older one survives
\* (store.rs:337).
InProgressOwned ==
    open \subseteq orphaned \cup {t \in Taken : phase \notin {"idle"} \cup Approving}

\* last_tick_at is what keeps the model from reflecting twice on the same memory
\* (store.rs:128): a window that has left reflections is not shown again, unless
\* the tick was cut off after it had stored them.
WindowsOnce == phase = "evaluate" => reflected <= lastTick \/ cut

\* Whatever a tick was interrupted in, the next one finds books it can trust: no
\* entry in progress without an owner and no window reflected on already.
TickInv == TypeOK /\ InProgressOwned /\ WindowsOnce

\* A one-off with a run written down, by a tick or after an approval, is not put
\* to the model again, whatever was edited, aborted or approved in between, unless
\* the write of its completion, the next one after it, was cut off or refused.
OnceDone == phase = "evaluate" => \A t \in recorded \ halved : copy[t] # "once"

\* "We do NOT advance `last_tick_at` on failure, so the next tick sees the same
\* window" (engine.rs:292): until an evaluation succeeds the window begins where it
\* began when one failed.
FailedWindowKept == owed # NULL => lastTick = owed

\* A tick or an approval that began before an edit does not undo it: whether a
\* task exists, is enabled and how it recurs is changed by edits alone, although
\* the rows are written from a copy that is as old as the model calls are long.
EditsStand ==
    [][(\E t \in Tasks : EditTask(t)) \/
       \A t \in Tasks : /\ task[t] = NULL <=> task'[t] = NULL
                        /\ task[t] # NULL => /\ task'[t].enabled = task[t].enabled
                                             /\ task'[t].recur = task[t].recur]_vars

\* A task that waits to be run is taken up by a tick that comes to its end, unless
\* it is switched off, removed or run by somebody else.
Waiting(t) == /\ task[t] # NULL /\ task[t].enabled /\ ~task[t].completed
              /\ task[t].next = NULL \/ task[t].next <= clock
WaitingJudged ==
    \A t \in Tasks :
       Waiting(t) ~> (t \in Taken /\ phase = "decide" /\ verdicts = <<>>) \/ ~Waiting(t)
==============================================================================
