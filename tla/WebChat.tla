------------------------------- MODULE WebChat -------------------------------
(***************************************************************************)
(* Chat turns of the web channel: `start_chat`, `cancel_chat` and the task  *)
(* of a turn (channels/providers/web.rs), the bridge that mirrors its       *)
(* progress into one snapshot file per thread (threads/turn_state/), and    *)
(* the thread operations that get in between (threads/ops.rs).              *)
(*                                                                          *)
(* A request is one call of `start_chat`.  Its task runs from await to      *)
(* await, and `handle.abort()` drops it where it waits: for the             *)
(* configuration ("load"), the model ("run"), the reaction ("deliver"), the *)
(* pause between two bubbles of its answer ("bubbles").                     *)
(* What lies between two of these is one step.  The locks in between are    *)
(* held for one operation on a map: a task dropped while it waits for one   *)
(* is as one dropped at the await before it.                                *)
(***************************************************************************)
EXTENDS Naturals

CONSTANTS Requests,     \* calls of start_chat
          Clients,      \* sockets
          Threads,      \* conversation threads
          NULL,
          MaxUpsets     \* bound: crashes, deletions, purges and dismissals

ASSUME ChatAssumption ==
    /\ NULL \notin Requests \cup Nat \cup (Clients \X Threads)
    /\ NULL \notin [by : Requests, live : BOOLEAN]
    /\ MaxUpsets \in Nat

VARIABLES
    call,       \* start_chat: before the lock, between its two locks, returned
    turn,       \* the task of a request
    inFlight,   \* IN_FLIGHT: the request whose handle is kept under a key
    session,    \* THREAD_SESSIONS: the oldest history its agent remembers
    epoch,      \* how often the rows of a thread have been deleted
    deleting,   \* thread_delete: which of its steps is next
    mirror,     \* the bridge of a request and the progress it has seen
    snapshot,   \* turn_states/<thread>.json
    upsets,
    \* History:
    early,      \* requests whose task ended before start_chat kept its handle
    raced,      \* keys two calls of start_chat were between locks for at once
    leaked,     \* keys with an agent no invalidation could reach
    eclipsed    \* requests whose snapshot was dismissed or met another's

vars == <<call, turn, inFlight, session, epoch, deleting, mirror,
          snapshot, upsets, early, raced, leaked, eclipsed>>

tables  == <<inFlight, session>>
threads == <<epoch, deleting, upsets>>
disk    == <<mirror, snapshot, eclipsed>>
ghosts  == <<early, raced, leaked>>

Keys == Clients \X Threads
KeyOf(r) == turn[r].key
ThreadOf(r) == KeyOf(r)[2]
On(t) == {r \in Requests : KeyOf(r) # NULL /\ ThreadOf(r) = t}
Phases == {"none", "load", "run", "deliver", "bubbles", "clean", "ended"}
Live(r) == turn[r].at \notin {"none", "ended"}
Aborted(r) == turn[r].aborted # "no"

Idle == [key |-> NULL, at |-> "none", aborted |-> "no", agent |-> NULL, complete |-> FALSE,
         answers |-> 0, cancels |-> 0]

TypeOK ==
    /\ call \in [Requests -> {"idle", "begun", "returned"}]
    /\ turn \in [Requests ->
         [key : Keys \cup {NULL}, at : Phases, agent : Nat \cup {NULL},
          aborted : {"no", "waiting", "late", "lost"},
          complete : BOOLEAN,
          answers : 0..1, cancels : 0..1]]
    /\ inFlight \in [Keys -> Requests \cup {NULL}]
    /\ session \in [Keys -> Nat \cup {NULL}]
    /\ epoch \in [Threads -> Nat]
    /\ deleting \in [Threads -> BOOLEAN]
    /\ mirror \in [Requests -> [at : {"none", "spawned", "open", "done"},
                                seen : BOOLEAN]]
    /\ snapshot \in [Threads -> [by : Requests, live : BOOLEAN] \cup {NULL}]
    /\ upsets \in 0..MaxUpsets
    /\ early \subseteq Requests /\ raced \subseteq Keys
    /\ leaked \subseteq Keys /\ eclipsed \subseteq Requests

Init ==
    /\ call = [r \in Requests |-> "idle"]
    /\ turn = [r \in Requests |-> Idle]
    /\ inFlight = [k \in Keys |-> NULL]
    /\ session = [k \in Keys |-> NULL]
    /\ epoch = [t \in Threads |-> 0]
    /\ deleting = [t \in Threads |-> FALSE]
    /\ mirror = [r \in Requests |-> [at |-> "none", seen |-> FALSE]]
    /\ snapshot = [t \in Threads |-> NULL]
    /\ upsets = 0
    /\ early = {} /\ raced = {} /\ leaked = {} /\ eclipsed = {}

------------------------------------------------------------------------------
(* start_chat and cancel_chat *)

\* Mutant: the client is told, the task goes on.
CancelTurn_TellsOnly(t) == [t EXCEPT !.cancels = @ + 1]

\* `existing.handle.abort()` comes late for a task that waits for nothing more.
CancelTurn(t) ==
    [t EXCEPT !.aborted = IF t.at \in {"clean", "ended"} THEN "late" ELSE "waiting",
              !.cancels = @ + 1]

\* tokio::spawn.
NewTurn(k) == [Idle EXCEPT !.key = k, !.at = "load"]

\* First critical section of start_chat and the spawn: take the predecessor
\* out of the table, abort it, tell its client.
Begin(r, k) ==
    LET old == inFlight[k]
    IN  /\ call[r] = "idle"
        /\ call' = [call EXCEPT ![r] = "begun"]
        /\ inFlight' = [inFlight EXCEPT ![k] = NULL]
        /\ turn' = [q \in Requests |-> CASE q = r -> NewTurn(k)
                                         [] q = old -> CancelTurn(turn[q])
                                         [] OTHER -> turn[q]]
        /\ raced' = IF \E q \in Requests : KeyOf(q) = k /\ call[q] = "begun"
                    THEN raced \cup {k} ELSE raced
        /\ UNCHANGED <<session, threads, disk, early, leaked>>

\* Second critical section: keep the handle, whatever is there by now.
Insert(r) ==
    /\ call[r] = "begun"
    /\ call' = [call EXCEPT ![r] = "returned"]
    /\ inFlight' = [inFlight EXCEPT ![KeyOf(r)] = r]
    /\ early' = IF Live(r) THEN early ELSE early \cup {r}
    /\ UNCHANGED <<turn, session, threads, disk, raced, leaked>>

\* cancel_chat.
Cancel(k) ==
    LET r == inFlight[k]
    IN  /\ r # NULL
        /\ inFlight' = [inFlight EXCEPT ![k] = NULL]
        /\ turn' = [turn EXCEPT ![r] = CancelTurn(@)]
        /\ UNCHANGED <<call, session, threads, disk, ghosts>>

------------------------------------------------------------------------------
(* The task of a turn *)

\* Mutant: the error is logged and not published.
Fail_Silent(t) == [t EXCEPT !.at = "clean"]

Fail(t) == [t EXCEPT !.at = "clean", !.answers = @ + 1]    \* chat_error

\* The configuration has been read: take the cached agent out of the table and use
\* it if model, temperature and target agent still match; otherwise build one from
\* the thread's messages.  Reading and building may fail.
TakeSession(r) ==
    LET k == KeyOf(r)
        Runs(agent) == /\ turn' = [turn EXCEPT ![r].at = "run", ![r].agent = agent]
                       /\ mirror' = [mirror EXCEPT ![r].at = "spawned"]
                       /\ session' = [session EXCEPT ![k] = NULL]
    IN  /\ turn[r].at = "load" /\ ~Aborted(r)
        /\ \/ session[k] # NULL /\ Runs(session[k])
           \/ Runs(epoch[ThreadOf(r)])
           \/ /\ turn' = [turn EXCEPT ![r] = Fail(@)]
              /\ session' \in {session, [session EXCEPT ![k] = NULL]}
              /\ UNCHANGED mirror
        /\ UNCHANGED <<call, inFlight, threads, snapshot, eclipsed, ghosts>>

\* The agent reports that the turn is complete.
Complete(r) ==
    /\ turn[r].at = "run" /\ ~Aborted(r) /\ ~turn[r].complete
    /\ turn' = [turn EXCEPT ![r].complete = TRUE]
    /\ UNCHANGED <<call, tables, threads, disk, ghosts>>

\* `run_single` returns and the agent goes back into the table.  A turn that did
\* not complete ends in an error, or in a canned answer if the budget is spent.
PutSession(r) ==
    /\ turn[r].at = "run" /\ ~Aborted(r)
    /\ session' = [session EXCEPT ![KeyOf(r)] = turn[r].agent]
    /\ \/ turn' = [turn EXCEPT ![r].at = "deliver", ![r].agent = NULL]
       \/ /\ ~turn[r].complete
          /\ turn' = [turn EXCEPT ![r] = [Fail(@) EXCEPT !.agent = NULL]]
    /\ UNCHANGED <<call, inFlight, threads, disk, ghosts>>

\* deliver_response waits for the reaction and, if the answer has several bubbles,
\* publishes them one by one (chat_segment) and sleeps in between.
ShowSegment(r) ==
    /\ turn[r].at = "deliver" /\ ~Aborted(r)
    /\ turn' = [turn EXCEPT ![r].at = "bubbles"]
    /\ UNCHANGED <<call, tables, threads, disk, ghosts>>

\* The only bubble, or the last, and chat_done with nothing in between.
Deliver(r) ==
    /\ turn[r].at \in {"deliver", "bubbles"} /\ ~Aborted(r)
    /\ turn' = [turn EXCEPT ![r].at = "clean", ![r].answers = @ + 1]
    /\ UNCHANGED <<call, tables, threads, disk, ghosts>>

\* Remove the entry of the key if it is still one's own.
CleanUp(r) ==
    LET k == KeyOf(r)
    IN  /\ turn[r].at = "clean"
        /\ inFlight' = IF inFlight[k] = r THEN [inFlight EXCEPT ![k] = NULL] ELSE inFlight
        /\ turn' = [turn EXCEPT ![r].at = "ended"]
        /\ UNCHANGED <<call, session, threads, disk, ghosts>>

\* The runtime drops an aborted task; the agent it holds is gone with it.
Drop(r) ==
    /\ Live(r) /\ Aborted(r)
    /\ turn' = [turn EXCEPT ![r].at = "ended", ![r].agent = NULL]
    /\ UNCHANGED <<call, tables, threads, disk, ghosts>>

------------------------------------------------------------------------------
(* The progress bridge and its TurnStateMirror *)

Snap(r, live) == [snapshot EXCEPT ![ThreadOf(r)] = [by |-> r, live |-> live]]
Met(t) == {r \in On(t) : mirror[r].at \in {"open", "done"}}

\* TurnStateMirror::new writes the first snapshot.
MirrorOpen(r) ==
    LET others == Met(ThreadOf(r))
    IN  /\ mirror[r].at = "spawned"
        /\ mirror' = [mirror EXCEPT ![r].at = "open"]
        /\ snapshot' = Snap(r, TRUE)
        /\ eclipsed' = eclipsed \cup others
                         \cup (IF \E q \in others : mirror[q].at = "open" THEN {r} ELSE {})
        /\ UNCHANGED <<call, turn, tables, threads, ghosts>>

\* observe: the boundaries of the turn rewrite the snapshot, at any lag.
MirrorFlush(r) ==
    /\ mirror[r].at = "open" /\ ~mirror[r].seen
    /\ snapshot' = Snap(r, TRUE)
    /\ UNCHANGED <<call, turn, tables, threads, mirror, eclipsed, ghosts>>

\* observe: TurnCompleted deletes it.
MirrorComplete(r) ==
    /\ mirror[r].at = "open" /\ ~mirror[r].seen /\ turn[r].complete
    /\ mirror' = [mirror EXCEPT ![r].seen = TRUE]
    /\ snapshot' = [snapshot EXCEPT ![ThreadOf(r)] = NULL]
    /\ UNCHANGED <<call, turn, tables, threads, eclipsed, ghosts>>

\* The channel is closed and drained: finish.
MirrorFinish(r) ==
    /\ mirror[r].at = "open" /\ mirror[r].seen = turn[r].complete /\ turn[r].at # "run"
    /\ mirror' = [mirror EXCEPT ![r].at = "done"]
    /\ snapshot' = IF mirror[r].seen THEN snapshot ELSE Snap(r, FALSE)
    /\ UNCHANGED <<call, turn, tables, threads, eclipsed, ghosts>>

------------------------------------------------------------------------------
(* Threads *)

Upset == upsets < MaxUpsets /\ upsets' = upsets + 1
Forget(ts) == [t \in Threads |-> IF t \in ts THEN NULL ELSE snapshot[t]]
MetIn(ts) == UNION {Met(t) : t \in ts}
Held(t) == {KeyOf(r) : r \in {q \in On(t) : turn[q].at = "run"}}

\* thread_delete: the row first.
DeleteRow(t) ==
    /\ Upset /\ ~deleting[t]
    /\ epoch' = [epoch EXCEPT ![t] = @ + 1]
    /\ deleting' = [deleting EXCEPT ![t] = TRUE]
    /\ UNCHANGED <<call, turn, tables, disk, ghosts>>

\* Mutant: the suffix does not match any key of the thread.
InvalidateSessions_NoMatch(t) ==
    /\ deleting[t]
    /\ snapshot' = Forget({t})
    /\ eclipsed' = eclipsed \cup Met(t)
    /\ deleting' = [deleting EXCEPT ![t] = FALSE]
    /\ UNCHANGED <<call, turn, tables, epoch, upsets, mirror, ghosts>>

\* Then, behind an await, the cached sessions and the snapshot.
\* invalidate_thread_sessions sees what is in the table, not what a turn holds.
InvalidateSessions(t) ==
    /\ deleting[t]
    /\ session' = [k \in Keys |-> IF k[2] = t THEN NULL ELSE session[k]]
    /\ leaked' = leaked \cup Held(t)
    /\ snapshot' = Forget({t})
    /\ eclipsed' = eclipsed \cup Met(t)
    /\ deleting' = [deleting EXCEPT ![t] = FALSE]
    /\ UNCHANGED <<call, turn, inFlight, epoch, upsets, mirror, early, raced>>

\* threads_purge deletes rows and snapshots and leaves the sessions alone.
Purge ==
    /\ Upset
    /\ epoch' = [t \in Threads |-> epoch[t] + 1]
    /\ snapshot' = Forget(Threads)
    /\ eclipsed' = eclipsed \cup MetIn(Threads)
    /\ leaked' = leaked \cup {k \in Keys : session[k] # NULL \/ k \in Held(k[2])}
    /\ UNCHANGED <<call, turn, tables, deleting, mirror, early, raced>>

\* turn_state_clear: the user dismisses the banner.
Dismiss(t) ==
    /\ Upset /\ snapshot[t] # NULL
    /\ snapshot' = Forget({t})
    /\ eclipsed' = eclipsed \cup Met(t)
    /\ UNCHANGED <<call, turn, tables, epoch, deleting, mirror, ghosts>>

------------------------------------------------------------------------------
(* The process *)

Lost(t) == [t EXCEPT !.at = "ended", !.aborted = "lost", !.agent = NULL]
Dead(m) == [m EXCEPT !.at = CASE @ = "open" -> "done" [] @ = "spawned" -> "none" [] OTHER -> @]
ForgetMemory ==
    /\ call' = [r \in Requests |-> IF call[r] = "idle" THEN "idle" ELSE "returned"]
    /\ turn' = [r \in Requests |-> IF Live(r) THEN Lost(turn[r]) ELSE turn[r]]
    /\ inFlight' = [k \in Keys |-> NULL]
    /\ session' = [k \in Keys |-> NULL]
    /\ deleting' = [t \in Threads |-> FALSE]
    /\ mirror' = [r \in Requests |-> Dead(mirror[r])]
    /\ UNCHANGED <<epoch, ghosts, eclipsed>>

\* Mutant: the start does not look at the snapshots.
Relaunch_KeepsSnapshots == Upset /\ ForgetMemory /\ UNCHANGED snapshot

\* Memory is lost, files stay; the next start marks all snapshots interrupted
\* (mark_all_interrupted) before it serves requests.
Relaunch ==
    /\ Upset /\ ForgetMemory
    /\ snapshot' = [t \in Threads |->
                      IF snapshot[t] = NULL THEN NULL ELSE [snapshot[t] EXCEPT !.live = FALSE]]

------------------------------------------------------------------------------
TaskStep(r) == TakeSession(r) \/ Complete(r) \/ PutSession(r) \/ ShowSegment(r)
               \/ Deliver(r) \/ CleanUp(r) \/ Drop(r)
MirrorStep(r) == MirrorOpen(r) \/ MirrorComplete(r) \/ MirrorFinish(r)
ThreadStep(t) == DeleteRow(t) \/ InvalidateSessions(t) \/ Dismiss(t)

Next ==
    \/ \E r \in Requests :
          \/ \E k \in Keys : Begin(r, k)
          \/ Insert(r) \/ TaskStep(r) \/ MirrorStep(r) \/ MirrorFlush(r)
    \/ \E k \in Keys : Cancel(k)
    \/ \E t \in Threads : ThreadStep(t)
    \/ Purge \/ Relaunch

\* The runtime keeps polling tasks, and a model call ends: providers time out.
\* Nobody has to send, cancel, delete or dismiss anything.
Fairness ==
    \A r \in Requests : WF_vars(Insert(r)) /\ WF_vars(TaskStep(r))

Spec == Init /\ [][Next]_vars /\ Fairness

------------------------------------------------------------------------------
\* A running turn whose start has returned is in the table, so that the next
\* message or a cancellation can reach it, unless two calls of start_chat on its
\* key were once between their two locks together: then the later insert
\* overwrites the handle of the other (web.rs:486).
TurnAbortable ==
    \A r \in Requests :
       Live(r) /\ ~Aborted(r) /\ call[r] = "returned" /\ KeyOf(r) \notin raced
       => inFlight[KeyOf(r)] = r

\* At most one unaborted turn runs for a client and thread, with the same exception.
OneTurnPerKey ==
    \A q, r \in Requests :
       /\ q # r /\ Live(q) /\ Live(r)
       /\ KeyOf(q) = KeyOf(r) /\ KeyOf(q) \notin raced
       => Aborted(q) \/ Aborted(r)

\* The table names turns that can still be aborted: a turn that has ended is
\* found there only if it ended before start_chat kept its handle (web.rs:477).
EntryLive ==
    \A k \in Keys :
       inFlight[k] # NULL =>
         /\ KeyOf(inFlight[k]) = k
         /\ ~Aborted(inFlight[k])
         /\ Live(inFlight[k]) \/ inFlight[k] \in early

\* A turn aborted while it waited for the configuration, the model or the delivery
\* never concludes: after "cancelled" its client gets no chat_done and no error of
\* its own.  It may have been shown the first bubbles of the answer by then
\* (presentation.rs:80), a beginning without an end.
CancelledNeverConcludes ==
    \A r \in Requests :
       turn[r].aborted = "waiting" => turn[r].answers = 0

\* What the client and the table of turns in flight may rely on: whoever runs can
\* be aborted, one turn per client and thread, no entry for nobody, and no
\* conclusion after an abort that came in time.
InFlightInv ==
    TypeOK /\ TurnAbortable /\ OneTurnPerKey /\ EntryLive /\ CancelledNeverConcludes

\* Once a thread is deleted no cached agent remembers it, so that "stale sessions
\* don't leak into reused thread IDs" (web.rs:500), except agents that a running
\* turn held at that moment and puts back, and those a purge passes over.
NoStaleSession ==
    \A k \in Keys :
       /\ session[k] # NULL /\ ~deleting[k[2]] /\ session[k] < epoch[k[2]]
       => k \in leaked

\* A snapshot that claims a live turn has a bridge that will settle it: nothing on
\* disk says "streaming" for a turn nobody drives (jsonrpc.rs:1177).
LiveSnapshotDriven ==
    \A t \in Threads :
       snapshot[t] # NULL /\ snapshot[t].live => mirror[snapshot[t].by].at = "open"

\* When the only turn on a thread is over, its snapshot says what happened, also
\* across a crash: gone if the bridge saw it complete, interrupted if not.
LoneSnapshot ==
    \A r \in Requests :
       mirror[r].at = "done" /\ r \notin eclipsed =>
         snapshot[ThreadOf(r)] = IF mirror[r].seen THEN NULL
                                 ELSE [by |-> r, live |-> FALSE]

\* The snapshot file tells the truth about turns: streaming is being streamed, and
\* a turn alone on its thread leaves what its end deserves.
SnapshotInv == LiveSnapshotDriven /\ LoneSnapshot

\* Every accepted message is concluded: done, error or cancelled, unless the core
\* goes down first.  "Always emits at least one chat_done event" (presentation.rs:23)
\* holds of a delivery that is not aborted.
EveryTurnAnswered ==
    \A r \in Requests :
       call[r] = "begun" ~> (turn[r].answers + turn[r].cancels > 0 \/ turn[r].aborted = "lost")
==============================================================================
