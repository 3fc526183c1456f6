---------------------------- MODULE ChannelReply ----------------------------
(***************************************************************************)
(* ChannelInboundSubscriber (channels/bus.rs): one message of a channel      *)
(* after the other is given to the agent (channels/providers/web.rs), whose  *)
(* events turn into drafts, thinking bubbles and fillers, and at the end     *)
(* into one reply.  Events come over a broadcast channel that drops the      *)
(* oldest when it is full; calls of the backend fail, or seem to.            *)
(*                                                                         *)
(* Not here: the typing indicator, which leaves nothing behind, and the      *)
(* wording of bubbles.  draft_sent decides about nothing but a log line.     *)
(***************************************************************************)
EXTENDS Integers, Sequences, SequencesExt, Functions

CONSTANTS Arrivals,     \* the messages of one channel, in the order they arrive
          Capacity,     \* of the broadcast channel
          MAX_EDIT_FAILURES, MAX_FILLER_FAILURES,
          MaxDeltas,    \* bound: events a turn publishes before its last
          MaxFillers,   \* bound: fillers tried for a message
          MaxFaults     \* bound: calls that do not go well

Msgs == ToSet(Arrivals)

ASSUME ReplyAssumption ==
    /\ Arrivals \in Seq(Msgs) /\ Arrivals # <<>> /\ IsInjective(Arrivals)
    /\ Msgs \cap {"none", "timeout", "refused"} = {}
    /\ Capacity \in Nat \ {0} /\ MAX_EDIT_FAILURES \in Nat \ {0}
    /\ MAX_FILLER_FAILURES \in Nat \ {0}
    /\ MaxDeltas \in Nat /\ MaxFillers \in Nat /\ MaxFaults \in Nat

VARIABLES
    inbox,      \* messages the event bus holds for the subscriber
    turn,       \* of each message: what the agent does
    published,  \* how many deltas it has published
    queue,      \* event_rx
    phase, now, \* where handle() is, and with which message
    late,       \* the deadline has passed
    st,         \* StreamingState
    last,       \* kind of bubble that an edit which was said to fail left behind
    shown,      \* what of each message stands in the channel, by kind
    reply,      \* History: the end a message has come to: whose last event,
    lagged,     \* the messages whose last event was dropped,
    bad,        \* how many calls have not gone well,
    marks       \* and what that has left, by message

agent == <<turn, published>>
handler == <<phase, now, late, st, last>>
ghosts == <<bad, marks>>
vars == <<inbox, agent, queue, handler, shown, reply, lagged, ghosts>>

Kinds == {"draft", "thinking", "filler", "final"}
Ephemeral == Kinds \ {"final"}
Events == [req : Msgs, kind : {"text", "thinking", "end"}]
Turns == {"none", "running", "ended"}
Steps == {"idle", "start", "enter", "loop", "flush", "finish", "orphan", "send", "clean"}
\* A post or an edit was done although an error came back; a bubble has no id or
\* could not be deleted; the reply could not be sent; handle() panicked.
Marks == {"lost", "stuck", "unsent", "panic"}
Fresh == [id |-> FALSE, dirty |-> FALSE, failures |-> 0, disabled |-> FALSE,
          tid |-> FALSE, tdirty |-> FALSE, tdisabled |-> FALSE,
          fillers |-> 0, ffailures |-> 0, fdisabled |-> FALSE, tried |-> 0]

TypeOK ==
    /\ inbox \in Seq(Msgs) /\ turn \in [Msgs -> Turns]
    /\ published \in [Msgs -> 0..MaxDeltas]
    /\ queue \in Seq(Events) /\ Len(queue) <= Capacity
    /\ phase \in Steps /\ now \in Msgs /\ late \in BOOLEAN
    /\ st \in [id : BOOLEAN, dirty : BOOLEAN, failures : Nat, disabled : BOOLEAN,
               tid : BOOLEAN, tdirty : BOOLEAN, tdisabled : BOOLEAN,
               fillers : 0..MaxFillers, ffailures : Nat, fdisabled : BOOLEAN,
               tried : 0..MaxFillers]
    /\ st.failures >= MAX_EDIT_FAILURES => st.disabled
    /\ st.ffailures >= MAX_FILLER_FAILURES => st.fdisabled
    /\ last \in {"draft", "final"}
    /\ shown \in [Msgs -> [Kinds -> Nat]]
    /\ reply \in [Msgs -> Msgs \cup {"none", "timeout", "refused"}]
    /\ lagged \subseteq Msgs /\ bad \in 0..MaxFaults /\ marks \in [Msgs -> SUBSET Marks]

Init ==
    /\ inbox = Arrivals
    /\ turn = [m \in Msgs |-> "none"] /\ published = [m \in Msgs |-> 0]
    /\ queue = <<>>
    /\ phase = "idle" /\ now = Arrivals[1] /\ late = FALSE /\ st = Fresh /\ last = "draft"
    /\ shown = [m \in Msgs |-> [k \in Kinds |-> 0]]
    /\ reply = [m \in Msgs |-> "none"] /\ lagged = {}
    /\ bad = 0 /\ marks = [m \in Msgs |-> {}]

------------------------------------------------------------------------------
(* The agent's turns: the events of WebChat that matter here *)

Event(m, kind) == [req |-> m, kind |-> kind]

\* publish_web_channel_event: nobody listens between two messages; the oldest
\* event makes room.
Publish(e) ==
    LET full == Len(queue) = Capacity
        kept == IF full THEN Tail(queue) ELSE queue
    IN  IF phase = "idle" THEN UNCHANGED <<queue, lagged>>
        ELSE /\ queue' = Append(kept, e)
             /\ lagged' = IF full /\ Head(queue).kind = "end"
                          THEN lagged \cup {Head(queue).req} ELSE lagged

TurnPublishes(m, kind) ==
    /\ turn[m] = "running" /\ published[m] < MaxDeltas
    /\ published' = [published EXCEPT ![m] = @ + 1]
    /\ Publish(Event(m, kind))
    /\ UNCHANGED <<inbox, turn, handler, shown, reply, ghosts>>

TurnEnds(m) ==
    /\ turn[m] = "running"
    /\ turn' = [turn EXCEPT ![m] = "ended"]
    /\ Publish(Event(m, "end"))
    /\ UNCHANGED <<inbox, published, handler, shown, reply, ghosts>>

------------------------------------------------------------------------------
(* Calls of the backend *)

Posts == {"ok", "noid", "error", "lost", "away"}
Calls == {"ok", "error", "lost", "away"}
Done(o) == o \in {"ok", "noid", "lost"}

\* A call ends as o says: "lost" means done although an error comes back, "away"
\* that there is no configuration, session or client to call with.
Goes(o, left) ==
    /\ o = "ok" \/ bad < MaxFaults
    /\ bad' = IF o = "ok" THEN bad ELSE bad + 1
    /\ marks' = [marks EXCEPT ![now] = @ \cup left]

Mark(cond, mark) == {x \in {mark} : cond}
Add(k) == shown' = [shown EXCEPT ![now][k] = @ + 1]
Erase(k) == shown' = [shown EXCEPT ![now][k] = @ - 1]

------------------------------------------------------------------------------
(* handle *)

Receive ==
    /\ phase = "idle" /\ inbox # <<>>
    /\ now' = Head(inbox) /\ inbox' = Tail(inbox)
    /\ phase' = "start" /\ late' = FALSE /\ st' = Fresh /\ last' = "draft" /\ queue' = <<>>
    /\ UNCHANGED <<agent, shown, reply, lagged, ghosts>>

\* start_chat: a turn of the channel that still runs is cancelled.
StartChat ==
    /\ phase = "start" /\ phase' = "enter"
    /\ LET old == {m \in Msgs : turn[m] = "running"}
       IN  /\ turn' = [m \in Msgs |-> IF m = now THEN "running"
                                      ELSE IF m \in old THEN "ended" ELSE turn[m]]
           /\ IF old = {} THEN UNCHANGED <<queue, lagged>>
              ELSE \E m \in old : Publish(Event(m, "end"))
    /\ UNCHANGED <<inbox, published, now, late, st, last, shown, reply, ghosts>>

\* start_chat refuses the message; the channel is told.
StartFails ==
    /\ phase = "start" /\ phase' = "send"
    /\ reply' = [reply EXCEPT ![now] = "refused"]
    /\ UNCHANGED <<inbox, agent, queue, now, late, st, last, shown, lagged, ghosts>>

\* Mutant: the receiver is made when the turn runs already.
EnterLoop_ListensLate ==
    /\ phase = "enter" /\ phase' = "loop" /\ queue' = <<>>
    /\ UNCHANGED <<inbox, agent, now, late, st, last, shown, reply, lagged, ghosts>>

\* start_chat returns; the timers are made.
EnterLoop ==
    /\ phase = "enter" /\ phase' = "loop"
    /\ UNCHANGED <<inbox, agent, queue, now, late, st, last, shown, reply, lagged, ghosts>>

\* Mutant: an event is an event, whatever request it is of.
Mine_Any(e) == TRUE

Mine(e) == e.req = now

TakeEvent ==
    /\ phase = "loop" /\ queue # <<>> /\ queue' = Tail(queue)
    /\ LET e == Head(queue) IN
       \/ /\ ~Mine(e) /\ UNCHANGED <<phase, st, reply>>
       \/ /\ Mine(e) /\ e.kind = "text"
          /\ st' = [st EXCEPT !.dirty = TRUE] /\ UNCHANGED <<phase, reply>>
       \/ /\ Mine(e) /\ e.kind = "thinking"
          /\ st' = [st EXCEPT !.tdirty = TRUE] /\ UNCHANGED <<phase, reply>>
       \/ /\ Mine(e) /\ e.kind = "end"
          /\ phase' = "finish" /\ reply' = [reply EXCEPT ![now] = e.req] /\ UNCHANGED st
    /\ UNCHANGED <<inbox, agent, now, late, last, shown, lagged, ghosts>>

ThinkingDue(s) == s.tdirty /\ ~s.tdisabled
DraftDue(s) == s.dirty /\ ~s.disabled

\* A tick of edit_timer with something to flush: the thinking, then the draft.
EditTick ==
    /\ phase = "loop" /\ (ThinkingDue(st) \/ DraftDue(st))
    /\ phase' = "flush"
    /\ UNCHANGED <<inbox, agent, queue, now, late, st, last, shown, reply, lagged, ghosts>>

\* flush_thinking_message: what a first post leaves.
Thought(o) == [st EXCEPT !.tdirty = FALSE, !.tid = o = "ok",
                         !.tdisabled = o \in {"noid", "error", "lost"}]

FlushThinking(o) ==
    /\ phase = "flush" /\ ThinkingDue(st)
    /\ IF st.tid
       THEN /\ o \in Calls /\ Goes(o, {})
            /\ st' = [st EXCEPT !.tdirty = FALSE] /\ UNCHANGED shown
       ELSE /\ o \in Posts /\ Goes(o, Mark(o = "noid", "stuck") \cup Mark(o = "lost", "lost"))
            /\ st' = Thought(o)
            /\ IF Done(o) THEN Add("thinking") ELSE UNCHANGED shown
    /\ phase' = IF DraftDue(st) THEN "flush" ELSE "loop"
    /\ UNCHANGED <<inbox, agent, queue, now, late, last, reply, lagged>>

\* The thinking is cut to 500 bytes in the middle of a character.
ThinkingPanics ==
    /\ phase = "flush" /\ ThinkingDue(st) /\ bad < MaxFaults
    /\ phase' = "idle" /\ late' = FALSE /\ st' = Fresh /\ queue' = <<>>
    /\ bad' = bad + 1 /\ marks' = [marks EXCEPT ![now] = @ \cup {"panic"}]
    /\ UNCHANGED <<inbox, agent, now, last, shown, reply, lagged>>

Failed(s) == [s EXCEPT !.failures = @ + 1, !.disabled = s.failures + 1 >= MAX_EDIT_FAILURES]

\* What an edit of the draft leaves, and what its first post does.
Edited(s, o) ==
    IF o = "ok" THEN [s EXCEPT !.failures = 0] ELSE IF o = "away" THEN s ELSE Failed(s)
Drafted(s, o) ==
    IF o = "ok" THEN [s EXCEPT !.id = TRUE]
    ELSE IF o = "noid" THEN [s EXCEPT !.disabled = TRUE]
    ELSE IF o = "away" THEN s ELSE Failed(s)

\* flush_streaming_edit.
FlushDraft(o) ==
    /\ phase = "flush" /\ ~ThinkingDue(st) /\ DraftDue(st)
    /\ LET s == [st EXCEPT !.dirty = FALSE] IN
       IF st.id
       THEN /\ o \in Calls /\ Goes(o, {}) /\ UNCHANGED shown
            /\ st' = Edited(s, o)
       ELSE /\ o \in Posts /\ Goes(o, Mark(o = "noid", "stuck") \cup Mark(o = "lost", "lost"))
            /\ st' = Drafted(s, o)
            /\ IF Done(o) THEN Add("draft") ELSE UNCHANGED shown
    /\ phase' = "loop"
    /\ UNCHANGED <<inbox, agent, queue, now, late, last, reply, lagged>>

Filled(s, o) ==
    IF o = "ok" THEN [s EXCEPT !.ffailures = 0, !.fillers = @ + 1]
    ELSE IF o = "noid" THEN [s EXCEPT !.ffailures = 0]
    ELSE IF o = "away" THEN s
    ELSE [s EXCEPT !.ffailures = @ + 1, !.fdisabled = s.ffailures + 1 >= MAX_FILLER_FAILURES]

\* send_filler_message, at a tick of filler_timer.
SendFiller(o) ==
    /\ phase = "loop" /\ ~st.fdisabled /\ st.tried < MaxFillers /\ o \in Posts
    /\ Goes(o, Mark(o = "noid", "stuck") \cup Mark(o = "lost", "lost"))
    /\ st' = Filled([st EXCEPT !.tried = @ + 1], o)
    /\ IF Done(o) THEN Add("filler") ELSE UNCHANGED shown
    /\ UNCHANGED <<inbox, agent, queue, phase, now, late, last, reply, lagged>>

\* Mutant: the sleep is made anew whenever a timer fires, and never ends.
Deadline_Anew ==
    /\ phase = "idle" /\ FALSE /\ UNCHANGED vars

\* The 180 seconds are over, in whatever call handle() waits.
Deadline ==
    /\ phase \in {"loop", "flush"} /\ ~late /\ late' = TRUE
    /\ UNCHANGED <<inbox, agent, queue, phase, now, st, last, shown, reply, lagged, ghosts>>

\* The select may take the deadline before events that wait.
TimeOut ==
    /\ phase = "loop" /\ late
    /\ phase' = "finish" /\ reply' = [reply EXCEPT ![now] = "timeout"]
    /\ UNCHANGED <<inbox, agent, queue, now, late, st, last, shown, lagged, ghosts>>

------------------------------------------------------------------------------
(* finalize_channel_reply *)

\* Mutant: a failed edit is left at that.
FinalEdit_GivesUp(o) ==
    /\ phase = "finish" /\ st.id /\ o \in Calls
    /\ Goes(o, Mark(o = "away", "unsent") \cup Mark(o = "away", "stuck"))
    /\ phase' = "clean"
    /\ IF Done(o) THEN shown' = [shown EXCEPT ![now].draft = @ - 1, ![now].final = @ + 1]
       ELSE UNCHANGED shown
    /\ last' = IF Done(o) THEN "final" ELSE "draft"
    /\ UNCHANGED <<inbox, agent, queue, now, late, st, reply, lagged>>

\* The draft with an id becomes the reply; if that fails it is to be deleted.
FinalEdit(o) ==
    /\ phase = "finish" /\ st.id /\ o \in Calls
    /\ Goes(o, Mark(o = "away", "unsent") \cup Mark(o = "away", "stuck"))
    /\ phase' = IF o \in {"ok", "away"} THEN "clean" ELSE "orphan"
    /\ IF Done(o) THEN shown' = [shown EXCEPT ![now].draft = @ - 1, ![now].final = @ + 1]
       ELSE UNCHANGED shown
    /\ last' = IF Done(o) THEN "final" ELSE "draft"
    /\ UNCHANGED <<inbox, agent, queue, now, late, st, reply, lagged>>

DeleteOrphan(o) ==
    /\ phase = "orphan" /\ phase' = "send" /\ o \in Calls
    /\ Goes(o, Mark(~Done(o), "stuck"))
    /\ IF Done(o) THEN Erase(last) ELSE UNCHANGED shown
    /\ UNCHANGED <<inbox, agent, queue, now, late, st, last, reply, lagged>>

\* A reply of its own: no draft with an id, or none that could be edited.
SendDue == phase = "send" \/ (phase = "finish" /\ ~st.id)

SendReply(o) ==
    /\ SendDue /\ phase' = "clean" /\ o \in Posts \ {"noid"}
    /\ Goes(o, Mark(~Done(o), "unsent"))
    /\ IF Done(o) THEN Add("final") ELSE UNCHANGED shown
    /\ UNCHANGED <<inbox, agent, queue, now, late, st, last, reply, lagged>>

Cleaned(s) == s.fillers = 0 /\ ~s.tid

\* The fillers, then the thinking.
DeleteBubble(o) ==
    /\ phase = "clean" /\ ~Cleaned(st) /\ o \in Calls
    /\ Goes(o, Mark(~Done(o), "stuck"))
    /\ LET k == IF st.fillers > 0 THEN "filler" ELSE "thinking" IN
       /\ st' = IF k = "filler" THEN [st EXCEPT !.fillers = @ - 1] ELSE [st EXCEPT !.tid = FALSE]
       /\ IF Done(o) THEN Erase(k) ELSE UNCHANGED shown
    /\ UNCHANGED <<inbox, agent, queue, phase, now, late, last, reply, lagged>>

Return ==
    /\ phase = "clean" /\ Cleaned(st)
    /\ phase' = "idle" /\ late' = FALSE /\ st' = Fresh /\ last' = "draft" /\ queue' = <<>>
    /\ UNCHANGED <<inbox, agent, now, shown, reply, lagged, ghosts>>

------------------------------------------------------------------------------
TurnStep == \E m \in Msgs : TurnEnds(m) \/ \E k \in {"text", "thinking"} : TurnPublishes(m, k)

Step ==
    \/ Receive \/ StartChat \/ StartFails \/ EnterLoop \/ TakeEvent \/ TimeOut \/ Return
    \/ \E o \in Posts : \/ FlushThinking(o) \/ FlushDraft(o)
                       \/ FinalEdit(o) \/ DeleteOrphan(o) \/ SendReply(o) \/ DeleteBubble(o)

Next == TurnStep \/ Step \/ EditTick \/ ThinkingPanics \/ Deadline \/ \E o \in Posts : SendFiller(o)

\* Calls and start_chat return, the select takes what is ready and time goes on.
\* A turn need not end.
Fairness == WF_vars(Step) /\ WF_vars(Deadline)

Spec == Init /\ [][Next]_vars /\ Fairness

------------------------------------------------------------------------------
\* handle() has returned for m.
Handled(m) == m \notin ToSet(inbox) /\ ~(m = now /\ phase # "idle")

\* A reply is the end of the message's own turn, although events of an earlier
\* turn, one that timed out or was cancelled by this message, still come in.
OwnAnswer == \A m \in Msgs : reply[m] \in Msgs => reply[m] = m

\* Whatever could not be edited before, the reply stands in the channel, once,
\* when a message is handled ("so the user always sees it", bus.rs:729): unless it
\* could not be sent, or an edit said to have failed cannot be taken back.
ReplyStands ==
    \A m \in Msgs : Handled(m) =>
       /\ shown[m].final > 0 \/ marks[m] \cap {"unsent", "panic"} # {}
       /\ shown[m].final <= 1 \/ "stuck" \in marks[m]

\* Nothing else is left: drafts, thinking and fillers are gone, unless the backend
\* gave no id, said a post had failed that had not, or would not delete.
NothingLeft ==
    \A m \in Msgs : Handled(m) /\ marks[m] \cap {"lost", "stuck", "panic"} = {} =>
       \A k \in Ephemeral : shown[m][k] = 0

\* There is one bubble of thinking and one draft to evolve, however many ticks
\* pass and whichever calls fail (bus.rs:317).
BubblesEvolve ==
    \A m \in Msgs : /\ shown[m].thinking <= 1
                    /\ shown[m].draft <= 1 \/ "lost" \in marks[m]

\* While a message is answered: its own turn speaks, and one bubble of each kind
\* evolves, whatever calls fail and whichever turns talk across.
BubbleInv == TypeOK /\ OwnAnswer /\ BubblesEvolve

\* When it is handled: the reply stands, once, and nothing else does, however many
\* calls failed or only seemed to.
ReplyInv == ReplyStands /\ NothingLeft

\* No end of a turn goes unheard but for two reasons the code has: it waits in the
\* queue when the select takes the deadline, or a full queue dropped it (bus.rs:202,
\* 229).  Then, and only then, is a request called timed out whose turn has ended;
\* that none is missed between start_chat and the loop is what the early receiver
\* is for (bus.rs:56).
TimeOutAccounted ==
    [][\A m \in Msgs : reply[m] = "none" /\ reply'[m] = "timeout" =>
          late /\ \/ turn[m] = "running"
                  \/ Event(m, "end") \in ToSet(queue)
                  \/ m \in lagged]_vars

\* The last bubble goes at one place only: a draft that could not be edited is
\* deleted, and the reply is sent in the next step (bus.rs:752); "this order keeps
\* something visible at all times" (bus.rs:719) is true of the clean-up of thinking
\* and fillers, which leave the reply unless it could not be sent.
Something(m) == \E k \in Kinds : shown[m][k] > 0
EmptiedForReply ==
    [][\A m \in Msgs : Something(m) =>
          \/ Something(m)'
          \/ m = now /\ phase = "orphan" /\ phase' = "send"
          \/ "unsent" \in marks[m]]_vars

\* What the end of a message may cost is accounted for: a turn that ended unheard,
\* and a chat that is empty, have no causes but these.
EndsAccounted == TimeOutAccounted /\ EmptiedForReply

\* Every message is handled to the end, also when its turn never ends or its end
\* is dropped.
EveryMessageHandled == \A m \in Msgs : <>Handled(m)
==============================================================================
