------------------------- MODULE ChannelReplyProofs -------------------------
(***************************************************************************)
(* Theorems about ChannelReply, for any messages, capacity of the broadcast *)
(* channel and bounds on events, fillers and faults: what stands in the     *)
(* channel for a message is what StreamingState knows or what the calls     *)
(* that did not go well explain (ReplyBooks).                               *)
(***************************************************************************)
EXTENDS ChannelReply, TLAPS

-----------------------------------------------------------------------------
(* The inductive invariant.                                                *)

Busy == phase # "idle"
Waiting == ToSet(inbox)

\* A message waits once, is not the one at work, and has left nothing yet.
InboxInv ==
  /\ IsInjective(inbox)
  /\ Busy => now \notin Waiting
  /\ \A m \in Waiting : marks[m] = {} /\ \A k \in Kinds : shown[m][k] = 0

\* One bubble of thinking, known or given up.
ThinkingBooks ==
  LET n == shown[now].thinking IN
  /\ n <= 1
  /\ st.tid => n = 1
  /\ n = 1 /\ ~st.tid =>
       marks[now] \cap {"lost", "stuck"} # {} /\ (st.tdisabled \/ phase = "clean")

\* Every filler that stands is known, unless its post or its deletion went wrong.
FillerBooks ==
  LET n == shown[now].filler IN
  /\ st.fillers <= n /\ st.fillers <= st.tried
  /\ marks[now] \cap {"lost", "stuck"} = {} => n = st.fillers

Answering == {"start", "enter", "loop", "flush", "finish"}

\* One draft, known or given up, until it becomes the reply or is an orphan.
DraftBooks ==
  LET n == shown[now].draft IN
  /\ phase \in Answering /\ st.id => n >= 1
  /\ "lost" \notin marks[now] =>
       /\ n <= 1
       /\ phase \in Answering /\ n = 1 => st.id \/ (st.disabled /\ "stuck" \in marks[now])
       /\ phase = "orphan" /\ last = "final" => n = 0
       /\ phase \in {"send", "clean"} => n = 0 \/ "stuck" \in marks[now]
  /\ phase = "orphan" => shown[now][last] >= 1

\* No reply before its time, one after it.
FinalBooks ==
  LET n == shown[now].final IN
  /\ phase \in Answering => n = 0
  /\ phase = "orphan" => n = IF last = "final" THEN 1 ELSE 0
  /\ phase = "send" => n = 0 \/ (n = 1 /\ "stuck" \in marks[now])
  /\ phase = "clean" => /\ n > 0 \/ "unsent" \in marks[now]
                        /\ n <= 1 \/ "stuck" \in marks[now]

\* What stands in the channel for the message at work is what its state and its
\* marks explain.
Books ==
  /\ ThinkingBooks /\ FillerBooks /\ DraftBooks /\ FinalBooks
  /\ phase = "start" => ~st.id /\ ~st.disabled

\* The end of the turn at work is to come, in the queue, or dropped from it.
EndInv ==
  phase \in {"enter", "loop", "flush"} =>
    turn[now] = "running" \/ Event(now, "end") \in ToSet(queue) \/ now \in lagged

ReplyBooks == TypeOK /\ InboxInv /\ (Busy => Books) /\ BubbleInv /\ ReplyInv /\ EndInv

-----------------------------------------------------------------------------
(* Types of the state and what its updates do.                             *)

St == [id : BOOLEAN, dirty : BOOLEAN, failures : Nat, disabled : BOOLEAN,
       tid : BOOLEAN, tdirty : BOOLEAN, tdisabled : BOOLEAN,
       fillers : 0..MaxFillers, ffailures : Nat, fdisabled : BOOLEAN,
       tried : 0..MaxFillers]

\* Whoever has failed too often is disabled.
Latched(s) ==
  /\ s \in St
  /\ s.failures >= MAX_EDIT_FAILURES => s.disabled
  /\ s.ffailures >= MAX_FILLER_FAILURES => s.fdisabled

\* What the draft, the thinking and the fillers leave alone of each other.
SameDraft(s, t) == s.id = t.id /\ s.disabled = t.disabled
SameThinking(s, t) == s.tid = t.tid /\ s.tdisabled = t.tdisabled
SameFillers(s, t) == s.fillers = t.fillers /\ s.tried = t.tried
SameEdits(s, t) == s.failures = t.failures
SamePosts(s, t) == s.ffailures = t.ffailures /\ s.fdisabled = t.fdisabled

LEMMA FreshIs ==
  /\ Latched(Fresh) /\ ~Fresh.id /\ ~Fresh.tid /\ ~Fresh.disabled /\ ~Fresh.tdisabled
  /\ Fresh.fillers = 0 /\ Fresh.tried = 0
BY ReplyAssumption DEF Latched, St, Fresh

\* An update of one field leaves the others.
LEMMA Put_dirty ==
  ASSUME NEW s \in St, NEW v \in BOOLEAN
  PROVE  LET t == [s EXCEPT !.dirty = v]
         IN  /\ t \in St /\ SameDraft(s, t) /\ SameThinking(s, t) /\ SameFillers(s, t)
             /\ SameEdits(s, t) /\ SamePosts(s, t) /\ t.dirty = v
BY DEF St, SameDraft, SameThinking, SameFillers, SameEdits, SamePosts

LEMMA Put_tdirty ==
  ASSUME NEW s \in St, NEW v \in BOOLEAN
  PROVE  LET t == [s EXCEPT !.tdirty = v]
         IN  /\ t \in St /\ SameDraft(s, t) /\ SameThinking(s, t) /\ SameFillers(s, t)
             /\ SameEdits(s, t) /\ SamePosts(s, t) /\ t.tdirty = v
BY DEF St, SameDraft, SameThinking, SameFillers, SameEdits, SamePosts

LEMMA Put_failures ==
  ASSUME NEW s \in St, NEW v \in Nat
  PROVE  LET t == [s EXCEPT !.failures = v]
         IN  /\ t \in St /\ SameDraft(s, t) /\ SameThinking(s, t) /\ SameFillers(s, t)
             /\ SamePosts(s, t) /\ t.failures = v
BY DEF St, SameDraft, SameThinking, SameFillers, SameEdits, SamePosts

LEMMA Put_id ==
  ASSUME NEW s \in St, NEW v \in BOOLEAN
  PROVE  LET t == [s EXCEPT !.id = v]
         IN  /\ t \in St /\ SameThinking(s, t) /\ SameFillers(s, t) /\ SameEdits(s, t)
             /\ SamePosts(s, t) /\ s.disabled = t.disabled /\ t.id = v
BY DEF St, SameDraft, SameThinking, SameFillers, SameEdits, SamePosts

LEMMA Put_disabled ==
  ASSUME NEW s \in St, NEW v \in BOOLEAN
  PROVE  LET t == [s EXCEPT !.disabled = v]
         IN  /\ t \in St /\ SameThinking(s, t) /\ SameFillers(s, t) /\ SameEdits(s, t)
             /\ SamePosts(s, t) /\ s.id = t.id /\ t.disabled = v
BY DEF St, SameDraft, SameThinking, SameFillers, SameEdits, SamePosts

LEMMA Put_tid ==
  ASSUME NEW s \in St, NEW v \in BOOLEAN
  PROVE  LET t == [s EXCEPT !.tid = v]
         IN  /\ t \in St /\ SameDraft(s, t) /\ SameFillers(s, t) /\ SameEdits(s, t)
             /\ SamePosts(s, t) /\ s.tdisabled = t.tdisabled /\ t.tid = v
BY DEF St, SameDraft, SameThinking, SameFillers, SameEdits, SamePosts

LEMMA Put_tdisabled ==
  ASSUME NEW s \in St, NEW v \in BOOLEAN
  PROVE  LET t == [s EXCEPT !.tdisabled = v]
         IN  /\ t \in St /\ SameDraft(s, t) /\ SameFillers(s, t) /\ SameEdits(s, t)
             /\ SamePosts(s, t) /\ s.tid = t.tid /\ t.tdisabled = v
BY DEF St, SameDraft, SameThinking, SameFillers, SameEdits, SamePosts

LEMMA Put_ffailures ==
  ASSUME NEW s \in St, NEW v \in Nat
  PROVE  LET t == [s EXCEPT !.ffailures = v]
         IN  /\ t \in St /\ SameDraft(s, t) /\ SameThinking(s, t) /\ SameFillers(s, t)
             /\ SameEdits(s, t) /\ s.fdisabled = t.fdisabled /\ t.ffailures = v
BY DEF St, SameDraft, SameThinking, SameFillers, SameEdits, SamePosts

LEMMA Put_fdisabled ==
  ASSUME NEW s \in St, NEW v \in BOOLEAN
  PROVE  LET t == [s EXCEPT !.fdisabled = v]
         IN  /\ t \in St /\ SameDraft(s, t) /\ SameThinking(s, t) /\ SameFillers(s, t)
             /\ SameEdits(s, t) /\ s.ffailures = t.ffailures /\ t.fdisabled = v
BY DEF St, SameDraft, SameThinking, SameFillers, SameEdits, SamePosts

LEMMA Put_fillers ==
  ASSUME NEW s \in St, NEW v \in 0..MaxFillers
  PROVE  LET t == [s EXCEPT !.fillers = v]
         IN  /\ t \in St /\ SameDraft(s, t) /\ SameThinking(s, t) /\ SameEdits(s, t)
             /\ SamePosts(s, t) /\ s.tried = t.tried /\ t.fillers = v
BY DEF St, SameDraft, SameThinking, SameFillers, SameEdits, SamePosts

LEMMA Put_tried ==
  ASSUME NEW s \in St, NEW v \in 0..MaxFillers
  PROVE  LET t == [s EXCEPT !.tried = v]
         IN  /\ t \in St /\ SameDraft(s, t) /\ SameThinking(s, t) /\ SameEdits(s, t)
             /\ SamePosts(s, t) /\ s.fillers = t.fillers /\ t.tried = v
BY DEF St, SameDraft, SameThinking, SameFillers, SameEdits, SamePosts

LEMMA DirtyFacts ==
  ASSUME NEW s, Latched(s)
  PROVE  /\ LET t == [s EXCEPT !.dirty = TRUE]
            IN  Latched(t) /\ SameDraft(s, t) /\ SameThinking(s, t) /\ SameFillers(s, t)
         /\ LET t == [s EXCEPT !.dirty = FALSE]
            IN  Latched(t) /\ SameDraft(s, t) /\ SameThinking(s, t) /\ SameFillers(s, t)
         /\ LET t == [s EXCEPT !.tdirty = TRUE]
            IN  Latched(t) /\ SameDraft(s, t) /\ SameThinking(s, t) /\ SameFillers(s, t)
         /\ LET t == [s EXCEPT !.tdirty = FALSE]
            IN  Latched(t) /\ SameDraft(s, t) /\ SameThinking(s, t) /\ SameFillers(s, t)
BY Put_dirty, Put_tdirty DEF Latched, SameDraft, SameEdits, SamePosts

LEMMA FailedFacts ==
  ASSUME NEW s, Latched(s)
  PROVE  LET t == Failed(s)
         IN  Latched(t) /\ s.id = t.id /\ SameThinking(s, t) /\ SameFillers(s, t)
<1> DEFINE v == s.failures + 1
           a == [s EXCEPT !.failures = v]
           b == v >= MAX_EDIT_FAILURES
           t == [a EXCEPT !.disabled = b]
<1>1. s \in St /\ v \in Nat /\ b \in BOOLEAN /\ Failed(s) = t
  BY DEF Latched, St, Failed
<1> HIDE DEF v, b
<1>2. /\ a \in St /\ SameThinking(s, a) /\ SameFillers(s, a) /\ SameDraft(s, a)
      /\ SamePosts(s, a) /\ a.failures = v
  BY <1>1, Put_failures
<1> HIDE DEF a
<1>3. /\ t \in St /\ SameThinking(a, t) /\ SameFillers(a, t) /\ SameEdits(a, t)
      /\ SamePosts(a, t) /\ a.id = t.id /\ t.disabled = b
  BY <1>1, <1>2, Put_disabled
<1> HIDE DEF t
<1>4. SameThinking(s, t) /\ SameFillers(s, t) /\ SamePosts(s, t) /\ s.id = t.id
  BY <1>2, <1>3 DEF SameThinking, SameFillers, SamePosts, SameDraft
<1>5. Latched(t)
  BY <1>2, <1>3, <1>4 DEF Latched, SamePosts, SameEdits, b
<1> QED
  BY <1>1, <1>4, <1>5

LEMMA ThoughtFacts ==
  ASSUME Latched(st), NEW o \in Posts
  PROVE  LET t == Thought(o)
         IN  /\ Latched(t) /\ SameDraft(st, t) /\ SameFillers(st, t)
             /\ t.tid = (o = "ok") /\ t.tdisabled = (o \in {"noid", "error", "lost"})
<1> DEFINE a == [st EXCEPT !.tdirty = FALSE]
           b == [a EXCEPT !.tid = (o = "ok")]
           x == o \in {"noid", "error", "lost"}
           c == [b EXCEPT !.tdisabled = x]
<1>1. a \in St /\ SameDraft(st, a) /\ SameFillers(st, a) /\ SameEdits(st, a) /\ SamePosts(st, a)
  BY Put_tdirty DEF Latched
<1>2. Thought(o) = c /\ x \in BOOLEAN
  BY DEF Thought
<1> HIDE DEF a, x
<1>3. /\ b \in St /\ SameDraft(a, b) /\ SameFillers(a, b) /\ SameEdits(a, b)
      /\ SamePosts(a, b) /\ b.tid = (o = "ok")
  BY <1>1, Put_tid
<1> HIDE DEF b
<1>4. /\ c \in St /\ SameDraft(b, c) /\ SameFillers(b, c) /\ SameEdits(b, c)
      /\ SamePosts(b, c) /\ b.tid = c.tid /\ c.tdisabled = x
  BY <1>2, <1>3, Put_tdisabled
<1> HIDE DEF c
<1>5. SameDraft(st, c) /\ SameFillers(st, c) /\ SameEdits(st, c) /\ SamePosts(st, c)
  BY <1>1, <1>3, <1>4 DEF SameDraft, SameFillers, SameEdits, SamePosts
<1>6. Latched(c)
  BY <1>4, <1>5 DEF Latched, SameDraft, SameEdits, SamePosts
<1> QED
  BY <1>2, <1>3, <1>4, <1>5, <1>6 DEF x

LEMMA EditedFacts ==
  ASSUME NEW s, Latched(s), NEW o \in Calls
  PROVE  LET t == Edited(s, o)
         IN  Latched(t) /\ s.id = t.id /\ SameThinking(s, t) /\ SameFillers(s, t)
<1> DEFINE a == [s EXCEPT !.failures = 0]
<1>1. /\ a \in St /\ SameThinking(s, a) /\ SameFillers(s, a) /\ SameDraft(s, a)
      /\ SamePosts(s, a) /\ a.failures = 0
  BY Put_failures DEF Latched
<1>2. Edited(s, o) \in {a, s, Failed(s)}
  BY DEF Edited
<1> HIDE DEF a
<1>3. Latched(a)
  BY <1>1, ReplyAssumption DEF Latched, SamePosts
<1>4. SameThinking(s, s) /\ SameFillers(s, s)
  BY DEF SameThinking, SameFillers
<1> QED
  BY <1>1, <1>2, <1>3, <1>4, FailedFacts DEF SameDraft

LEMMA DraftedFacts ==
  ASSUME NEW s, Latched(s), ~s.id, NEW o \in Posts
  PROVE  LET t == Drafted(s, o)
         IN  /\ Latched(t) /\ SameThinking(s, t) /\ SameFillers(s, t)
             /\ t.id <=> o = "ok"
             /\ o = "noid" => t.disabled
<1> DEFINE a == [s EXCEPT !.id = TRUE]
           b == [s EXCEPT !.disabled = TRUE]
<1>1. /\ a \in St /\ SameThinking(s, a) /\ SameFillers(s, a) /\ SameEdits(s, a)
      /\ SamePosts(s, a) /\ s.disabled = a.disabled /\ a.id
  BY Put_id DEF Latched
<1>2. /\ b \in St /\ SameThinking(s, b) /\ SameFillers(s, b) /\ SameEdits(s, b)
      /\ SamePosts(s, b) /\ s.id = b.id /\ b.disabled
  BY Put_disabled DEF Latched
<1>3. Drafted(s, o) = (IF o = "ok" THEN a ELSE IF o = "noid" THEN b ELSE IF o = "away" THEN s
                       ELSE Failed(s))
  BY DEF Drafted
<1> HIDE DEF a, b
<1>4. Latched(a) /\ Latched(b)
  BY <1>1, <1>2 DEF Latched, SameEdits, SamePosts
<1>5. SameThinking(s, s) /\ SameFillers(s, s)
  BY DEF SameThinking, SameFillers
<1>6. CASE o = "ok"
  BY <1>1, <1>3, <1>4, <1>6
<1>7. CASE o = "noid"
  BY <1>2, <1>3, <1>4, <1>7
<1>8. CASE o \notin {"ok", "noid"}
  <2>1. Drafted(s, o) \in {s, Failed(s)}
    BY <1>3, <1>8
  <2> QED
    BY <1>5, <1>8, <2>1, FailedFacts
<1> QED
  BY <1>6, <1>7, <1>8

LEMMA FilledFacts ==
  ASSUME Latched(st), st.fillers <= st.tried, st.tried < MaxFillers,
         NEW o \in Posts
  PROVE  LET t == Filled([st EXCEPT !.tried = @ + 1], o)
         IN  /\ Latched(t) /\ SameDraft(st, t) /\ SameThinking(st, t)
             /\ t.fillers = (IF o = "ok" THEN st.fillers + 1 ELSE st.fillers)
             /\ t.fillers <= t.tried
<1> DEFINE v == st.tried + 1
           s == [st EXCEPT !.tried = v]
           a == [s EXCEPT !.ffailures = 0]
           f == st.fillers + 1
           b == [a EXCEPT !.fillers = f]
           n == s.ffailures + 1
           c == [s EXCEPT !.ffailures = n]
           x == n >= MAX_FILLER_FAILURES
           d == [c EXCEPT !.fdisabled = x]
<1>0. /\ MaxFillers \in Nat /\ st \in St /\ st.fillers \in 0..MaxFillers
      /\ st.tried \in 0..MaxFillers
  BY ReplyAssumption DEF Latched, St
<1>1. /\ v \in 0..MaxFillers /\ f \in 0..MaxFillers /\ f <= v /\ st.fillers <= v
  BY <1>0
<1>2. Filled([st EXCEPT !.tried = @ + 1], o)
        = (IF o = "ok" THEN [a EXCEPT !.fillers = s.fillers + 1] ELSE IF o = "noid" THEN a
           ELSE IF o = "away" THEN s ELSE d)
  <2>1. s = [st EXCEPT !.tried = @ + 1] /\ a.fillers = s.fillers
    BY <1>0, <1>1, Put_ffailures, Put_tried DEF SameFillers
  <2>2. [s EXCEPT !.ffailures = 0, !.fillers = @ + 1] = [a EXCEPT !.fillers = s.fillers + 1]
    BY <1>0, <1>1, <2>1
  <2> QED
    BY <2>1, <2>2 DEF Filled
<1> HIDE DEF v, f
<1>3. /\ s \in St /\ SameDraft(st, s) /\ SameThinking(st, s) /\ SameEdits(st, s)
      /\ SamePosts(st, s) /\ st.fillers = s.fillers /\ s.tried = v
  BY <1>0, <1>1, Put_tried
<1> HIDE DEF s
<1>4. /\ a \in St /\ SameDraft(s, a) /\ SameThinking(s, a) /\ SameFillers(s, a)
      /\ SameEdits(s, a) /\ s.fdisabled = a.fdisabled /\ a.ffailures = 0
  BY <1>3, Put_ffailures
<1> HIDE DEF a
<1>5. /\ b \in St /\ SameDraft(a, b) /\ SameThinking(a, b) /\ SameEdits(a, b)
      /\ SamePosts(a, b) /\ a.tried = b.tried /\ b.fillers = f
  BY <1>1, <1>4, Put_fillers
<1>6. n \in Nat /\ x \in BOOLEAN
  BY <1>3 DEF St
<1> HIDE DEF b, n
<1>7. /\ c \in St /\ SameDraft(s, c) /\ SameThinking(s, c) /\ SameFillers(s, c)
      /\ SameEdits(s, c) /\ c.ffailures = n
  BY <1>3, <1>6, Put_ffailures
<1> HIDE DEF c, x
<1>8. /\ d \in St /\ SameDraft(c, d) /\ SameThinking(c, d) /\ SameFillers(c, d)
      /\ SameEdits(c, d) /\ c.ffailures = d.ffailures /\ d.fdisabled = x
  BY <1>6, <1>7, Put_fdisabled
<1> HIDE DEF d
<1>9. /\ SameDraft(st, a) /\ SameDraft(st, b) /\ SameDraft(st, d)
      /\ SameThinking(st, a) /\ SameThinking(st, b) /\ SameThinking(st, d)
      /\ SameEdits(st, a) /\ SameEdits(st, b) /\ SameEdits(st, d)
  BY <1>3, <1>4, <1>5, <1>7, <1>8 DEF SameDraft, SameThinking, SameEdits
<1>10. Latched(s) /\ Latched(a) /\ Latched(b)
  BY <1>3, <1>4, <1>5, <1>9, ReplyAssumption DEF Latched, SameDraft, SameEdits, SamePosts
<1>11. Latched(d)
  BY <1>7, <1>8, <1>9 DEF Latched, SameDraft, SameEdits, x
<1>12. /\ a.fillers = st.fillers /\ a.tried = v /\ b.fillers = f /\ b.tried = v
       /\ d.fillers = st.fillers /\ d.tried = v /\ s.fillers = st.fillers /\ s.tried = v
  BY <1>3, <1>4, <1>5, <1>7, <1>8 DEF SameFillers
<1>13. CASE o = "ok"
  <2>1. Filled([st EXCEPT !.tried = @ + 1], o) = b
    BY <1>2, <1>3, <1>13 DEF b, f
  <2> QED
    BY <1>1, <1>9, <1>10, <1>12, <1>13, <2>1 DEF f
<1>14. CASE o # "ok"
  <2>1. Filled([st EXCEPT !.tried = @ + 1], o) \in {a, s, d}
    BY <1>2, <1>14
  <2> QED
    BY <1>1, <1>3, <1>9, <1>10, <1>11, <1>12, <1>14, <2>1
<1> QED
  BY <1>13, <1>14

AgentTypes ==
  /\ inbox \in Seq(Msgs) /\ turn \in [Msgs -> Turns]
  /\ published \in [Msgs -> 0..MaxDeltas]
  /\ queue \in Seq(Events) /\ Len(queue) <= Capacity
  /\ reply \in [Msgs -> Msgs \cup {"none", "timeout", "refused"}]
  /\ lagged \subseteq Msgs

WorkTypes ==
  /\ phase \in Steps /\ now \in Msgs /\ late \in BOOLEAN /\ Latched(st)
  /\ last \in {"draft", "final"} /\ shown \in [Msgs -> [Kinds -> Nat]]
  /\ bad \in 0..MaxFaults /\ marks \in [Msgs -> SUBSET Marks]

LEMMA ReplyTypes == TypeOK <=> AgentTypes /\ WorkTypes
BY DEF TypeOK, AgentTypes, WorkTypes, Latched, St

-----------------------------------------------------------------------------
(* Queues.                                                                 *)

LEMMA TailFacts ==
  ASSUME NEW S, NEW q \in Seq(S), q # <<>>
  PROVE  /\ Head(q) \in S /\ Tail(q) \in Seq(S) /\ Len(Tail(q)) < Len(q)
         /\ Head(q) \in ToSet(q) /\ ToSet(Tail(q)) \subseteq ToSet(q)
         /\ ToSet(q) = ToSet(Tail(q)) \cup {Head(q)}
         /\ IsInjective(q) => IsInjective(Tail(q)) /\ Head(q) \notin ToSet(Tail(q))
<1> DEFINE t == Tail(q)
           n == Len(q)
<1>1. /\ n \in Nat \ {0} /\ DOMAIN q = 1..n /\ Head(q) = q[1] /\ q[1] \in S
      /\ t \in Seq(S) /\ Len(t) = n - 1 /\ DOMAIN t = 1..(n - 1)
      /\ \A i \in 1..(n - 1) : t[i] = q[i + 1]
  OBVIOUS
<1> HIDE DEF t, n
<1>2. ToSet(t) \subseteq ToSet(q)
  <2> SUFFICES ASSUME NEW i \in 1..(n - 1) PROVE t[i] \in ToSet(q)
    BY <1>1 DEF ToSet
  <2>1. t[i] = q[i + 1] /\ i + 1 \in 1..n
    BY <1>1
  <2> QED
    BY <1>1, <2>1 DEF ToSet
<1>3. ASSUME NEW x \in ToSet(q), x # q[1] PROVE x \in ToSet(t)
  <2>1. PICK i \in 1..n : x = q[i]
    BY <1>1 DEF ToSet
  <2>2. i - 1 \in 1..(n - 1) /\ t[i - 1] = q[i]
    BY <1>1, <1>3, <2>1
  <2> QED
    BY <1>1, <2>1, <2>2 DEF ToSet
<1>4. q[1] \in ToSet(q)
  BY <1>1 DEF ToSet
<1>5. ASSUME IsInjective(q) PROVE IsInjective(t) /\ q[1] \notin ToSet(t)
  <2>1. \A i, j \in 1..n : q[i] = q[j] => i = j
    BY <1>1, <1>5 DEF IsInjective
  <2>2. \A i \in 1..(n - 1) : i + 1 \in 1..n /\ i + 1 # 1
    BY <1>1
  <2>3. IsInjective(t)
    <3> SUFFICES ASSUME NEW i \in 1..(n - 1), NEW j \in 1..(n - 1), t[i] = t[j] PROVE i = j
      BY <1>1 DEF IsInjective
    <3>1. i + 1 = j + 1
      BY <1>1, <2>1, <2>2
    <3> QED
      BY <3>1
  <2>4. q[1] \notin ToSet(t)
    <3> SUFFICES ASSUME NEW i \in 1..(n - 1), q[1] = t[i] PROVE FALSE
      BY <1>1 DEF ToSet
    <3>1. 1 \in 1..n /\ q[1] = q[i + 1]
      BY <1>1
    <3> QED
      BY <2>1, <2>2, <3>1
  <2> QED
    BY <2>3, <2>4
<1> QED
  BY <1>1, <1>2, <1>3, <1>4, <1>5 DEF t, n

LEMMA AppendFacts ==
  ASSUME NEW S, NEW q \in Seq(S), NEW e \in S
  PROVE  /\ Append(q, e) \in Seq(S) /\ Len(Append(q, e)) = Len(q) + 1
         /\ ToSet(q) \subseteq ToSet(Append(q, e)) /\ e \in ToSet(Append(q, e))
<1> DEFINE t == Append(q, e)
           n == Len(q)
<1>1. /\ n \in Nat /\ DOMAIN q = 1..n /\ t \in Seq(S) /\ Len(t) = n + 1 /\ DOMAIN t = 1..(n + 1)
      /\ \A i \in 1..n : t[i] = q[i]
      /\ t[n + 1] = e
  OBVIOUS
<1> HIDE DEF t, n
<1>2. ToSet(q) \subseteq ToSet(t)
  BY <1>1 DEF ToSet
<1>3. e \in ToSet(t)
  BY <1>1 DEF ToSet
<1> QED
  BY <1>1, <1>2, <1>3 DEF t, n

LEMMA EventIs ==
  \A m \in Msgs, k \in {"text", "thinking", "end"} :
    Event(m, k) \in Events /\ Event(m, k).req = m /\ Event(m, k).kind = k
BY DEF Event, Events

\* An event published while somebody listens is received, and one that makes room
\* for it is dropped; if that was the last event of a turn, it is noted.
LEMMA PublishFacts ==
  ASSUME TypeOK, NEW e \in Events, Publish(e)
  PROVE  /\ queue' \in Seq(Events) /\ Len(queue') <= Capacity
         /\ lagged' \subseteq Msgs /\ lagged \subseteq lagged'
         /\ Busy => e \in ToSet(queue')
         /\ \A m \in Msgs : Event(m, "end") \in ToSet(queue) =>
              Event(m, "end") \in ToSet(queue') \/ m \in lagged'
<1>0. queue \in Seq(Events) /\ Len(queue) <= Capacity /\ lagged \subseteq Msgs
      /\ Capacity \in Nat \ {0} /\ Len(queue) \in Nat
  BY ReplyAssumption DEF TypeOK
<1>1. CASE phase = "idle"
  BY <1>0, <1>1 DEF Publish, Busy
<1>2. CASE phase # "idle" /\ Len(queue) # Capacity
  <2>1. queue' = Append(queue, e) /\ lagged' = lagged
    BY <1>2 DEF Publish
  <2> QED
    BY <1>0, <1>2, <2>1, AppendFacts
<1>3. CASE phase # "idle" /\ Len(queue) = Capacity
  <2>1. /\ queue' = Append(Tail(queue), e)
        /\ lagged' = IF Head(queue).kind = "end" THEN lagged \cup {Head(queue).req} ELSE lagged
    BY <1>3 DEF Publish
  <2>2. queue # <<>>
    BY <1>0, <1>3
  <2>3. /\ Head(queue) \in Events /\ Tail(queue) \in Seq(Events) /\ Len(Tail(queue)) < Len(queue)
        /\ ToSet(queue) = ToSet(Tail(queue)) \cup {Head(queue)}
    BY <1>0, <2>2, TailFacts
  <2>4. /\ queue' \in Seq(Events) /\ Len(queue') = Len(Tail(queue)) + 1
        /\ ToSet(Tail(queue)) \subseteq ToSet(queue') /\ e \in ToSet(queue')
    BY <2>1, <2>3, AppendFacts
  <2>5. Len(Tail(queue)) \in Nat
    BY <2>3
  <2>6. Len(queue') <= Capacity
    BY <1>0, <1>3, <2>3, <2>4, <2>5
  <2>7. Head(queue).req \in Msgs
    BY <2>3 DEF Events
  <2>8. ASSUME NEW m \in Msgs, Event(m, "end") \in ToSet(queue),
               Event(m, "end") \notin ToSet(queue')
        PROVE  m \in lagged'
    <3>1. Head(queue) = Event(m, "end")
      BY <2>3, <2>4, <2>8
    <3> QED
      BY <2>1, <3>1, EventIs
  <2> QED
    BY <1>0, <2>1, <2>4, <2>6, <2>7, <2>8
<1> QED
  BY <1>1, <1>2, <1>3

-----------------------------------------------------------------------------
(* Calls and bubbles.                                                      *)

LEMMA GoesFacts ==
  ASSUME TypeOK, NEW o, NEW left \in SUBSET Marks, Goes(o, left)
  PROVE  /\ marks' \in [Msgs -> SUBSET Marks] /\ bad' \in 0..MaxFaults
         /\ marks'[now] = marks[now] \cup left
         /\ \A m \in Msgs \ {now} : marks'[m] = marks[m]
BY ReplyAssumption DEF TypeOK, Goes

LEMMA AddFacts ==
  ASSUME shown \in [Msgs -> [Kinds -> Nat]], now \in Msgs, NEW k \in Kinds, Add(k)
  PROVE  /\ shown' \in [Msgs -> [Kinds -> Nat]]
         /\ shown'[now][k] = shown[now][k] + 1
         /\ \A j \in Kinds \ {k} : shown'[now][j] = shown[now][j]
         /\ \A m \in Msgs \ {now} : shown'[m] = shown[m]
BY DEF Add

LEMMA EraseFacts ==
  ASSUME shown \in [Msgs -> [Kinds -> Nat]], now \in Msgs, NEW k \in Kinds, Erase(k),
         shown[now][k] >= 1
  PROVE  /\ shown' \in [Msgs -> [Kinds -> Nat]]
         /\ shown'[now][k] = shown[now][k] - 1
         /\ \A j \in Kinds \ {k} : shown'[now][j] = shown[now][j]
         /\ \A m \in Msgs \ {now} : shown'[m] = shown[m]
<1>1. shown[now][k] - 1 \in Nat
  OBVIOUS
<1> QED
  BY <1>1 DEF Erase

LEMMA MarkIs == \A c, x : Mark(c, x) = IF c THEN {x} ELSE {}
BY DEF Mark

\* The fields of shown, by name and by kind.
LEMMA KindsOf ==
  /\ {"draft", "thinking", "filler", "final"} = Kinds
  /\ Ephemeral = {"draft", "thinking", "filler"}
  /\ \A f \in [Kinds -> Nat] : /\ f.draft = f["draft"] /\ f.thinking = f["thinking"]
                               /\ f.filler = f["filler"] /\ f.final = f["final"]
                               /\ \A k \in Kinds : f[k] \in Nat
BY DEF Kinds, Ephemeral

\* One bubble more, or one less, of one kind, and the others as they are.
LEMMA AddFields ==
  ASSUME TypeOK, NEW k \in Kinds, Add(k)
  PROVE  /\ shown' \in [Msgs -> [Kinds -> Nat]]
         /\ shown'[now].draft = IF k = "draft" THEN shown[now].draft + 1 ELSE shown[now].draft
         /\ shown'[now].thinking
              = IF k = "thinking" THEN shown[now].thinking + 1 ELSE shown[now].thinking
         /\ shown'[now].filler = IF k = "filler" THEN shown[now].filler + 1 ELSE shown[now].filler
         /\ shown'[now].final = IF k = "final" THEN shown[now].final + 1 ELSE shown[now].final
         /\ \A m \in Msgs \ {now} : shown'[m] = shown[m]
<1>1. shown \in [Msgs -> [Kinds -> Nat]] /\ now \in Msgs
  BY DEF TypeOK
<1>2. /\ shown' \in [Msgs -> [Kinds -> Nat]]
      /\ shown'[now][k] = shown[now][k] + 1
      /\ \A j \in Kinds \ {k} : shown'[now][j] = shown[now][j]
      /\ \A m \in Msgs \ {now} : shown'[m] = shown[m]
  BY <1>1, AddFacts
<1>3. shown[now] \in [Kinds -> Nat] /\ shown'[now] \in [Kinds -> Nat]
  BY <1>1, <1>2
<1> QED
  BY <1>2, <1>3, KindsOf

LEMMA EraseFields ==
  ASSUME TypeOK, NEW k \in Kinds, Erase(k), shown[now][k] >= 1
  PROVE  /\ shown' \in [Msgs -> [Kinds -> Nat]]
         /\ shown'[now].draft = IF k = "draft" THEN shown[now].draft - 1 ELSE shown[now].draft
         /\ shown'[now].thinking
              = IF k = "thinking" THEN shown[now].thinking - 1 ELSE shown[now].thinking
         /\ shown'[now].filler = IF k = "filler" THEN shown[now].filler - 1 ELSE shown[now].filler
         /\ shown'[now].final = IF k = "final" THEN shown[now].final - 1 ELSE shown[now].final
         /\ \A m \in Msgs \ {now} : shown'[m] = shown[m]
<1>1. shown \in [Msgs -> [Kinds -> Nat]] /\ now \in Msgs
  BY DEF TypeOK
<1>2. /\ shown' \in [Msgs -> [Kinds -> Nat]]
      /\ shown'[now][k] = shown[now][k] - 1
      /\ \A j \in Kinds \ {k} : shown'[now][j] = shown[now][j]
      /\ \A m \in Msgs \ {now} : shown'[m] = shown[m]
  BY <1>1, EraseFacts
<1>3. shown[now] \in [Kinds -> Nat] /\ shown'[now] \in [Kinds -> Nat]
  BY <1>1, <1>2
<1> QED
  BY <1>2, <1>3, KindsOf

LEMMA Counts ==
  ASSUME TypeOK
  PROVE  /\ shown[now].draft \in Nat /\ shown[now].thinking \in Nat
         /\ shown[now].filler \in Nat /\ shown[now].final \in Nat
<1>1. shown[now] \in [Kinds -> Nat]
  BY DEF TypeOK
<1> QED
  BY <1>1, KindsOf

-----------------------------------------------------------------------------
(* What leaves the books of one kind alone.                                *)

LEMMA ThinkingStays ==
  ASSUME ThinkingBooks, now' = now, shown'[now].thinking = shown[now].thinking,
         SameThinking(st, st'), marks[now] \subseteq marks'[now],
         phase = "clean" => phase' = "clean"
  PROVE  ThinkingBooks'
BY DEF ThinkingBooks, SameThinking

LEMMA FillersStay ==
  ASSUME FillerBooks, now' = now, shown'[now].filler = shown[now].filler,
         SameFillers(st, st'), marks[now] \subseteq marks'[now]
  PROVE  FillerBooks'
BY DEF FillerBooks, SameFillers

LEMMA DraftStays ==
  ASSUME DraftBooks, now' = now, shown'[now].draft = shown[now].draft,
         marks[now] \subseteq marks'[now],
         \/ /\ phase \in Answering /\ phase' \in Answering /\ st'.id = st.id
            /\ st.disabled => st'.disabled \/ st'.id
         \/ phase = "clean" /\ phase' = "clean"
  PROVE  DraftBooks'
BY DEF DraftBooks, Answering

LEMMA FinalStays ==
  ASSUME FinalBooks, now' = now, shown'[now].final = shown[now].final,
         marks[now] \subseteq marks'[now],
         \/ phase \in Answering /\ phase' \in Answering
         \/ phase = "clean" /\ phase' = "clean"
  PROVE  FinalBooks'
BY DEF FinalBooks, Answering

\* A step of handle() that touches no bubble.
LEMMA BooksStay ==
  ASSUME Books, now' = now, shown' = shown, marks' = marks, last' = last,
         SameDraft(st, st'), SameThinking(st, st'), SameFillers(st, st'),
         \/ phase' = phase
         \/ phase \in Answering /\ phase' \in Answering \ {"start"}
  PROVE  Books'
<1>1. ThinkingBooks'
  BY ThinkingStays DEF Books, Answering
<1>2. FillerBooks'
  BY FillersStay DEF Books
<1>3. DraftBooks'
  BY DEF Books, DraftBooks, Answering, SameDraft
<1>4. FinalBooks'
  BY DEF Books, FinalBooks, Answering
<1> QED
  BY <1>1, <1>2, <1>3, <1>4 DEF Books, Answering, SameDraft

\* While handle() is busy with a message the others keep what they have.
LEMMA OthersStay ==
  ASSUME ReplyBooks, Busy, Busy', inbox' = inbox, now' = now, Books',
         \A m \in Msgs \ {now} : shown'[m] = shown[m] /\ marks'[m] = marks[m]
  PROVE  InboxInv' /\ BubblesEvolve' /\ ReplyInv'
<1>1. now \notin Waiting /\ Waiting' = Waiting /\ Waiting \subseteq Msgs /\ now \in Msgs
  <2>1. inbox \in Seq(Msgs) /\ now \in Msgs
    BY DEF ReplyBooks, TypeOK
  <2>2. Waiting \subseteq Msgs
    BY <2>1 DEF Waiting, ToSet
  <2> QED
    BY <2>1, <2>2 DEF ReplyBooks, InboxInv, Waiting
<1>2. InboxInv'
  BY <1>1 DEF ReplyBooks, InboxInv
<1>3. BubblesEvolve'
  BY DEF ReplyBooks, BubbleInv, BubblesEvolve, Books, ThinkingBooks, DraftBooks
<1>4. \A m \in Msgs : Handled(m)' => Handled(m) /\ m # now
  BY <1>1 DEF Handled, Busy
<1>5. ReplyInv'
  BY <1>4 DEF ReplyBooks, ReplyInv, ReplyStands, NothingLeft
<1> QED
  BY <1>2, <1>3, <1>5

LEMMA EndStays ==
  ASSUME EndInv, agent' = agent, queue' = queue, now' = now, lagged' = lagged,
         phase' \in {"enter", "loop", "flush"} => phase \in {"enter", "loop", "flush"}
  PROVE  EndInv'
BY DEF EndInv, agent, Event

LEMMA AgentStays ==
  ASSUME AgentTypes, inbox' = inbox, agent' = agent, queue' = queue, reply' = reply,
         lagged' = lagged
  PROVE  AgentTypes'
BY DEF AgentTypes, agent

\* What a call of the backend leaves when its own books are right.
LEMMA CallKeeps ==
  ASSUME ReplyBooks, Busy, Busy', inbox' = inbox, agent' = agent, queue' = queue, now' = now,
         reply' = reply, lagged' = lagged, WorkTypes', Books',
         \A m \in Msgs \ {now} : shown'[m] = shown[m] /\ marks'[m] = marks[m],
         phase' \in {"enter", "loop", "flush"} => phase \in {"enter", "loop", "flush"}
  PROVE  ReplyBooks'
<1>1. InboxInv' /\ BubblesEvolve' /\ ReplyInv'
  BY OthersStay
<1>2. EndInv'
  BY EndStays DEF ReplyBooks
<1>3. AgentTypes
  BY ReplyTypes DEF ReplyBooks
<1>4. AgentTypes'
  BY <1>3, AgentStays
<1>5. TypeOK'
  BY <1>4 DEF TypeOK, AgentTypes, WorkTypes, Latched, St
<1>6. OwnAnswer'
  BY DEF ReplyBooks, BubbleInv, OwnAnswer
<1> QED
  BY <1>1, <1>2, <1>5, <1>6 DEF ReplyBooks, BubbleInv

-----------------------------------------------------------------------------
(* The calls of the backend.                                               *)

LEMMA WorkIs ==
  ASSUME ReplyBooks
  PROVE  TypeOK /\ AgentTypes /\ WorkTypes /\ Latched(st) /\ now \in Msgs
         /\ shown \in [Msgs -> [Kinds -> Nat]] /\ (Busy => Books)
BY ReplyTypes DEF ReplyBooks, WorkTypes

LEMMA CallDone ==
  ASSUME ReplyBooks, Busy, Busy',
         UNCHANGED <<inbox, agent, queue, now, late, reply, lagged>>,
         NEW o, NEW left \in SUBSET Marks, Goes(o, left), Latched(st'),
         last' \in {"draft", "final"},
         shown' \in [Msgs -> [Kinds -> Nat]], Books', phase' \in Steps,
         \A m \in Msgs \ {now} : shown'[m] = shown[m],
         phase' \in {"enter", "loop", "flush"} => phase \in {"enter", "loop", "flush"}
  PROVE  ReplyBooks'
<1>1. TypeOK /\ WorkTypes
  BY WorkIs
<1>2. /\ marks' \in [Msgs -> SUBSET Marks] /\ bad' \in 0..MaxFaults
      /\ \A m \in Msgs \ {now} : marks'[m] = marks[m]
  BY <1>1, GoesFacts
<1>3. WorkTypes'
  BY <1>1, <1>2 DEF WorkTypes
<1> QED
  BY <1>2, <1>3, CallKeeps

\* A bubble of the kind k was posted, or was not.
Posted(o, k) ==
  /\ shown' \in [Msgs -> [Kinds -> Nat]]
  /\ \A m \in Msgs \ {now} : shown'[m] = shown[m]
  /\ shown'[now].draft
       = IF k = "draft" /\ Done(o) THEN shown[now].draft + 1 ELSE shown[now].draft
  /\ shown'[now].thinking
       = IF k = "thinking" /\ Done(o) THEN shown[now].thinking + 1 ELSE shown[now].thinking
  /\ shown'[now].filler
       = IF k = "filler" /\ Done(o) THEN shown[now].filler + 1 ELSE shown[now].filler
  /\ shown'[now].final
       = IF k = "final" /\ Done(o) THEN shown[now].final + 1 ELSE shown[now].final

LEMMA PostCounts ==
  ASSUME TypeOK, NEW o, NEW k \in Kinds, IF Done(o) THEN Add(k) ELSE UNCHANGED shown
  PROVE  Posted(o, k)
<1>1. CASE Done(o)
  BY <1>1, AddFields DEF Posted
<1>2. CASE ~Done(o)
  BY <1>2 DEF TypeOK, Posted
<1> QED
  BY <1>1, <1>2

LEMMA PostMarks ==
  ASSUME TypeOK, NEW o,
         Goes(o, Mark(o = "noid", "stuck") \cup Mark(o = "lost", "lost"))
  PROVE  /\ Mark(o = "noid", "stuck") \cup Mark(o = "lost", "lost") \in SUBSET Marks
         /\ marks[now] \subseteq marks'[now]
         /\ o = "noid" => "stuck" \in marks'[now]
         /\ o = "lost" => "lost" \in marks'[now]
<1> DEFINE left == Mark(o = "noid", "stuck") \cup Mark(o = "lost", "lost")
<1>1. /\ left = (IF o = "noid" THEN {"stuck"} ELSE IF o = "lost" THEN {"lost"} ELSE {})
      /\ left \in SUBSET Marks
  BY MarkIs DEF Marks
<1> HIDE DEF left
<1>2. Goes(o, left)
  BY DEF left
<1>3. marks'[now] = marks[now] \cup left
  BY <1>1, <1>2, GoesFacts
<1> QED
  BY <1>1, <1>3 DEF left

LEMMA ThinkingFlushed ==
  ASSUME ReplyBooks, NEW o \in Posts, FlushThinking(o)
  PROVE  ReplyBooks'
<1> DEFINE s == [st EXCEPT !.tdirty = FALSE]
<1>1. /\ phase = "flush" /\ st.tdirty /\ ~st.tdisabled /\ phase' \in {"flush", "loop"}
      /\ UNCHANGED <<inbox, agent, queue, now, late, last, reply, lagged>>
  BY DEF FlushThinking, ThinkingDue
<1>2. Busy /\ Busy' /\ Books /\ TypeOK /\ WorkTypes /\ Latched(st) /\ now \in Msgs
  BY <1>1, WorkIs DEF Busy
<1>3. last' \in {"draft", "final"} /\ phase' \in Steps
  BY <1>1, <1>2 DEF WorkTypes, Steps
<1>4. CASE st.tid
  <2>1. Goes(o, {}) /\ st' = s /\ shown' = shown
    BY <1>4 DEF FlushThinking
  <2>2. Latched(st') /\ SameDraft(st, st') /\ SameThinking(st, st') /\ SameFillers(st, st')
    BY <1>2, <2>1, DirtyFacts
  <2>3. marks' = marks
    BY <1>2, <2>1 DEF Goes, WorkTypes
  <2>4. Books'
    BY <1>1, <1>2, <2>1, <2>2, <2>3, BooksStay DEF Answering
  <2>5. shown' \in [Msgs -> [Kinds -> Nat]] /\ \A m \in Msgs \ {now} : shown'[m] = shown[m]
    BY <1>2, <2>1 DEF WorkTypes
  <2> QED
    BY <1>1, <1>2, <1>3, <2>1, <2>2, <2>4, <2>5, CallDone
<1>5. CASE ~st.tid
  <2> DEFINE left == Mark(o = "noid", "stuck") \cup Mark(o = "lost", "lost")
  <2>1. Goes(o, left) /\ st' = Thought(o) /\ Posted(o, "thinking")
    <3>1. IF Done(o) THEN Add("thinking") ELSE UNCHANGED shown
      BY <1>5 DEF FlushThinking
    <3> QED
      BY <1>2, <1>5, <3>1, PostCounts DEF FlushThinking, Kinds
  <2>2. /\ left \in SUBSET Marks /\ marks[now] \subseteq marks'[now]
        /\ o = "noid" => "stuck" \in marks'[now]
        /\ o = "lost" => "lost" \in marks'[now]
    BY <1>2, <2>1, PostMarks
  <2> HIDE DEF left
  <2>3. /\ Latched(st') /\ SameDraft(st, st') /\ SameFillers(st, st')
        /\ st'.tid <=> o = "ok"
        /\ o \in {"noid", "lost"} => st'.tdisabled
    BY <1>2, <2>1, ThoughtFacts
  <2>4. shown[now].thinking = 0
    BY <1>1, <1>2, <1>5, Counts DEF Books, ThinkingBooks
  <2>5. ThinkingBooks'
    <3>1. shown'[now'].thinking = IF o \in {"ok", "noid", "lost"} THEN 1 ELSE 0
      BY <1>1, <2>1, <2>4 DEF Posted, Done
    <3> QED
      BY <1>1, <2>2, <2>3, <3>1 DEF ThinkingBooks
  <2>6. FillerBooks' /\ DraftBooks' /\ FinalBooks'
    BY <1>1, <1>2, <2>1, <2>2, <2>3, FillersStay, DraftStays, FinalStays
       DEF Books, Answering, SameDraft, Posted
  <2>7. Books'
    BY <1>1, <2>5, <2>6 DEF Books
  <2> QED
    BY <1>1, <1>2, <1>3, <2>1, <2>2, <2>3, <2>7, CallDone DEF Posted
<1> QED
  BY <1>4, <1>5

LEMMA DraftFlushed ==
  ASSUME ReplyBooks, NEW o \in Posts, FlushDraft(o)
  PROVE  ReplyBooks'
<1> DEFINE s == [st EXCEPT !.dirty = FALSE]
<1>1. /\ phase = "flush" /\ ~st.disabled /\ phase' = "loop"
      /\ UNCHANGED <<inbox, agent, queue, now, late, last, reply, lagged>>
  BY DEF FlushDraft, DraftDue
<1>2. Busy /\ Busy' /\ Books /\ TypeOK /\ WorkTypes /\ Latched(st) /\ now \in Msgs
  BY <1>1, WorkIs DEF Busy
<1>3. last' \in {"draft", "final"} /\ phase' \in Steps
  BY <1>1, <1>2 DEF WorkTypes, Steps
<1>4. Latched(s) /\ SameDraft(st, s) /\ SameThinking(st, s) /\ SameFillers(st, s)
  BY <1>2, DirtyFacts
<1>5. CASE st.id
  <2>1. o \in Calls /\ Goes(o, {}) /\ st' = Edited(s, o) /\ shown' = shown
    BY <1>5 DEF FlushDraft
  <2> HIDE DEF s
  <2>2. Latched(st') /\ s.id = st'.id /\ SameThinking(s, st') /\ SameFillers(s, st')
    BY <1>4, <2>1, EditedFacts
  <2>3. st'.id = st.id /\ SameThinking(st, st') /\ SameFillers(st, st')
    BY <1>4, <2>2 DEF SameDraft, SameThinking, SameFillers
  <2>4. marks' = marks
    BY <1>2, <2>1 DEF Goes, WorkTypes
  <2>5. ThinkingBooks' /\ FillerBooks' /\ DraftBooks' /\ FinalBooks'
    BY <1>1, <1>2, <1>5, <2>1, <2>3, <2>4, ThinkingStays, FillersStay, DraftStays, FinalStays
       DEF Books, Answering
  <2>6. Books'
    BY <1>1, <2>5 DEF Books
  <2>7. shown' \in [Msgs -> [Kinds -> Nat]] /\ \A m \in Msgs \ {now} : shown'[m] = shown[m]
    BY <1>2, <2>1 DEF WorkTypes
  <2> QED
    BY <1>1, <1>2, <1>3, <2>1, <2>2, <2>6, <2>7, CallDone
<1>6. CASE ~st.id
  <2> DEFINE left == Mark(o = "noid", "stuck") \cup Mark(o = "lost", "lost")
  <2>1. Goes(o, left) /\ st' = Drafted(s, o) /\ Posted(o, "draft")
    <3>1. IF Done(o) THEN Add("draft") ELSE UNCHANGED shown
      BY <1>6 DEF FlushDraft
    <3> QED
      BY <1>2, <1>6, <3>1, PostCounts DEF FlushDraft, Kinds
  <2>2. /\ left \in SUBSET Marks /\ marks[now] \subseteq marks'[now]
        /\ o = "noid" => "stuck" \in marks'[now]
        /\ o = "lost" => "lost" \in marks'[now]
    BY <1>2, <2>1, PostMarks
  <2> HIDE DEF left, s
  <2>3. /\ Latched(st') /\ SameThinking(s, st') /\ SameFillers(s, st')
        /\ st'.id <=> o = "ok"
        /\ o = "noid" => st'.disabled
    BY <1>4, <1>6, <2>1, DraftedFacts DEF SameDraft
  <2>4. SameThinking(st, st') /\ SameFillers(st, st')
    BY <1>4, <2>3 DEF SameThinking, SameFillers
  <2>5. "lost" \notin marks[now] => shown[now].draft = 0
    BY <1>1, <1>2, <1>6, Counts DEF Books, DraftBooks, Answering
  <2>6. DraftBooks'
    <3>1. /\ o = "ok" => shown'[now'].draft >= 1
          /\ "lost" \notin marks'[now'] =>
               shown'[now'].draft = IF o \in {"ok", "noid"} THEN 1 ELSE 0
      BY <1>1, <1>2, <2>1, <2>2, <2>5, Counts DEF Posted, Done
    <3> QED
      BY <1>1, <2>2, <2>3, <3>1 DEF DraftBooks, Answering
  <2>7. FillerBooks' /\ ThinkingBooks' /\ FinalBooks'
    BY <1>1, <1>2, <2>1, <2>2, <2>4, FillersStay, ThinkingStays, FinalStays
       DEF Books, Answering, Posted
  <2>8. Books'
    BY <1>1, <2>6, <2>7 DEF Books
  <2> QED
    BY <1>1, <1>2, <1>3, <2>1, <2>2, <2>3, <2>8, CallDone DEF Posted
<1> QED
  BY <1>5, <1>6

LEMMA FillerSent ==
  ASSUME ReplyBooks, NEW o \in Posts, SendFiller(o)
  PROVE  ReplyBooks'
<1> DEFINE left == Mark(o = "noid", "stuck") \cup Mark(o = "lost", "lost")
<1>1. /\ phase = "loop" /\ st.tried < MaxFillers /\ phase' = phase
      /\ Goes(o, left) /\ st' = Filled([st EXCEPT !.tried = @ + 1], o)
      /\ IF Done(o) THEN Add("filler") ELSE UNCHANGED shown
      /\ UNCHANGED <<inbox, agent, queue, now, late, last, reply, lagged>>
  BY DEF SendFiller
<1>2. Busy /\ Busy' /\ Books /\ TypeOK /\ WorkTypes /\ Latched(st) /\ now \in Msgs
  BY <1>1, WorkIs DEF Busy
<1>3. last' \in {"draft", "final"} /\ phase' \in Steps
  BY <1>1, <1>2 DEF WorkTypes, Steps
<1>4. Posted(o, "filler")
  BY <1>1, <1>2, PostCounts DEF Kinds
<1>5. /\ left \in SUBSET Marks /\ marks[now] \subseteq marks'[now]
      /\ o = "noid" => "stuck" \in marks'[now]
      /\ o = "lost" => "lost" \in marks'[now]
  BY <1>1, <1>2, PostMarks
<1> HIDE DEF left
<1>6. /\ st.fillers <= st.tried /\ st.fillers <= shown[now].filler /\ st.fillers \in Nat
      /\ marks[now] \cap {"lost", "stuck"} = {} => shown[now].filler = st.fillers
  BY <1>2 DEF Books, FillerBooks, Latched, St
<1>7. /\ Latched(st') /\ SameDraft(st, st') /\ SameThinking(st, st')
      /\ st'.fillers = (IF o = "ok" THEN st.fillers + 1 ELSE st.fillers)
      /\ st'.fillers <= st'.tried
  BY <1>1, <1>2, <1>6, FilledFacts
<1>8. FillerBooks'
  <2>1. /\ st'.fillers <= shown'[now'].filler
        /\ o \notin {"noid", "lost"} /\ shown[now].filler = st.fillers
             => shown'[now'].filler = st'.fillers
    <3>1. /\ shown[now].filler \in Nat
          /\ shown'[now].filler
               = IF o \in {"ok", "noid", "lost"} THEN shown[now].filler + 1 ELSE shown[now].filler
      BY <1>2, <1>4, Counts DEF Posted, Done
    <3>2. now' = now
      BY <1>1
    <3> QED
      BY <1>6, <1>7, <3>1, <3>2
  <2> QED
    BY <1>1, <1>5, <1>6, <1>7, <2>1 DEF FillerBooks
<1>9. ThinkingBooks' /\ DraftBooks' /\ FinalBooks'
  BY <1>1, <1>2, <1>4, <1>5, <1>7, ThinkingStays, DraftStays, FinalStays
     DEF Books, Answering, SameDraft, Posted
<1>10. Books'
  BY <1>1, <1>8, <1>9 DEF Books
<1> QED
  BY <1>1, <1>2, <1>3, <1>4, <1>5, <1>7, <1>10, CallDone DEF Posted

-----------------------------------------------------------------------------
(* The end of an answer.                                                   *)

\* A call that only may be marked with what did not go well.
LEMMA CallMarks ==
  ASSUME TypeOK, NEW o, NEW left \in SUBSET Marks, Goes(o, left)
  PROVE  marks[now] \subseteq marks'[now] /\ left \subseteq marks'[now]
         /\ ("lost" \in marks'[now] => "lost" \in marks[now] \/ "lost" \in left)
BY GoesFacts

LEMMA DraftFinal ==
  ASSUME TypeOK, shown[now].draft >= 1,
         shown' = [shown EXCEPT ![now].draft = @ - 1, ![now].final = @ + 1]
  PROVE  /\ shown' \in [Msgs -> [Kinds -> Nat]]
         /\ \A m \in Msgs \ {now} : shown'[m] = shown[m]
         /\ shown'[now].draft = shown[now].draft - 1
         /\ shown'[now].final = shown[now].final + 1
         /\ shown'[now].thinking = shown[now].thinking
         /\ shown'[now].filler = shown[now].filler
<1>1. shown \in [Msgs -> [Kinds -> Nat]] /\ now \in Msgs
  BY DEF TypeOK
<1> DEFINE f == shown[now]
           g == [f EXCEPT !.draft = @ - 1]
           h == [g EXCEPT !.final = @ + 1]
<1>2. f \in [Kinds -> Nat] /\ f.draft \in Nat /\ f.draft >= 1
  BY <1>1, KindsOf
<1>3. /\ g \in [Kinds -> Nat] /\ g.draft = f.draft - 1 /\ g.thinking = f.thinking
      /\ g.filler = f.filler /\ g.final = f.final
  BY <1>2, KindsOf DEF Kinds
<1> HIDE DEF g
<1>4. /\ h \in [Kinds -> Nat] /\ h.draft = g.draft /\ h.thinking = g.thinking
      /\ h.filler = g.filler /\ h.final = g.final + 1
  BY <1>3, KindsOf DEF Kinds
<1>5. shown' = [shown EXCEPT ![now] = h]
  BY <1>1 DEF g
<1> HIDE DEF h
<1>6. /\ shown' \in [Msgs -> [Kinds -> Nat]] /\ shown'[now] = h
      /\ \A m \in Msgs \ {now} : shown'[m] = shown[m]
  BY <1>1, <1>4, <1>5
<1> QED
  BY <1>3, <1>4, <1>6

LEMMA Finalized ==
  ASSUME ReplyBooks, NEW o \in Posts, FinalEdit(o)
  PROVE  ReplyBooks'
<1> DEFINE left == Mark(o = "away", "unsent") \cup Mark(o = "away", "stuck")
<1>1. /\ phase = "finish" /\ st.id /\ o \in Calls /\ Goes(o, left)
      /\ phase' = IF o \in {"ok", "away"} THEN "clean" ELSE "orphan"
      /\ IF Done(o) THEN shown' = [shown EXCEPT ![now].draft = @ - 1, ![now].final = @ + 1]
         ELSE shown' = shown
      /\ last' = IF Done(o) THEN "final" ELSE "draft"
      /\ UNCHANGED <<inbox, agent, queue, now, late, st, reply, lagged>>
  BY DEF FinalEdit
<1>2. Busy /\ Busy' /\ Books /\ TypeOK /\ WorkTypes /\ Latched(st) /\ now \in Msgs
  BY <1>1, WorkIs DEF Busy
<1>3. last' \in {"draft", "final"} /\ phase' \in Steps /\ Latched(st')
      /\ phase' \notin {"enter", "loop", "flush"} /\ phase' \notin Answering
  BY <1>1, <1>2 DEF Steps, Answering
<1>4. left = (IF o = "away" THEN {"stuck", "unsent"} ELSE {}) /\ left \in SUBSET Marks
  BY MarkIs DEF Marks
<1> HIDE DEF left
<1>5. /\ marks[now] \subseteq marks'[now]
      /\ o = "away" => "stuck" \in marks'[now] /\ "unsent" \in marks'[now]
      /\ "lost" \in marks'[now] => "lost" \in marks[now]
  BY <1>1, <1>2, <1>4, CallMarks
<1>6. /\ shown[now].draft \in Nat /\ shown[now].draft >= 1 /\ shown[now].final = 0
      /\ "lost" \notin marks[now] => shown[now].draft = 1
  BY <1>1, <1>2, Counts DEF Books, DraftBooks, FinalBooks, Answering
<1>7. /\ shown' \in [Msgs -> [Kinds -> Nat]]
      /\ \A m \in Msgs \ {now} : shown'[m] = shown[m]
      /\ shown'[now].draft = IF Done(o) THEN shown[now].draft - 1 ELSE shown[now].draft
      /\ shown'[now].final = IF Done(o) THEN 1 ELSE 0
      /\ shown'[now].thinking = shown[now].thinking
      /\ shown'[now].filler = shown[now].filler
  <2>1. CASE Done(o)
    BY <1>1, <1>2, <1>6, <2>1, DraftFinal
  <2>2. CASE ~Done(o)
    BY <1>1, <1>2, <1>6, <2>2 DEF WorkTypes
  <2> QED
    BY <2>1, <2>2
<1>8. SameThinking(st, st') /\ SameFillers(st, st')
  BY <1>1 DEF SameThinking, SameFillers
<1>9. ThinkingBooks' /\ FillerBooks'
  BY <1>1, <1>2, <1>5, <1>7, <1>8, ThinkingStays, FillersStay DEF Books
<1>10. shown'[now'] \in [Kinds -> Nat] /\ now' = now
  BY <1>1, <1>2, <1>7
<1>11. ASSUME o = "ok" PROVE Books'
  <2>1. /\ phase' = "clean" /\ shown'[now'].draft = shown[now].draft - 1
        /\ shown'[now'].final = 1
    BY <1>1, <1>7, <1>11 DEF Done
  <2> QED
    BY <1>1, <1>5, <1>6, <1>9, <2>1 DEF Books, DraftBooks, FinalBooks, Answering
<1>12. ASSUME o = "lost" PROVE Books'
  <2>1. /\ phase' = "orphan" /\ last' = "final" /\ shown'[now'].draft = shown[now].draft - 1
        /\ shown'[now'].final = 1 /\ shown'[now'][last'] = shown'[now'].final
    BY <1>1, <1>7, <1>10, <1>12, KindsOf DEF Done
  <2> QED
    BY <1>1, <1>5, <1>6, <1>9, <2>1 DEF Books, DraftBooks, FinalBooks, Answering
<1>13. ASSUME o = "error" PROVE Books'
  <2>1. /\ phase' = "orphan" /\ last' = "draft" /\ shown'[now'].draft = shown[now].draft
        /\ shown'[now'].final = 0 /\ shown'[now'][last'] = shown'[now'].draft
    BY <1>1, <1>7, <1>10, <1>13, KindsOf DEF Done
  <2> QED
    BY <1>1, <1>5, <1>6, <1>9, <2>1 DEF Books, DraftBooks, FinalBooks, Answering
<1>14. ASSUME o = "away" PROVE Books'
  <2>1. /\ phase' = "clean" /\ shown'[now'].draft = shown[now].draft
        /\ shown'[now'].final = 0
    BY <1>1, <1>7, <1>14 DEF Done
  <2> QED
    BY <1>1, <1>5, <1>6, <1>9, <1>14, <2>1 DEF Books, DraftBooks, FinalBooks, Answering
<1>15. Books'
  BY <1>1, <1>11, <1>12, <1>13, <1>14 DEF Calls
<1> QED
  BY <1>1, <1>2, <1>3, <1>4, <1>7, <1>15, CallDone

LEMMA OrphanDeleted ==
  ASSUME ReplyBooks, NEW o \in Posts, DeleteOrphan(o)
  PROVE  ReplyBooks'
<1> DEFINE left == Mark(~Done(o), "stuck")
<1>1. /\ phase = "orphan" /\ phase' = "send" /\ Goes(o, left)
      /\ IF Done(o) THEN Erase(last) ELSE shown' = shown
      /\ UNCHANGED <<inbox, agent, queue, now, late, st, last, reply, lagged>>
  BY DEF DeleteOrphan
<1>2. /\ Busy /\ Busy' /\ Books /\ TypeOK /\ WorkTypes /\ Latched(st) /\ now \in Msgs
      /\ last \in {"draft", "final"} /\ last \in Kinds
  BY <1>1, WorkIs DEF Busy, WorkTypes, Kinds
<1>3. /\ last' \in {"draft", "final"} /\ phase' \in Steps /\ Latched(st')
      /\ phase' \notin {"enter", "loop", "flush"} /\ phase' \notin Answering
  BY <1>1, <1>2 DEF Steps, Answering
<1>4. left = (IF Done(o) THEN {} ELSE {"stuck"}) /\ left \in SUBSET Marks
  BY MarkIs DEF Marks
<1> HIDE DEF left
<1>5. /\ marks[now] \subseteq marks'[now]
      /\ ~Done(o) => "stuck" \in marks'[now]
      /\ "lost" \in marks'[now] => "lost" \in marks[now]
  BY <1>1, <1>2, <1>4, CallMarks
<1>6. /\ shown[now].draft \in Nat /\ shown[now].final \in Nat
      /\ shown[now].final = (IF last = "final" THEN 1 ELSE 0)
      /\ shown[now][last] >= 1
      /\ last = "draft" => shown[now].draft >= 1
      /\ "lost" \notin marks[now] => shown[now].draft = IF last = "final" THEN 0 ELSE 1
  <2>1. shown[now] \in [Kinds -> Nat]
    BY <1>2 DEF TypeOK
  <2>2. /\ last = "draft" => shown[now][last] = shown[now].draft
        /\ last = "final" => shown[now][last] = shown[now].final
    BY <2>1, KindsOf
  <2> QED
    BY <1>1, <1>2, <2>2, Counts DEF Books, DraftBooks, FinalBooks, Answering
<1>7. /\ shown' \in [Msgs -> [Kinds -> Nat]]
      /\ \A m \in Msgs \ {now} : shown'[m] = shown[m]
      /\ shown'[now].draft
           = IF Done(o) /\ last = "draft" THEN shown[now].draft - 1 ELSE shown[now].draft
      /\ shown'[now].final
           = IF Done(o) /\ last = "final" THEN shown[now].final - 1 ELSE shown[now].final
      /\ shown'[now].thinking = shown[now].thinking
      /\ shown'[now].filler = shown[now].filler
  <2>1. CASE Done(o)
    BY <1>1, <1>2, <1>6, <2>1, EraseFields
  <2>2. CASE ~Done(o)
    BY <1>1, <1>2, <1>6, <2>2 DEF WorkTypes
  <2> QED
    BY <2>1, <2>2
<1>8. SameThinking(st, st') /\ SameFillers(st, st')
  BY <1>1 DEF SameThinking, SameFillers
<1>9. ThinkingBooks' /\ FillerBooks'
  BY <1>1, <1>2, <1>5, <1>7, <1>8, ThinkingStays, FillersStay DEF Books
<1>10. DraftBooks' /\ FinalBooks'
  <2>1. /\ shown'[now'].final = 0 \/ (shown'[now'].final = 1 /\ "stuck" \in marks'[now'])
        /\ "lost" \notin marks'[now'] =>
             shown'[now'].draft = 0 \/ (shown'[now'].draft = 1 /\ "stuck" \in marks'[now'])
    <3>1. /\ shown'[now].draft
               = IF Done(o) /\ last = "draft" THEN shown[now].draft - 1 ELSE shown[now].draft
          /\ shown'[now].final
               = IF Done(o) /\ last = "final" THEN shown[now].final - 1 ELSE shown[now].final
          /\ now' = now
      BY <1>1, <1>7
    <3>2. CASE last = "final"
      BY <1>5, <1>6, <3>1, <3>2
    <3>3. CASE last = "draft"
      BY <1>5, <1>6, <3>1, <3>3
    <3> QED
      BY <1>2, <3>2, <3>3
  <2> QED
    BY <1>1, <2>1 DEF DraftBooks, FinalBooks, Answering
<1>11. Books'
  BY <1>1, <1>9, <1>10 DEF Books
<1> QED
  BY <1>1, <1>2, <1>3, <1>4, <1>7, <1>11, CallDone

LEMMA ReplySent ==
  ASSUME ReplyBooks, NEW o \in Posts, SendReply(o)
  PROVE  ReplyBooks'
<1> DEFINE left == Mark(~Done(o), "unsent")
<1>1. /\ phase = "send" \/ (phase = "finish" /\ ~st.id)
      /\ phase' = "clean" /\ Goes(o, left)
      /\ IF Done(o) THEN Add("final") ELSE UNCHANGED shown
      /\ UNCHANGED <<inbox, agent, queue, now, late, st, last, reply, lagged>>
  BY DEF SendReply, SendDue
<1>2. Busy /\ Busy' /\ Books /\ TypeOK /\ WorkTypes /\ Latched(st) /\ now \in Msgs
  BY <1>1, WorkIs DEF Busy
<1>3. /\ last' \in {"draft", "final"} /\ phase' \in Steps /\ Latched(st')
      /\ phase' \notin {"enter", "loop", "flush"} /\ phase' \notin Answering
  BY <1>1, <1>2 DEF Steps, Answering, WorkTypes
<1>4. left = (IF Done(o) THEN {} ELSE {"unsent"}) /\ left \in SUBSET Marks
  BY MarkIs DEF Marks
<1> HIDE DEF left
<1>5. /\ marks[now] \subseteq marks'[now]
      /\ ~Done(o) => "unsent" \in marks'[now]
      /\ "lost" \in marks'[now] => "lost" \in marks[now]
  BY <1>1, <1>2, <1>4, CallMarks
<1>6. Posted(o, "final")
  BY <1>1, <1>2, PostCounts DEF Kinds
<1>7. SameThinking(st, st') /\ SameFillers(st, st')
  BY <1>1 DEF SameThinking, SameFillers
<1>8. ThinkingBooks' /\ FillerBooks'
  BY <1>1, <1>2, <1>5, <1>6, <1>7, ThinkingStays, FillersStay DEF Books, Posted
<1>9. /\ shown[now].final \in Nat /\ shown[now].draft \in Nat
      /\ shown[now].final = 0 \/ (shown[now].final = 1 /\ "stuck" \in marks[now])
      /\ "lost" \notin marks[now] =>
           shown[now].draft = 0 \/ (shown[now].draft = 1 /\ "stuck" \in marks[now])
  BY <1>1, <1>2, Counts DEF Books, DraftBooks, FinalBooks, Answering
<1>10. DraftBooks' /\ FinalBooks'
  <2>1. /\ shown'[now'].draft = shown[now].draft
        /\ shown'[now'].final
             = IF Done(o) THEN shown[now].final + 1 ELSE shown[now].final
    BY <1>1, <1>6 DEF Posted
  <2> QED
    BY <1>1, <1>5, <1>9, <2>1 DEF DraftBooks, FinalBooks, Answering
<1>11. Books'
  BY <1>1, <1>8, <1>10 DEF Books
<1> QED
  BY <1>1, <1>2, <1>3, <1>4, <1>6, <1>11, CallDone DEF Posted

LEMMA BubbleDeleted ==
  ASSUME ReplyBooks, NEW o \in Posts, DeleteBubble(o)
  PROVE  ReplyBooks'
<1> DEFINE left == Mark(~Done(o), "stuck")
           k == IF st.fillers > 0 THEN "filler" ELSE "thinking"
           f == st.fillers - 1
<1>1. /\ phase = "clean" /\ phase' = "clean" /\ Goes(o, left) /\ ~Cleaned(st)
      /\ st' = IF k = "filler" THEN [st EXCEPT !.fillers = f] ELSE [st EXCEPT !.tid = FALSE]
      /\ IF Done(o) THEN Erase(k) ELSE shown' = shown
      /\ UNCHANGED <<inbox, agent, queue, now, late, last, reply, lagged>>
  BY DEF DeleteBubble
<1>2. /\ Busy /\ Busy' /\ Books /\ TypeOK /\ WorkTypes /\ Latched(st) /\ now \in Msgs
      /\ st \in St /\ st.fillers \in 0..MaxFillers /\ MaxFillers \in Nat
  BY <1>1, WorkIs, ReplyAssumption DEF Busy, Latched, St
<1>3. last' \in {"draft", "final"} /\ phase' \in Steps /\ k \in Kinds
  BY <1>1, <1>2 DEF Steps, Kinds, WorkTypes
<1>4. left = (IF Done(o) THEN {} ELSE {"stuck"}) /\ left \in SUBSET Marks
  BY MarkIs DEF Marks
<1>5. st.fillers = 0 => st.tid
  BY <1>1 DEF Cleaned
<1>6. k = (IF st.fillers > 0 THEN "filler" ELSE "thinking")
  OBVIOUS
<1> HIDE DEF left, k
<1>7. /\ marks[now] \subseteq marks'[now]
      /\ ~Done(o) => "stuck" \in marks'[now]
      /\ "lost" \in marks'[now] => "lost" \in marks[now]
  BY <1>1, <1>2, <1>4, CallMarks
<1>8. /\ shown[now].filler \in Nat /\ st.fillers <= shown[now].filler
      /\ st.fillers <= st.tried /\ st.tried \in Nat
      /\ marks[now] \cap {"lost", "stuck"} = {} => shown[now].filler = st.fillers
      /\ shown[now].thinking \in Nat /\ shown[now].thinking <= 1
      /\ st.tid => shown[now].thinking = 1
  BY <1>2, Counts DEF Books, FillerBooks, ThinkingBooks, St
<1>9. shown[now][k] >= 1
  <2>1. shown[now] \in [Kinds -> Nat]
    BY <1>2 DEF TypeOK
  <2>2. /\ shown[now]["filler"] = shown[now].filler
        /\ shown[now]["thinking"] = shown[now].thinking
    BY <2>1, KindsOf
  <2> QED
    BY <1>2, <1>5, <1>6, <1>8, <2>2
<1>10. /\ shown' \in [Msgs -> [Kinds -> Nat]]
       /\ \A m \in Msgs \ {now} : shown'[m] = shown[m]
       /\ shown'[now].filler
            = IF Done(o) /\ k = "filler" THEN shown[now].filler - 1 ELSE shown[now].filler
       /\ shown'[now].thinking
            = IF Done(o) /\ k = "thinking" THEN shown[now].thinking - 1 ELSE shown[now].thinking
       /\ shown'[now].draft = shown[now].draft /\ shown'[now].final = shown[now].final
  <2>1. CASE Done(o)
    BY <1>1, <1>2, <1>3, <1>6, <1>9, <2>1, EraseFields
  <2>2. CASE ~Done(o)
    BY <1>1, <1>2, <2>2 DEF WorkTypes
  <2> QED
    BY <2>1, <2>2
<1>11. DraftBooks' /\ FinalBooks'
  BY <1>1, <1>2, <1>7, <1>10, DraftStays, FinalStays DEF Books
<1>12. ASSUME k = "filler" PROVE Latched(st') /\ ThinkingBooks' /\ FillerBooks'
  <2>1. st.fillers > 0 /\ f \in 0..MaxFillers
    BY <1>2, <1>6, <1>12
  <2>2. f = st.fillers - 1
    OBVIOUS
  <2> HIDE DEF f
  <2>3. st' = [st EXCEPT !.fillers = f]
    BY <1>1, <1>12
  <2>4. /\ st' \in St /\ SameDraft(st, st') /\ SameThinking(st, st') /\ SameEdits(st, st')
        /\ SamePosts(st, st') /\ st.tried = st'.tried /\ st'.fillers = f
    BY <1>2, <2>1, <2>3, Put_fillers
  <2>5. Latched(st')
    BY <1>2, <2>4 DEF Latched, SameDraft, SameEdits, SamePosts
  <2>6. ThinkingBooks'
    BY <1>1, <1>2, <1>7, <1>10, <1>12, <2>4, ThinkingStays DEF Books
  <2>7. /\ st'.fillers <= shown'[now'].filler /\ st'.fillers <= st'.tried
        /\ Done(o) /\ shown[now].filler = st.fillers => shown'[now'].filler = st'.fillers
    <3>1. now' = now /\ st.fillers \in Nat
      BY <1>1, <1>2
    <3>3. shown'[now].filler = IF Done(o) THEN shown[now].filler - 1 ELSE shown[now].filler
      BY <1>10, <1>12
    <3>2. st'.fillers = st.fillers - 1 /\ st'.tried = st.tried
      BY <2>2, <2>4
    <3> QED
      BY <1>8, <2>1, <3>1, <3>2, <3>3
  <2>8. FillerBooks'
    BY <1>1, <1>7, <1>8, <2>7 DEF FillerBooks
  <2> QED
    BY <2>5, <2>6, <2>8
<1>13. ASSUME k = "thinking" PROVE Latched(st') /\ ThinkingBooks' /\ FillerBooks'
  <2>1. st.tid /\ shown[now].thinking = 1
    BY <1>2, <1>5, <1>6, <1>8, <1>13
  <2>2. st' = [st EXCEPT !.tid = FALSE]
    BY <1>1, <1>13
  <2>3. /\ st' \in St /\ SameDraft(st, st') /\ SameFillers(st, st') /\ SameEdits(st, st')
        /\ SamePosts(st, st') /\ st'.tid = FALSE
    BY <1>2, <2>2, Put_tid
  <2>4. Latched(st')
    BY <1>2, <2>3 DEF Latched, SameDraft, SameEdits, SamePosts
  <2>5. shown'[now'].thinking = IF Done(o) THEN 0 ELSE 1
    BY <1>1, <1>10, <1>13, <2>1
  <2>6. ThinkingBooks'
    BY <1>1, <1>7, <2>3, <2>5 DEF ThinkingBooks
  <2>7. FillerBooks'
    BY <1>1, <1>2, <1>7, <1>10, <1>13, <2>3, FillersStay DEF Books
  <2> QED
    BY <2>4, <2>6, <2>7
<1>14. Latched(st') /\ ThinkingBooks' /\ FillerBooks'
  BY <1>6, <1>12, <1>13
<1>15. Books'
  BY <1>1, <1>11, <1>14 DEF Books
<1> QED
  BY <1>1, <1>2, <1>3, <1>4, <1>10, <1>14, <1>15, CallDone

-----------------------------------------------------------------------------
(* The agent's turns, and the steps that touch no bubble.                  *)

\* A turn speaks or ends, whatever handle() does.
LEMMA TurnKeeps ==
  ASSUME ReplyBooks, NEW m \in Msgs, NEW k \in {"text", "thinking", "end"},
         Publish(Event(m, k)), turn' \in [Msgs -> Turns],
         published' \in [Msgs -> 0..MaxDeltas],
         UNCHANGED <<inbox, handler, shown, reply, ghosts>>,
         \A j \in Msgs : turn[j] = "running" =>
            turn'[j] = "running" \/ (j = m /\ k = "end")
  PROVE  ReplyBooks'
<1>1. /\ inbox' = inbox /\ phase' = phase /\ now' = now /\ late' = late /\ st' = st
      /\ last' = last /\ shown' = shown /\ reply' = reply /\ bad' = bad /\ marks' = marks
  BY DEF handler, ghosts
<1>2. TypeOK /\ AgentTypes /\ WorkTypes /\ now \in Msgs
  BY WorkIs
<1>3. Event(m, k) \in Events
  BY EventIs
<1>4. /\ queue' \in Seq(Events) /\ Len(queue') <= Capacity
      /\ lagged' \subseteq Msgs /\ lagged \subseteq lagged'
      /\ Busy => Event(m, k) \in ToSet(queue')
      /\ \A j \in Msgs : Event(j, "end") \in ToSet(queue) =>
              Event(j, "end") \in ToSet(queue') \/ j \in lagged'
  BY <1>2, <1>3, PublishFacts
<1>5. AgentTypes'
  BY <1>1, <1>2, <1>4 DEF AgentTypes
<1>6. WorkTypes'
  BY <1>1, <1>2 DEF WorkTypes, Latched
<1>7. TypeOK'
  BY <1>5, <1>6 DEF TypeOK, AgentTypes, WorkTypes, Latched, St
<1>8. EndInv'
  BY <1>1, <1>2, <1>4 DEF ReplyBooks, EndInv, Busy, Event
<1>9. InboxInv' /\ (Busy => Books)'
  BY <1>1 DEF ReplyBooks, InboxInv, Waiting, Busy, Books, ThinkingBooks, FillerBooks,
              DraftBooks, FinalBooks
<1>10. OwnAnswer' /\ BubblesEvolve' /\ ReplyInv'
  BY <1>1 DEF ReplyBooks, BubbleInv, OwnAnswer, BubblesEvolve, ReplyInv, ReplyStands,
              NothingLeft, Handled
<1> QED
  BY <1>7, <1>8, <1>9, <1>10 DEF ReplyBooks, BubbleInv

LEMMA TurnSteps ==
  ASSUME ReplyBooks, TurnStep
  PROVE  ReplyBooks'
<1>1. turn \in [Msgs -> Turns] /\ published \in [Msgs -> 0..MaxDeltas] /\ MaxDeltas \in Nat
  BY ReplyAssumption DEF ReplyBooks, TypeOK
<1>2. ASSUME NEW m \in Msgs, TurnEnds(m) PROVE ReplyBooks'
  <2>1. /\ Publish(Event(m, "end")) /\ turn' = [turn EXCEPT ![m] = "ended"]
        /\ published' = published /\ UNCHANGED <<inbox, handler, shown, reply, ghosts>>
    BY <1>2 DEF TurnEnds
  <2>2. turn' \in [Msgs -> Turns] /\ \A j \in Msgs : j # m => turn'[j] = turn[j]
    BY <1>1, <2>1 DEF Turns
  <2> QED
    BY <1>1, <2>1, <2>2, TurnKeeps
<1>3. ASSUME NEW m \in Msgs, NEW k \in {"text", "thinking"}, TurnPublishes(m, k)
      PROVE  ReplyBooks'
  <2>1. /\ Publish(Event(m, k)) /\ turn' = turn
        /\ published' = [published EXCEPT ![m] = @ + 1] /\ published[m] < MaxDeltas
        /\ UNCHANGED <<inbox, handler, shown, reply, ghosts>>
    BY <1>3 DEF TurnPublishes
  <2>2. published[m] + 1 \in 0..MaxDeltas
    BY <1>1, <2>1
  <2>3. published' \in [Msgs -> 0..MaxDeltas]
    BY <1>1, <2>1, <2>2
  <2> QED
    BY <1>1, <2>1, <2>3, TurnKeeps
<1> QED
  BY <1>2, <1>3 DEF TurnStep

\* A step of handle() that calls nothing.
LEMMA QuietKeeps ==
  ASSUME ReplyBooks, Busy, AgentTypes', phase' \in Steps \ {"idle"}, late' \in BOOLEAN,
         Latched(st'), Books', EndInv', OwnAnswer',
         UNCHANGED <<inbox, now, last, shown, ghosts>>
  PROVE  ReplyBooks'
<1>1. /\ inbox' = inbox /\ now' = now /\ last' = last /\ shown' = shown /\ bad' = bad
      /\ marks' = marks
  BY DEF ghosts
<1>2. TypeOK /\ WorkTypes /\ Busy'
  BY WorkIs DEF Busy
<1>3. WorkTypes'
  BY <1>1, <1>2 DEF WorkTypes
<1>4. TypeOK'
  BY <1>3 DEF TypeOK, AgentTypes, WorkTypes, Latched, St
<1>5. InboxInv' /\ BubblesEvolve' /\ ReplyInv'
  BY <1>1, <1>2, OthersStay
<1> QED
  BY <1>4, <1>5 DEF ReplyBooks, BubbleInv

\* A step that only moves handle() on.
LEMMA MovesOn ==
  ASSUME ReplyBooks, Busy, UNCHANGED <<inbox, agent, queue, now, st, last, shown, lagged, ghosts>>,
         late' \in BOOLEAN, reply' \in [Msgs -> Msgs \cup {"none", "timeout", "refused"}],
         OwnAnswer',
         \/ phase' = phase
         \/ phase \in Answering /\ phase' \in Answering \ {"start"},
         phase' \in {"enter", "loop", "flush"} => phase \in {"enter", "loop", "flush"}
  PROVE  ReplyBooks'
<1>1. /\ inbox' = inbox /\ agent' = agent /\ queue' = queue /\ now' = now /\ st' = st
      /\ last' = last /\ shown' = shown /\ lagged' = lagged /\ marks' = marks
  BY DEF ghosts
<1>2. AgentTypes /\ Latched(st) /\ Books /\ phase \in Steps \ {"idle"}
  BY WorkIs DEF Busy, WorkTypes
<1>3. AgentTypes'
  BY <1>1, <1>2 DEF AgentTypes, agent
<1>4. Books'
  BY <1>1, <1>2, BooksStay DEF SameDraft, SameThinking, SameFillers
<1>5. EndInv'
  BY <1>1, EndStays DEF ReplyBooks
<1>6. phase' \in Steps \ {"idle"}
  BY <1>2 DEF Answering, Steps
<1> QED
  BY <1>1, <1>2, <1>3, <1>4, <1>5, <1>6, QuietKeeps

LEMMA Moves ==
  ASSUME ReplyBooks, EnterLoop \/ EditTick \/ Deadline \/ TimeOut
  PROVE  ReplyBooks'
<1>1. /\ reply \in [Msgs -> Msgs \cup {"none", "timeout", "refused"}] /\ now \in Msgs
      /\ late \in BOOLEAN /\ OwnAnswer
  BY DEF ReplyBooks, TypeOK, BubbleInv
<1>2. CASE EnterLoop \/ EditTick \/ Deadline
  <2>1. /\ Busy /\ UNCHANGED <<inbox, agent, queue, now, st, last, shown, lagged, ghosts>>
        /\ late' \in BOOLEAN /\ reply' = reply
        /\ phase \in {"enter", "loop", "flush"}
        /\ phase' = phase \/ phase' \in {"loop", "flush"}
    BY <1>1, <1>2 DEF EnterLoop, EditTick, Deadline, Busy
  <2>2. OwnAnswer'
    BY <1>1, <2>1 DEF OwnAnswer
  <2> QED
    BY <1>1, <2>1, <2>2, MovesOn DEF Answering
<1>3. CASE TimeOut
  <2>1. /\ Busy /\ UNCHANGED <<inbox, agent, queue, now, st, last, shown, lagged, ghosts>>
        /\ late' = late /\ reply' = [reply EXCEPT ![now] = "timeout"]
        /\ phase = "loop" /\ phase' = "finish"
    BY <1>3 DEF TimeOut, Busy
  <2>2. "timeout" \notin Msgs
    BY ReplyAssumption
  <2>3. OwnAnswer' /\ reply' \in [Msgs -> Msgs \cup {"none", "timeout", "refused"}]
    BY <1>1, <2>1, <2>2 DEF OwnAnswer
  <2> QED
    BY <1>1, <2>1, <2>3, MovesOn DEF Answering
<1> QED
  BY <1>2, <1>3

LEMMA EventTaken ==
  ASSUME ReplyBooks, TakeEvent
  PROVE  ReplyBooks'
<1> DEFINE e == Head(queue)
<1>1. /\ Busy /\ phase = "loop" /\ queue # <<>> /\ queue' = Tail(queue)
      /\ UNCHANGED <<inbox, agent, now, late, last, shown, lagged, ghosts>>
      /\ \/ /\ ~Mine(e) /\ UNCHANGED <<phase, st, reply>>
         \/ /\ Mine(e) /\ e.kind = "text"
            /\ st' = [st EXCEPT !.dirty = TRUE] /\ UNCHANGED <<phase, reply>>
         \/ /\ Mine(e) /\ e.kind = "thinking"
            /\ st' = [st EXCEPT !.tdirty = TRUE] /\ UNCHANGED <<phase, reply>>
         \/ /\ Mine(e) /\ e.kind = "end"
            /\ phase' = "finish" /\ reply' = [reply EXCEPT ![now] = e.req] /\ UNCHANGED st
  BY DEF TakeEvent, Busy
<1>2. /\ AgentTypes /\ WorkTypes /\ Latched(st) /\ now \in Msgs /\ Books /\ EndInv /\ OwnAnswer
      /\ late \in BOOLEAN /\ queue \in Seq(Events) /\ Len(queue) <= Capacity
      /\ reply \in [Msgs -> Msgs \cup {"none", "timeout", "refused"}]
  BY <1>1, WorkIs DEF ReplyBooks, BubbleInv, AgentTypes, WorkTypes
<1>3. /\ e \in Events /\ Tail(queue) \in Seq(Events) /\ Len(Tail(queue)) < Len(queue)
      /\ ToSet(queue) = ToSet(Tail(queue)) \cup {e}
  BY <1>1, <1>2, TailFacts
<1> HIDE DEF e
<1>4. Len(queue') <= Capacity /\ queue' \in Seq(Events)
  <2>1. Len(queue) \in Nat /\ Len(Tail(queue)) \in Nat /\ Capacity \in Nat
    BY <1>2, <1>3, ReplyAssumption
  <2> QED
    BY <1>1, <1>2, <1>3, <2>1
<1>5. CASE phase' = "loop" /\ reply' = reply /\ Latched(st') /\ SameDraft(st, st')
           /\ SameThinking(st, st') /\ SameFillers(st, st') /\ (e.req = now => e.kind # "end")
  <2>1. e # Event(now, "end")
    BY <1>2, <1>5, EventIs
  <2>2. EndInv'
    BY <1>1, <1>2, <1>3, <2>1 DEF EndInv, agent, Event
  <2>3. Books'
    BY <1>1, <1>2, <1>5, BooksStay DEF ghosts
  <2>4. AgentTypes' /\ OwnAnswer'
    BY <1>1, <1>2, <1>4, <1>5 DEF AgentTypes, OwnAnswer, agent
  <2> QED
    BY <1>1, <1>2, <1>5, <2>2, <2>3, <2>4, QuietKeeps DEF Steps
<1>6. CASE Mine(e) /\ phase' = "finish" /\ reply' = [reply EXCEPT ![now] = e.req] /\ st' = st
  <2>1. e.req = now
    BY <1>6 DEF Mine
  <2>2. EndInv'
    BY <1>6 DEF EndInv
  <2>3. Books'
    BY <1>1, <1>2, <1>6, BooksStay DEF ghosts, Answering, SameDraft, SameThinking, SameFillers
  <2>4. OwnAnswer' /\ reply' \in [Msgs -> Msgs \cup {"none", "timeout", "refused"}]
    BY <1>2, <1>6, <2>1 DEF OwnAnswer
  <2>5. AgentTypes'
    BY <1>1, <1>2, <1>4, <2>4 DEF AgentTypes, agent
  <2> QED
    BY <1>1, <1>2, <1>6, <2>2, <2>3, <2>4, <2>5, QuietKeeps DEF Steps
<1>7. CASE ~Mine(e) /\ UNCHANGED <<phase, st, reply>>
  BY <1>1, <1>2, <1>5, <1>7 DEF Mine, SameDraft, SameThinking, SameFillers
<1>8. CASE e.kind = "text" /\ st' = [st EXCEPT !.dirty = TRUE] /\ UNCHANGED <<phase, reply>>
  BY <1>1, <1>2, <1>5, <1>8, DirtyFacts
<1>9. CASE e.kind = "thinking" /\ st' = [st EXCEPT !.tdirty = TRUE] /\ UNCHANGED <<phase, reply>>
  BY <1>1, <1>2, <1>5, <1>9, DirtyFacts
<1> QED
  BY <1>1, <1>6, <1>7, <1>8, <1>9

LEMMA ChatStarted ==
  ASSUME ReplyBooks, StartChat
  PROVE  ReplyBooks'
<1> DEFINE old == {m \in Msgs : turn[m] = "running"}
<1>1. /\ Busy /\ phase = "start" /\ phase' = "enter"
      /\ turn' = [m \in Msgs |-> IF m = now THEN "running"
                                 ELSE IF m \in old THEN "ended" ELSE turn[m]]
      /\ IF old = {} THEN UNCHANGED <<queue, lagged>>
         ELSE \E m \in old : Publish(Event(m, "end"))
      /\ UNCHANGED <<inbox, published, now, late, st, last, shown, reply, ghosts>>
  BY DEF StartChat, Busy
<1>2. /\ TypeOK /\ AgentTypes /\ WorkTypes /\ Latched(st) /\ now \in Msgs /\ Books /\ OwnAnswer
      /\ turn \in [Msgs -> Turns] /\ late \in BOOLEAN
  BY <1>1, WorkIs DEF ReplyBooks, BubbleInv, AgentTypes, WorkTypes
<1>3. turn' \in [Msgs -> Turns] /\ turn'[now] = "running"
  BY <1>1, <1>2 DEF Turns
<1>4. queue' \in Seq(Events) /\ Len(queue') <= Capacity /\ lagged' \subseteq Msgs
  <2>1. CASE old = {}
    BY <1>1, <1>2, <2>1 DEF AgentTypes
  <2>2. CASE old # {}
    <3>1. PICK m \in old : Publish(Event(m, "end"))
      BY <1>1, <2>2
    <3>2. Event(m, "end") \in Events
      BY EventIs
    <3> QED
      BY <1>2, <3>1, <3>2, PublishFacts
  <2> QED
    BY <2>1, <2>2
<1> HIDE DEF old
<1>5. AgentTypes' /\ OwnAnswer'
  BY <1>1, <1>2, <1>3, <1>4 DEF AgentTypes, OwnAnswer
<1>6. EndInv'
  BY <1>1, <1>3 DEF EndInv
<1>7. Books'
  BY <1>1, <1>2, BooksStay DEF ghosts, Answering, SameDraft, SameThinking, SameFillers
<1> QED
  BY <1>1, <1>2, <1>5, <1>6, <1>7, QuietKeeps DEF Steps

LEMMA StartFailed ==
  ASSUME ReplyBooks, StartFails
  PROVE  ReplyBooks'
<1>1. /\ Busy /\ phase = "start" /\ phase' = "send"
      /\ reply' = [reply EXCEPT ![now] = "refused"]
      /\ UNCHANGED <<inbox, agent, queue, now, late, st, last, shown, lagged, ghosts>>
  BY DEF StartFails, Busy
<1>2. /\ TypeOK /\ AgentTypes /\ WorkTypes /\ Latched(st) /\ now \in Msgs /\ Books /\ OwnAnswer
      /\ reply \in [Msgs -> Msgs \cup {"none", "timeout", "refused"}] /\ late \in BOOLEAN
  BY <1>1, WorkIs DEF ReplyBooks, BubbleInv, AgentTypes, WorkTypes
<1>3. "refused" \notin Msgs
  BY ReplyAssumption
<1>4. OwnAnswer' /\ reply' \in [Msgs -> Msgs \cup {"none", "timeout", "refused"}]
  BY <1>1, <1>2, <1>3 DEF OwnAnswer
<1>5. AgentTypes'
  BY <1>1, <1>2, <1>4 DEF AgentTypes, agent
<1>6. EndInv'
  BY <1>1 DEF EndInv
<1>7. now' = now /\ shown' = shown /\ marks' = marks /\ st' = st /\ last' = last
  BY <1>1 DEF ghosts
<1>8. shown[now].draft \in Nat /\ ~st.id /\ ~st.disabled /\ shown[now].final = 0
      /\ ("lost" \notin marks[now] => shown[now].draft = 0)
  BY <1>1, <1>2, Counts DEF Books, DraftBooks, FinalBooks, Answering
<1>9. ThinkingBooks' /\ FillerBooks'
  BY <1>1, <1>2, <1>7, ThinkingStays, FillersStay DEF Books, SameThinking, SameFillers
<1>10. DraftBooks' /\ FinalBooks'
  BY <1>1, <1>7, <1>8 DEF DraftBooks, FinalBooks, Answering
<1>11. Books'
  BY <1>1, <1>9, <1>10 DEF Books
<1> QED
  BY <1>1, <1>2, <1>4, <1>5, <1>6, <1>11, QuietKeeps DEF Steps

-----------------------------------------------------------------------------
(* The steps between two messages.                                         *)

\* handle() is over: with what it leaves, the message is handled.
LEMMA IdleKeeps ==
  ASSUME ReplyBooks, Busy, phase' = "idle", late' \in BOOLEAN, st' = Fresh,
         last' \in {"draft", "final"}, queue' = <<>>,
         UNCHANGED <<inbox, agent, now, shown, reply, lagged>>,
         marks' \in [Msgs -> SUBSET Marks], bad' \in 0..MaxFaults,
         marks[now] \subseteq marks'[now],
         \A m \in Msgs \ {now} : marks'[m] = marks[m],
         shown[now].final > 0 \/ marks'[now] \cap {"unsent", "panic"} # {},
         shown[now].final <= 1 \/ "stuck" \in marks'[now],
         marks'[now] \cap {"lost", "stuck", "panic"} = {} =>
            \A k \in Ephemeral : shown[now][k] = 0
  PROVE  ReplyBooks'
<1>1. /\ inbox' = inbox /\ now' = now /\ shown' = shown /\ reply' = reply /\ ~Busy'
      /\ turn' = turn /\ published' = published /\ lagged' = lagged
  BY DEF Busy, agent
<1>2. /\ AgentTypes /\ WorkTypes /\ now \in Msgs /\ inbox \in Seq(Msgs)
      /\ now \notin Waiting /\ Waiting' = Waiting /\ Waiting \subseteq Msgs
  <2>1. AgentTypes /\ WorkTypes /\ now \in Msgs /\ inbox \in Seq(Msgs)
    BY WorkIs DEF AgentTypes
  <2>2. Waiting \subseteq Msgs
    BY <2>1 DEF Waiting, ToSet
  <2> QED
    BY <1>1, <2>1, <2>2 DEF ReplyBooks, InboxInv, Waiting
<1>3. Latched(st')
  BY FreshIs
<1>4. queue' \in Seq(Events) /\ Len(queue') <= Capacity
  BY ReplyAssumption
<1>5. AgentTypes' /\ WorkTypes'
  BY <1>1, <1>2, <1>3, <1>4 DEF AgentTypes, WorkTypes, Steps
<1>6. TypeOK'
  BY <1>5 DEF TypeOK, AgentTypes, WorkTypes, Latched, St
<1>7. InboxInv'
  BY <1>1, <1>2 DEF ReplyBooks, InboxInv
<1>8. OwnAnswer' /\ EndInv'
  BY <1>1 DEF ReplyBooks, BubbleInv, OwnAnswer, EndInv
<1>9. BubblesEvolve'
  BY <1>1 DEF ReplyBooks, BubbleInv, BubblesEvolve
<1>10. \A m \in Msgs \ {now} : Handled(m)' => Handled(m)
  BY <1>1 DEF Handled
<1>11. ReplyStands'
  BY <1>1, <1>10 DEF ReplyBooks, ReplyInv, ReplyStands
<1>12. NothingLeft'
  BY <1>1, <1>10 DEF ReplyBooks, ReplyInv, NothingLeft
<1> QED
  BY <1>1, <1>6, <1>7, <1>8, <1>9, <1>11, <1>12 DEF ReplyBooks, BubbleInv, ReplyInv

LEMMA Returned ==
  ASSUME ReplyBooks, Return
  PROVE  ReplyBooks'
<1>1. /\ Busy /\ phase = "clean" /\ st.fillers = 0 /\ ~st.tid
      /\ phase' = "idle" /\ late' = FALSE /\ st' = Fresh /\ last' = "draft" /\ queue' = <<>>
      /\ UNCHANGED <<inbox, agent, now, shown, reply, lagged>> /\ bad' = bad /\ marks' = marks
  BY DEF Return, Cleaned, Busy, ghosts
<1>2. /\ TypeOK /\ WorkTypes /\ Books
  BY <1>1, WorkIs
<1>3. /\ shown[now].final > 0 \/ marks[now] \cap {"unsent", "panic"} # {}
      /\ shown[now].final <= 1 \/ "stuck" \in marks[now]
  BY <1>1, <1>2 DEF Books, FinalBooks
<1>4. ASSUME marks[now] \cap {"lost", "stuck", "panic"} = {}
      PROVE  \A k \in Ephemeral : shown[now][k] = 0
  <2>1. shown[now].draft = 0 /\ shown[now].thinking = 0 /\ shown[now].filler = 0
    BY <1>1, <1>2, <1>4, Counts DEF Books, DraftBooks, ThinkingBooks, FillerBooks
  <2>2. shown[now] \in [Kinds -> Nat]
    BY <1>2 DEF TypeOK
  <2> QED
    BY <2>1, <2>2, KindsOf
<1> QED
  BY <1>1, <1>2, <1>3, <1>4, IdleKeeps DEF WorkTypes

LEMMA Panicked ==
  ASSUME ReplyBooks, ThinkingPanics
  PROVE  ReplyBooks'
<1>1. /\ Busy /\ phase = "flush" /\ bad < MaxFaults
      /\ phase' = "idle" /\ late' = FALSE /\ st' = Fresh /\ queue' = <<>>
      /\ bad' = bad + 1 /\ marks' = [marks EXCEPT ![now] = @ \cup {"panic"}]
      /\ UNCHANGED <<inbox, agent, now, last, shown, reply, lagged>>
  BY DEF ThinkingPanics, Busy
<1>2. TypeOK /\ WorkTypes /\ Books /\ now \in Msgs
  BY <1>1, WorkIs
<1>3. bad' \in 0..MaxFaults /\ last' \in {"draft", "final"}
  BY <1>1, <1>2, ReplyAssumption DEF WorkTypes
<1>4. /\ marks' \in [Msgs -> SUBSET Marks] /\ marks'[now] = marks[now] \cup {"panic"}
      /\ \A m \in Msgs \ {now} : marks'[m] = marks[m]
  <2>1. {"panic"} \subseteq Marks
    BY DEF Marks
  <2> QED
    BY <1>1, <1>2, <2>1 DEF WorkTypes
<1>5. shown[now].final = 0
  BY <1>1, <1>2 DEF Books, FinalBooks, Answering
<1>6. /\ marks'[now] \cap {"unsent", "panic"} # {} /\ shown[now].final <= 1
      /\ marks'[now] \cap {"lost", "stuck", "panic"} # {} /\ marks[now] \subseteq marks'[now]
  <2>1. "panic" \in marks'[now] /\ marks[now] \subseteq marks'[now]
    BY <1>4
  <2> QED
    BY <1>5, <2>1
<1> QED
  BY <1>1, <1>2, <1>3, <1>4, <1>6, IdleKeeps

LEMMA Received ==
  ASSUME ReplyBooks, Receive
  PROVE  ReplyBooks'
<1>1. /\ phase = "idle" /\ ~Busy /\ Busy' /\ inbox # <<>> /\ now' = Head(inbox)
      /\ inbox' = Tail(inbox) /\ phase' = "start" /\ late' = FALSE /\ st' = Fresh
      /\ last' = "draft" /\ queue' = <<>> /\ UNCHANGED <<agent, shown, reply, lagged>>
      /\ bad' = bad /\ marks' = marks /\ turn' = turn /\ published' = published
  BY DEF Receive, Busy, ghosts, agent
<1>2. AgentTypes /\ WorkTypes /\ inbox \in Seq(Msgs)
  BY WorkIs DEF AgentTypes
<1>3. /\ now' \in Msgs /\ inbox' \in Seq(Msgs) /\ now' \in Waiting
      /\ Waiting = Waiting' \cup {now'}
      /\ IsInjective(inbox') /\ now' \notin Waiting'
  BY <1>1, <1>2, TailFacts DEF ReplyBooks, InboxInv, Waiting
<1>4. queue' \in Seq(Events) /\ Len(queue') <= Capacity
  BY <1>1, ReplyAssumption
<1>5. AgentTypes' /\ WorkTypes'
  BY <1>1, <1>2, <1>3, <1>4, FreshIs DEF AgentTypes, WorkTypes, Steps
<1>6. TypeOK'
  BY <1>5 DEF TypeOK, AgentTypes, WorkTypes, Latched, St
<1>7. InboxInv'
  BY <1>1, <1>3 DEF ReplyBooks, InboxInv
<1>8. Books'
  <2>1. /\ shown'[now'].draft = 0 /\ shown'[now'].thinking = 0
        /\ shown'[now'].filler = 0 /\ shown'[now'].final = 0
    <3>1. shown'[now'] \in [Kinds -> Nat]
      BY <1>3, <1>5 DEF WorkTypes
    <3>2. \A k \in Kinds : shown'[now'][k] = 0
      BY <1>1, <1>3 DEF ReplyBooks, InboxInv
    <3> QED
      BY <3>1, <3>2, KindsOf
  <2>2. /\ ~st'.id /\ ~st'.tid /\ ~st'.disabled /\ st'.fillers = 0 /\ st'.tried = 0
    BY <1>1, FreshIs
  <2> QED
    BY <1>1, <2>1, <2>2 DEF Books, ThinkingBooks, FillerBooks, DraftBooks, FinalBooks
<1>9. OwnAnswer' /\ EndInv' /\ BubblesEvolve'
  BY <1>1 DEF ReplyBooks, BubbleInv, OwnAnswer, EndInv, BubblesEvolve
<1>10. \A m \in Msgs : Handled(m)' => Handled(m)
  BY <1>1, <1>3 DEF Handled, Waiting
<1>11. ReplyStands' /\ NothingLeft'
  BY <1>1, <1>10 DEF ReplyBooks, ReplyInv, ReplyStands, NothingLeft
<1> QED
  BY <1>6, <1>7, <1>8, <1>9, <1>11 DEF ReplyBooks, BubbleInv, ReplyInv

-----------------------------------------------------------------------------
(* The theorems.                                                           *)

LEMMA BooksInit == Init => ReplyBooks
<1> SUFFICES ASSUME Init PROVE ReplyBooks
  OBVIOUS
<1>1. /\ Arrivals \in Seq(Msgs) /\ Arrivals # <<>> /\ IsInjective(Arrivals)
      /\ "none" \notin Msgs
  BY ReplyAssumption
<1>2. /\ inbox = Arrivals /\ turn = [m \in Msgs |-> "none"]
      /\ published = [m \in Msgs |-> 0] /\ queue = <<>> /\ phase = "idle"
      /\ now = Arrivals[1] /\ late = FALSE /\ st = Fresh /\ last = "draft"
      /\ shown = [m \in Msgs |-> [k \in Kinds |-> 0]]
      /\ reply = [m \in Msgs |-> "none"] /\ lagged = {}
      /\ bad = 0 /\ marks = [m \in Msgs |-> {}]
  BY DEF Init
<1>3. now \in Msgs /\ Waiting = Msgs
  BY <1>1, <1>2 DEF Waiting, Msgs
<1>4. AgentTypes
  BY <1>1, <1>2, ReplyAssumption DEF AgentTypes, Turns
<1>5. WorkTypes
  <2>1. phase \in Steps /\ late \in BOOLEAN /\ last \in {"draft", "final"} /\ Latched(st)
    BY <1>2, FreshIs DEF Steps
  <2>2. bad \in 0..MaxFaults
    BY <1>2, ReplyAssumption
  <2>3. shown \in [Msgs -> [Kinds -> Nat]] /\ marks \in [Msgs -> SUBSET Marks]
    BY <1>2
  <2> QED
    BY <1>3, <2>1, <2>2, <2>3 DEF WorkTypes
<1>6. \A m \in Msgs : /\ shown[m].draft = 0 /\ shown[m].thinking = 0
                      /\ \A k \in Kinds : shown[m][k] = 0
                      /\ marks[m] = {}
  <2>1. \A m \in Msgs : shown[m] \in [Kinds -> Nat] /\ \A k \in Kinds : shown[m][k] = 0
    BY <1>2
  <2> QED
    BY <1>2, <2>1, KindsOf
<1>7. InboxInv
  BY <1>1, <1>2, <1>3, <1>6 DEF InboxInv, Busy
<1>8. OwnAnswer /\ BubblesEvolve
  BY <1>1, <1>2, <1>6 DEF OwnAnswer, BubblesEvolve
<1>9. \A m \in Msgs : ~Handled(m)
  BY <1>3 DEF Handled, Waiting
<1>10. ReplyInv
  BY <1>9 DEF ReplyInv, ReplyStands, NothingLeft
<1> QED
  BY <1>2, <1>4, <1>5, <1>7, <1>8, <1>10, ReplyTypes
     DEF ReplyBooks, BubbleInv, Busy, EndInv

LEMMA BooksStep == ReplyBooks /\ [Next]_vars => ReplyBooks'
<1> SUFFICES ASSUME ReplyBooks, [Next]_vars PROVE ReplyBooks'
  OBVIOUS
<1>1. CASE TurnStep
  BY <1>1, TurnSteps
<1>2. CASE Step
  BY <1>2, Received, ChatStarted, StartFailed, Moves, EventTaken, Returned, ThinkingFlushed,
     DraftFlushed, Finalized, OrphanDeleted, ReplySent, BubbleDeleted DEF Step
<1>3. CASE EditTick \/ Deadline
  BY <1>3, Moves
<1>4. CASE ThinkingPanics
  BY <1>4, Panicked
<1>5. CASE \E o \in Posts : SendFiller(o)
  BY <1>5, FillerSent
<1>6. CASE UNCHANGED vars
  <2>1. /\ inbox' = inbox /\ turn' = turn /\ published' = published /\ queue' = queue
        /\ phase' = phase /\ now' = now /\ late' = late /\ st' = st /\ last' = last
        /\ shown' = shown /\ reply' = reply /\ lagged' = lagged /\ bad' = bad /\ marks' = marks
    BY <1>6 DEF vars, agent, handler, ghosts
  <2>2. TypeOK'
    BY <2>1 DEF ReplyBooks, TypeOK
  <2>3. InboxInv' /\ (Busy => Books)'
    BY <2>1 DEF ReplyBooks, InboxInv, Waiting, Busy, Books, ThinkingBooks, FillerBooks,
                DraftBooks, FinalBooks
  <2>4. OwnAnswer' /\ BubblesEvolve' /\ ReplyInv' /\ EndInv'
    BY <2>1 DEF ReplyBooks, BubbleInv, OwnAnswer, BubblesEvolve, ReplyInv, ReplyStands,
                NothingLeft, Handled, EndInv
  <2> QED
    BY <2>2, <2>3, <2>4 DEF ReplyBooks, BubbleInv
<1> QED
  BY <1>1, <1>2, <1>3, <1>4, <1>5, <1>6 DEF Next

\* The books of ChannelInboundSubscriber::handle (bus.rs) are always right: what
\* stands in the channel for a message is what its StreamingState knows, or what
\* the calls that did not go well explain.
THEOREM BooksCorrect == Spec => []ReplyBooks
<1>1. Init => ReplyBooks
  BY BooksInit
<1>2. ReplyBooks /\ [Next]_vars => ReplyBooks'
  BY BooksStep
<1> QED
  BY <1>1, <1>2, PTL DEF Spec

\* While a message is answered its own turn speaks, and one bubble of each kind
\* evolves (bus.rs:317), for any arrivals, capacity and faults.
THEOREM BubblesCorrect == Spec => []BubbleInv
<1>1. ReplyBooks => BubbleInv
  BY DEF ReplyBooks
<1> QED
  BY <1>1, BooksCorrect, PTL

\* When a message is handled its reply stands, once, and nothing else does
\* (bus.rs:729), unless calls failed at the very end or bubbles got lost.
THEOREM RepliesCorrect == Spec => []ReplyInv
<1>1. ReplyBooks => ReplyInv
  BY DEF ReplyBooks
<1> QED
  BY <1>1, BooksCorrect, PTL

\* A step that changes the reply of a message.
LEMMA TimedOut ==
  ASSUME ReplyBooks, [Next]_vars, NEW m \in Msgs,
         reply[m] = "none", reply'[m] = "timeout"
  PROVE  late /\ (turn[m] = "running" \/ Event(m, "end") \in ToSet(queue) \/ m \in lagged)
<1>1. /\ reply \in [Msgs -> Msgs \cup {"none", "timeout", "refused"}] /\ now \in Msgs
      /\ EndInv /\ "timeout" \notin Msgs
  BY ReplyAssumption DEF ReplyBooks, TypeOK
<1>2. reply' # reply
  BY <1>1
<1>3. StartFails \/ TakeEvent \/ TimeOut
  BY <1>2 DEF Next, TurnStep, Step, TurnEnds, TurnPublishes, Receive, StartChat, EnterLoop, Return,
     FlushThinking, FlushDraft, FinalEdit, DeleteOrphan, SendReply, DeleteBubble, EditTick,
     ThinkingPanics, Deadline, SendFiller, vars
<1>4. CASE StartFails
  BY <1>1, <1>4 DEF StartFails
<1>5. CASE TakeEvent
  BY <1>1, <1>2, <1>5 DEF TakeEvent, Mine
<1>6. CASE TimeOut
  <2>1. phase = "loop" /\ late /\ reply' = [reply EXCEPT ![now] = "timeout"]
    BY <1>6 DEF TimeOut
  <2>2. m = now
    BY <1>1, <2>1
  <2> QED
    BY <1>1, <2>1, <2>2 DEF EndInv
<1> QED
  BY <1>3, <1>4, <1>5, <1>6

\* A step that takes bubbles away leaves the reply, unless it could not be sent or
\* is sent next.
LEMMA KeepsSomething ==
  ASSUME ReplyBooks, [Next]_vars, NEW m \in Msgs, Something(m)
  PROVE  \/ Something(m)'
         \/ m = now /\ phase = "orphan" /\ phase' = "send"
         \/ "unsent" \in marks[m]
<1>1. /\ TypeOK /\ now \in Msgs /\ shown \in [Msgs -> [Kinds -> Nat]]
      /\ (Busy => Books)
  BY WorkIs
<1>2. PICK k \in Kinds : shown[m][k] > 0
  BY DEF Something
<1>3. ASSUME NEW j \in Kinds, Add(j) PROVE Something(m)'
  <2>1. /\ shown'[now][j] = shown[now][j] + 1
        /\ \A i \in Kinds \ {j} : shown'[now][i] = shown[now][i]
        /\ \A n \in Msgs \ {now} : shown'[n] = shown[n]
    BY <1>1, <1>3, AddFacts
  <2>2. \A i \in Kinds : shown[now][i] \in Nat
    BY <1>1
  <2>3. CASE m # now \/ k # j
    BY <1>2, <2>1, <2>3 DEF Something
  <2>4. CASE m = now /\ k = j
    BY <1>2, <2>1, <2>2, <2>4 DEF Something
  <2> QED
    BY <2>3, <2>4
<1>4. shown' = shown => Something(m)'
  BY <1>2 DEF Something
<1>5. ASSUME NEW o \in Posts, FinalEdit(o) PROVE Something(m)'
  <2>1. CASE ~Done(o)
    BY <1>4, <1>5, <2>1 DEF FinalEdit
  <2>2. CASE Done(o)
    <3>1. /\ phase = "finish" /\ st.id
          /\ shown' = [shown EXCEPT ![now].draft = @ - 1, ![now].final = @ + 1]
      BY <1>5, <2>2 DEF FinalEdit
    <3>2. shown[now].draft >= 1 /\ shown[now].final \in Nat
      BY <1>1, <3>1, Counts DEF Busy, Books, DraftBooks, Answering
    <3>3. /\ shown'[now] \in [Kinds -> Nat] /\ shown'[now].final = shown[now].final + 1
          /\ \A n \in Msgs \ {now} : shown'[n] = shown[n]
      BY <1>1, <3>1, <3>2, DraftFinal
    <3>4. shown'[now]["final"] > 0 /\ "final" \in Kinds
      BY <3>2, <3>3, KindsOf DEF Kinds
    <3> QED
      BY <1>2, <3>3, <3>4 DEF Something
  <2> QED
    BY <2>1, <2>2
<1>6. ASSUME NEW o \in Posts, DeleteBubble(o) PROVE Something(m)' \/ "unsent" \in marks[m]
  <2>1. CASE ~Done(o)
    BY <1>4, <1>6, <2>1 DEF DeleteBubble
  <2>2. CASE Done(o)
    <3>1. PICK j \in {"filler", "thinking"} : Erase(j)
      BY <1>6, <2>2 DEF DeleteBubble
    <3>2. phase = "clean"
      BY <1>6 DEF DeleteBubble
    <3>3. /\ shown'[now]["final"] = shown[now]["final"] /\ "final" \in Kinds
          /\ \A n \in Msgs \ {now} : shown'[n] = shown[n]
      BY <1>1, <3>1 DEF Erase, Kinds
    <3>4. shown[now]["final"] > 0 \/ "unsent" \in marks[now]
      BY <1>1, <3>2, KindsOf DEF Busy, Books, FinalBooks
    <3> QED
      BY <1>2, <3>3, <3>4 DEF Something
  <2> QED
    BY <2>1, <2>2
<1>7. /\ "thinking" \in Kinds /\ "draft" \in Kinds /\ "filler" \in Kinds /\ "final" \in Kinds
  BY DEF Kinds
<1>8. ASSUME NEW o \in Posts, FlushThinking(o) \/ FlushDraft(o) \/ SendReply(o) \/ SendFiller(o)
      PROVE  Something(m)'
  BY <1>3, <1>4, <1>7, <1>8 DEF FlushThinking, FlushDraft, SendReply, SendFiller
<1>9. ASSUME NEW o \in Posts, DeleteOrphan(o)
      PROVE  Something(m)' \/ (m = now /\ phase = "orphan" /\ phase' = "send")
  <2>1. phase = "orphan" /\ phase' = "send" /\ (shown' = shown \/ Erase(last))
    BY <1>9 DEF DeleteOrphan
  <2>2. m # now => shown'[m] = shown[m]
    BY <1>1, <2>1 DEF Erase
  <2> QED
    BY <1>2, <2>1, <2>2 DEF Something
<1>10. ASSUME TurnStep \/ Receive \/ StartChat \/ StartFails \/ EnterLoop \/ TakeEvent \/ TimeOut
              \/ Return \/ EditTick \/ ThinkingPanics \/ Deadline \/ UNCHANGED vars
       PROVE  shown' = shown
  BY <1>10 DEF TurnStep, TurnEnds, TurnPublishes, Receive, StartChat, StartFails, EnterLoop,
     TakeEvent, TimeOut, Return, EditTick, ThinkingPanics, Deadline, vars
<1> QED
  BY <1>4, <1>5, <1>6, <1>8, <1>9, <1>10 DEF Next, Step

\* The ends of messages are accounted for: a request is called timed out only while
\* its turn runs, or when its end waits behind the deadline or was dropped
\* (bus.rs:229), and a chat is emptied by nothing but the deletion of a draft that the
\* reply replaces in the next step (bus.rs:752).
THEOREM EndsAccountedFor == Spec => EndsAccounted
<1>1. ReplyBooks /\ [Next]_vars =>
        [\A m \in Msgs : reply[m] = "none" /\ reply'[m] = "timeout" =>
           late /\ \/ turn[m] = "running"
                   \/ Event(m, "end") \in ToSet(queue)
                   \/ m \in lagged]_vars
  BY TimedOut
<1>2. ReplyBooks /\ [Next]_vars =>
        [\A m \in Msgs : Something(m) =>
           \/ Something(m)'
           \/ m = now /\ phase = "orphan" /\ phase' = "send"
           \/ "unsent" \in marks[m]]_vars
  BY KeepsSomething
<1> QED
  BY <1>1, <1>2, BooksCorrect, PTL DEF Spec, EndsAccounted, TimeOutAccounted, EmptiedForReply
=============================================================================
