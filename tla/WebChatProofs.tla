--------------------------- MODULE WebChatProofs ---------------------------
(***************************************************************************)
(* Theorems about WebChat, for any requests, clients and threads and any    *)
(* number of deletions, purges, dismissals and crashes.                     *)
(***************************************************************************)
EXTENDS WebChat, TLAPS

Turn == [key : Keys \cup {NULL}, at : Phases, agent : Nat \cup {NULL},
         aborted : {"no", "waiting", "late", "lost"}, complete : BOOLEAN,
         answers : 0..1, cancels : 0..1]
Mirror == [at : {"none", "spawned", "open", "done"}, seen : BOOLEAN]

------------------------------------------------------------------------------
(* The inductive invariant *)

\* How far a request is and what its turn may have said by then: it answers on
\* its way to the clean-up, and hears of a cancellation at most once.
Shape(r) ==
    /\ turn[r].key = NULL <=> call[r] = "idle"
    /\ turn[r].key = NULL <=> turn[r].at = "none"
    /\ turn[r].key = NULL => ~Aborted(r)
    /\ turn[r].at = "run" => turn[r].agent \in Nat
    /\ turn[r].answers = 1 => turn[r].at \in {"clean", "ended"}
    /\ turn[r].cancels = 1 => Aborted(r)
    /\ turn[r].aborted = "waiting" => turn[r].answers = 0
    /\ call[r] = "begun" => ~Aborted(r)

TurnInv == \A r \in Requests : Shape(r)

\* An entry is made when its call returns, for a turn that nobody has aborted.
EntryInv ==
    /\ EntryLive
    /\ \A k \in Keys : inFlight[k] # NULL => call[inFlight[k]] = "returned"

\* Whoever is between the two locks on a key nobody raced for is the only one
\* there, and has aborted whatever ran before: its insert overwrites no handle.
BegunAlone ==
    \A q, r \in Requests :
       /\ q # r /\ call[r] = "begun" /\ KeyOf(q) = KeyOf(r) /\ KeyOf(r) \notin raced
       => call[q] # "begun" /\ (Live(q) => Aborted(q))

TableInv == EntryInv /\ TurnAbortable /\ BegunAlone

\* The agent a turn holds is as fresh as one in the cache must be: it will be put back.
HeldFresh ==
    \A r \in Requests :
       /\ turn[r].at = "run" /\ ~deleting[ThreadOf(r)] /\ turn[r].agent < epoch[ThreadOf(r)]
       => KeyOf(r) \in leaked

AgentInv == NoStaleSession /\ HeldFresh

\* A bridge is there from the moment a turn runs, and sees nothing before it opens.
BridgeShape ==
    \A r \in Requests :
       /\ turn[r].at \in {"none", "load"} => mirror[r].at = "none"
       /\ mirror[r].at \in {"none", "spawned"} => ~mirror[r].seen

\* A live snapshot is that of a turn of its thread with an open bridge which has not
\* seen the end: the bridge will write or delete it again.
SnapshotLive ==
    \A t \in Threads :
       snapshot[t] # NULL /\ snapshot[t].live =>
         LET r == snapshot[t].by
         IN  ThreadOf(r) = t /\ mirror[r].at = "open" /\ ~mirror[r].seen

\* What an open bridge has next to it on its thread counts as eclipsed.
OpenEclipses ==
    \A q, r \in Requests :
       /\ q # r /\ mirror[q].at = "open" /\ mirror[r].at \in {"open", "done"}
       /\ ThreadOf(q) = ThreadOf(r)
       => r \in eclipsed

\* LoneSnapshot, from the opening of the bridge on.
SnapshotTrue ==
    \A r \in Requests :
       mirror[r].at \in {"open", "done"} /\ r \notin eclipsed =>
         snapshot[ThreadOf(r)] = IF mirror[r].seen THEN NULL
                                 ELSE [by |-> r, live |-> mirror[r].at = "open"]

MirrorInv == BridgeShape /\ SnapshotLive /\ OpenEclipses /\ SnapshotTrue

ChatInv == TypeOK /\ TurnInv /\ TableInv /\ AgentInv /\ MirrorInv

------------------------------------------------------------------------------
(* Turns one by one *)

\* The constants as the proofs need them.
LEMMA Constants ==
    ASSUME TypeOK, NEW r \in Requests
    PROVE  /\ turn[r] \in Turn /\ mirror[r] \in Mirror
           /\ NULL \notin Keys /\ NULL \notin Requests /\ NULL \notin Nat
           /\ \A k \in Keys : k[2] \in Threads
           /\ KeyOf(r) # NULL => KeyOf(r) \in Keys /\ ThreadOf(r) \in Threads
BY ChatAssumption DEF TypeOK, Turn, Mirror, Keys, KeyOf, ThreadOf

\* A new turn waits for the configuration and has said nothing.
LEMMA NewTurnIs ==
    ASSUME NEW k \in Keys
    PROVE  /\ NewTurn(k) = [key |-> k, at |-> "load", aborted |-> "no", agent |-> NULL,
                            complete |-> FALSE, answers |-> 0, cancels |-> 0]
           /\ NewTurn(k) \in Turn
<1>1. NewTurn(k) = [key |-> k, at |-> "load", aborted |-> "no", agent |-> NULL,
                    complete |-> FALSE, answers |-> 0, cancels |-> 0]
  <2>1. PICK u : u = [Idle EXCEPT !.key = k]
    OBVIOUS
  <2>2. u = [key |-> k, at |-> "none", aborted |-> "no", agent |-> NULL,
             complete |-> FALSE, answers |-> 0, cancels |-> 0]
    BY <2>1 DEF Idle
  <2>3. NewTurn(k) = [u EXCEPT !.at = "load"]
    BY <2>1 DEF NewTurn
  <2> QED BY <2>2, <2>3
<1> QED BY <1>1 DEF Turn, Phases

\* A cancellation marks the turn and tells its client, and leaves the rest.
LEMMA CancelTurnIs ==
    ASSUME NEW t \in Turn, t.cancels = 0
    PROVE  LET u == CancelTurn(t)
           IN  /\ u \in Turn
               /\ u.key = t.key /\ u.at = t.at /\ u.agent = t.agent
               /\ u.complete = t.complete /\ u.answers = t.answers /\ u.cancels = 1
               /\ u.aborted = IF t.at \in {"clean", "ended"} THEN "late" ELSE "waiting"
<1>1. CancelTurn(t) = [key |-> t.key, at |-> t.at, agent |-> t.agent,
                       aborted |-> IF t.at \in {"clean", "ended"} THEN "late" ELSE "waiting",
                       complete |-> t.complete, answers |-> t.answers, cancels |-> 1]
  <2>1. PICK u : u = [t EXCEPT !.aborted = IF t.at \in {"clean", "ended"} THEN "late"
                                                                       ELSE "waiting"]
    OBVIOUS
  <2>2. u = [key |-> t.key, at |-> t.at, agent |-> t.agent,
             aborted |-> IF t.at \in {"clean", "ended"} THEN "late" ELSE "waiting",
             complete |-> t.complete, answers |-> t.answers, cancels |-> 0]
    BY <2>1 DEF Turn
  <2>3. CancelTurn(t) = [u EXCEPT !.cancels = @ + 1]
    BY <2>1 DEF CancelTurn
  <2> QED BY <2>2, <2>3
<1> QED BY <1>1 DEF Turn

\* An error is the answer of a turn and sends it to the clean-up.
LEMMA FailIs ==
    ASSUME NEW t \in Turn, t.answers = 0
    PROVE  /\ Fail(t) = [key |-> t.key, at |-> "clean", agent |-> t.agent, aborted |-> t.aborted,
                         complete |-> t.complete, answers |-> 1, cancels |-> t.cancels]
           /\ Fail(t) \in Turn
<1>1. Fail(t) = [key |-> t.key, at |-> "clean", agent |-> t.agent, aborted |-> t.aborted,
                 complete |-> t.complete, answers |-> 1, cancels |-> t.cancels]
  <2>1. PICK u : u = [t EXCEPT !.at = "clean"]
    OBVIOUS
  <2>2. u = [key |-> t.key, at |-> "clean", agent |-> t.agent, aborted |-> t.aborted,
             complete |-> t.complete, answers |-> 0, cancels |-> t.cancels]
    BY <2>1 DEF Turn
  <2>3. Fail(t) = [u EXCEPT !.answers = @ + 1]
    BY <2>1 DEF Fail
  <2> QED BY <2>2, <2>3
<1> QED BY <1>1 DEF Turn, Phases

\* A crash ends a turn and takes its agent.
LEMMA LostIs ==
    ASSUME NEW t \in Turn
    PROVE  /\ Lost(t) = [key |-> t.key, at |-> "ended", agent |-> NULL, aborted |-> "lost",
                         complete |-> t.complete, answers |-> t.answers, cancels |-> t.cancels]
           /\ Lost(t) \in Turn
<1>1. Lost(t) = [key |-> t.key, at |-> "ended", agent |-> NULL, aborted |-> "lost",
                 complete |-> t.complete, answers |-> t.answers, cancels |-> t.cancels]
  <2>1. PICK u : u = [t EXCEPT !.at = "ended"]
    OBVIOUS
  <2>2. u = [key |-> t.key, at |-> "ended", agent |-> t.agent, aborted |-> t.aborted,
             complete |-> t.complete, answers |-> t.answers, cancels |-> t.cancels]
    BY <2>1 DEF Turn
  <2>3. Lost(t) = [[u EXCEPT !.aborted = "lost"] EXCEPT !.agent = NULL]
    BY <2>1 DEF Lost
  <2> QED BY <2>2, <2>3
<1> QED BY <1>1 DEF Turn, Phases

\* What a step of a task does to the turns: it moves its own, which nobody ended
\* before, and touches neither whose it is nor what others said to it.
LEMMA TaskMoves ==
    ASSUME TypeOK, TurnInv, NEW r \in Requests, TaskStep(r)
    PROVE  /\ turn' \in [Requests -> Turn] /\ UNCHANGED call
           /\ \A q \in Requests : q # r => turn'[q] = turn[q]
           /\ Live(r) /\ Shape(r)'
           /\ turn'[r].key = turn[r].key /\ turn'[r].aborted = turn[r].aborted
           /\ turn'[r].at \notin {"none", "load"}
<1> USE DEF Turn, Live, Aborted, KeyOf, Phases
<1>t. turn \in [Requests -> Turn] /\ turn[r] \in Turn /\ call[r] \in {"idle", "begun", "returned"}
  BY DEF TypeOK
<1>s. Shape(r) BY DEF TurnInv
<1>n. NULL \notin Nat BY ChatAssumption
<1>1. CASE TakeSession(r)
  <2>1. turn[r].at = "load" /\ turn[r].aborted = "no" /\ UNCHANGED call
        /\ turn[r].answers = 0 /\ turn[r].key # NULL
    BY <1>1, <1>t, <1>s DEF TakeSession, Shape
  <2>2. CASE turn' = [turn EXCEPT ![r] = Fail(@)]
    <3>1. turn'[r] = Fail(turn[r]) /\ \A q \in Requests : q # r => turn'[q] = turn[q]
      BY <2>2, <1>t
    <3>2. turn' \in [Requests -> Turn] BY <2>2, <2>1, <1>t, FailIs
    <3> QED BY <3>1, <3>2, <2>1, <1>t, <1>s, FailIs DEF Shape
  <2>3. ASSUME NEW a \in Nat, turn' = [turn EXCEPT ![r].at = "run", ![r].agent = a]
        PROVE  /\ turn' \in [Requests -> Turn]
               /\ \A q \in Requests : q # r => turn'[q] = turn[q]
               /\ Shape(r)'
               /\ turn'[r].key = turn[r].key /\ turn'[r].aborted = turn[r].aborted
               /\ turn'[r].at \notin {"none", "load"}
    <3>1. turn'[r] = [key |-> turn[r].key, at |-> "run", agent |-> a,
                      aborted |-> turn[r].aborted, complete |-> turn[r].complete,
                      answers |-> turn[r].answers, cancels |-> turn[r].cancels]
      BY <2>3, <1>t
    <3>2. \A q \in Requests : q # r => turn'[q] = turn[q] BY <2>3, <1>t
    <3>3. turn'[r] \in Turn BY <3>1, <1>t
    <3>4. turn' \in [Requests -> Turn] BY <2>3, <3>3, <3>2, <1>t
    <3>5. Shape(r)' BY <3>1, <2>1, <1>s, <1>t DEF Shape
    <3> QED BY <3>1, <3>2, <3>4, <3>5
  <2>4. \/ turn' = [turn EXCEPT ![r] = Fail(@)]
        \/ \E a \in Nat : turn' = [turn EXCEPT ![r].at = "run", ![r].agent = a]
    <3>1. KeyOf(r) \in Keys /\ ThreadOf(r) \in Threads BY <2>1, Constants
    <3>2. session[KeyOf(r)] # NULL => session[KeyOf(r)] \in Nat BY <3>1 DEF TypeOK
    <3>3. epoch[ThreadOf(r)] \in Nat BY <3>1 DEF TypeOK
    <3> QED BY <1>1, <3>2, <3>3 DEF TakeSession
  <2> QED BY <2>1, <2>2, <2>3, <2>4
<1>2. CASE Complete(r)
  <2>1. turn[r].at = "run" /\ UNCHANGED call BY <1>2 DEF Complete
  <2>2. turn'[r] = [key |-> turn[r].key, at |-> "run", agent |-> turn[r].agent,
                    aborted |-> turn[r].aborted, complete |-> TRUE,
                    answers |-> turn[r].answers, cancels |-> turn[r].cancels]
    BY <1>2, <1>t DEF Complete
  <2>3. \A q \in Requests : q # r => turn'[q] = turn[q] BY <1>2, <1>t DEF Complete
  <2>4. turn'[r] \in Turn BY <2>2, <1>t
  <2>5. turn' \in [Requests -> Turn] BY <1>2, <2>4, <2>3, <1>t DEF Complete
  <2>6. Shape(r)' BY <2>1, <2>2, <1>s, <1>t DEF Shape
  <2> QED BY <2>1, <2>2, <2>3, <2>5, <2>6
<1>3. CASE PutSession(r)
  <2>1. turn[r].at = "run" /\ UNCHANGED call /\ turn[r].aborted = "no" /\ turn[r].answers = 0
    BY <1>3, <1>s, <1>t DEF PutSession, Shape
  <2>2. PICK p \in {"deliver", "clean"}, n \in 0..1 :
          /\ turn' = [turn EXCEPT ![r] = [key |-> turn[r].key, at |-> p, agent |-> NULL,
                        aborted |-> turn[r].aborted, complete |-> turn[r].complete,
                        answers |-> n, cancels |-> turn[r].cancels]]
          /\ n = 1 => p = "clean"
    <3>1. CASE turn' = [turn EXCEPT ![r].at = "deliver", ![r].agent = NULL]
      <4>1. turn' = [turn EXCEPT ![r] = [key |-> turn[r].key, at |-> "deliver", agent |-> NULL,
                        aborted |-> turn[r].aborted, complete |-> turn[r].complete,
                        answers |-> 0, cancels |-> turn[r].cancels]]
        <5>1. PICK u : u = [turn[r] EXCEPT !.at = "deliver"]
          OBVIOUS
        <5>2. u = [key |-> turn[r].key, at |-> "deliver", agent |-> turn[r].agent,
                   aborted |-> turn[r].aborted, complete |-> turn[r].complete,
                   answers |-> 0, cancels |-> turn[r].cancels]
          BY <5>1, <2>1, <1>t
        <5>3. turn' = [turn EXCEPT ![r] = [u EXCEPT !.agent = NULL]]
          BY <3>1, <5>1, <1>t
        <5>4. [u EXCEPT !.agent = NULL] = [key |-> turn[r].key, at |-> "deliver", agent |-> NULL,
                   aborted |-> turn[r].aborted, complete |-> turn[r].complete,
                   answers |-> 0, cancels |-> turn[r].cancels]
          BY <5>2
        <5> QED BY <5>3, <5>4
      <4> QED BY <4>1
    <3>2. CASE turn' = [turn EXCEPT ![r] = [Fail(@) EXCEPT !.agent = NULL]]
      <4>1. turn' = [turn EXCEPT ![r] = [key |-> turn[r].key, at |-> "clean", agent |-> NULL,
                        aborted |-> turn[r].aborted, complete |-> turn[r].complete,
                        answers |-> 1, cancels |-> turn[r].cancels]]
        <5>1. PICK u : u = Fail(turn[r])
          OBVIOUS
        <5>2. u = [key |-> turn[r].key, at |-> "clean", agent |-> turn[r].agent,
                   aborted |-> turn[r].aborted, complete |-> turn[r].complete,
                   answers |-> 1, cancels |-> turn[r].cancels]
          BY <5>1, <2>1, <1>t, FailIs
        <5>3. turn' = [turn EXCEPT ![r] = [u EXCEPT !.agent = NULL]]
          BY <3>2, <5>1
        <5>4. [u EXCEPT !.agent = NULL] = [key |-> turn[r].key, at |-> "clean", agent |-> NULL,
                   aborted |-> turn[r].aborted, complete |-> turn[r].complete,
                   answers |-> 1, cancels |-> turn[r].cancels]
          BY <5>2
        <5> QED BY <5>3, <5>4
      <4> QED BY <4>1
    <3> QED BY <3>1, <3>2, <1>3 DEF PutSession
  <2>3. turn'[r] = [key |-> turn[r].key, at |-> p, agent |-> NULL,
                    aborted |-> turn[r].aborted, complete |-> turn[r].complete,
                    answers |-> n, cancels |-> turn[r].cancels]
    BY <2>2, <1>t
  <2>4. \A q \in Requests : q # r => turn'[q] = turn[q] BY <2>2, <1>t
  <2>5. turn'[r] \in Turn BY <2>3, <1>t
  <2>6. turn' \in [Requests -> Turn] BY <2>2, <2>5, <2>4, <1>t
  <2>7. Shape(r)' BY <2>1, <2>2, <2>3, <1>s, <1>t DEF Shape
  <2> QED BY <2>1, <2>3, <2>4, <2>6, <2>7
<1>4. CASE Deliver(r)
  <2>1. /\ turn[r].at \in {"deliver", "bubbles"} /\ UNCHANGED call
        /\ turn[r].aborted = "no" /\ turn[r].answers = 0
    BY <1>4, <1>s, <1>t DEF Deliver, Shape
  <2>2. turn'[r] = [key |-> turn[r].key, at |-> "clean", agent |-> turn[r].agent,
                    aborted |-> turn[r].aborted, complete |-> turn[r].complete,
                    answers |-> 1, cancels |-> turn[r].cancels]
    BY <1>4, <1>t, <2>1 DEF Deliver
  <2>3. \A q \in Requests : q # r => turn'[q] = turn[q] BY <1>4, <1>t DEF Deliver
  <2>4. turn'[r] \in Turn BY <2>2, <1>t
  <2>5. turn' \in [Requests -> Turn] BY <1>4, <2>4, <2>3, <1>t DEF Deliver
  <2>6. Shape(r)' BY <2>1, <2>2, <1>s, <1>t DEF Shape
  <2> QED BY <2>1, <2>2, <2>3, <2>5, <2>6
<1>6. CASE ShowSegment(r)
  <2>1. turn[r].at = "deliver" /\ UNCHANGED call /\ turn[r].aborted = "no" /\ turn[r].answers = 0
    BY <1>6, <1>s, <1>t DEF ShowSegment, Shape
  <2>2. turn'[r] = [key |-> turn[r].key, at |-> "bubbles", agent |-> turn[r].agent,
                    aborted |-> turn[r].aborted, complete |-> turn[r].complete,
                    answers |-> turn[r].answers, cancels |-> turn[r].cancels]
    BY <1>6, <1>t, <2>1 DEF ShowSegment
  <2>3. \A q \in Requests : q # r => turn'[q] = turn[q] BY <1>6, <1>t DEF ShowSegment
  <2>4. turn'[r] \in Turn BY <2>2, <1>t
  <2>5. turn' \in [Requests -> Turn] BY <1>6, <2>4, <2>3, <1>t DEF ShowSegment
  <2>6. Shape(r)' BY <2>1, <2>2, <1>s, <1>t DEF Shape
  <2> QED BY <2>1, <2>2, <2>3, <2>5, <2>6
<1>5. CASE CleanUp(r) \/ Drop(r)
  <2>1. Live(r) /\ UNCHANGED call BY <1>5 DEF CleanUp, Drop
  <2>2. PICK a \in Nat \cup {NULL} :
          turn' = [turn EXCEPT ![r] = [key |-> turn[r].key, at |-> "ended", agent |-> a,
                     aborted |-> turn[r].aborted, complete |-> turn[r].complete,
                     answers |-> turn[r].answers, cancels |-> turn[r].cancels]]
    <3>1. CASE CleanUp(r)
      <4>1. turn' = [turn EXCEPT ![r] = [key |-> turn[r].key, at |-> "ended",
                       agent |-> turn[r].agent,
                       aborted |-> turn[r].aborted, complete |-> turn[r].complete,
                       answers |-> turn[r].answers, cancels |-> turn[r].cancels]]
        <5>1. PICK u : u = [turn[r] EXCEPT !.at = "ended"]
          OBVIOUS
        <5>2. u = [key |-> turn[r].key, at |-> "ended", agent |-> turn[r].agent,
                   aborted |-> turn[r].aborted, complete |-> turn[r].complete,
                   answers |-> turn[r].answers, cancels |-> turn[r].cancels]
          BY <5>1, <1>t
        <5>3. turn' = [turn EXCEPT ![r] = u]
          BY <3>1, <5>1 DEF CleanUp
        <5> QED BY <5>2, <5>3
      <4> QED BY <4>1, <1>t
    <3>2. CASE Drop(r)
      <4>1. turn' = [turn EXCEPT ![r] = [key |-> turn[r].key, at |-> "ended", agent |-> NULL,
                       aborted |-> turn[r].aborted, complete |-> turn[r].complete,
                       answers |-> turn[r].answers, cancels |-> turn[r].cancels]]
        <5>1. PICK u : u = [turn[r] EXCEPT !.at = "ended"]
          OBVIOUS
        <5>2. u = [key |-> turn[r].key, at |-> "ended", agent |-> turn[r].agent,
                   aborted |-> turn[r].aborted, complete |-> turn[r].complete,
                   answers |-> turn[r].answers, cancels |-> turn[r].cancels]
          BY <5>1, <1>t
        <5>3. turn' = [turn EXCEPT ![r] = [u EXCEPT !.agent = NULL]]
          BY <3>2, <5>1, <1>t DEF Drop
        <5>4. [u EXCEPT !.agent = NULL] = [key |-> turn[r].key, at |-> "ended", agent |-> NULL,
                   aborted |-> turn[r].aborted, complete |-> turn[r].complete,
                   answers |-> turn[r].answers, cancels |-> turn[r].cancels]
          BY <5>2
        <5> QED BY <5>3, <5>4
      <4> QED BY <4>1
    <3> QED BY <3>1, <3>2, <1>5
  <2>3. turn'[r] = [key |-> turn[r].key, at |-> "ended", agent |-> a,
                    aborted |-> turn[r].aborted, complete |-> turn[r].complete,
                    answers |-> turn[r].answers, cancels |-> turn[r].cancels]
    BY <2>2, <1>t
  <2>4. \A q \in Requests : q # r => turn'[q] = turn[q] BY <2>2, <1>t
  <2>5. turn'[r] \in Turn BY <2>3, <1>t
  <2>6. turn' \in [Requests -> Turn] BY <2>2, <2>5, <2>4, <1>t
  <2>7. Shape(r)' BY <2>1, <2>3, <1>s, <1>t DEF Shape
  <2> QED BY <2>1, <2>3, <2>4, <2>6, <2>7
<1> QED BY <1>1, <1>2, <1>3, <1>4, <1>5, <1>6 DEF TaskStep

\* What an entry of the table says of its request.
LEMMA EntryOf ==
    ASSUME TypeOK, TurnInv, EntryInv, NEW k \in Keys, inFlight[k] # NULL
    PROVE  LET r == inFlight[k]
           IN  /\ r \in Requests /\ turn[r].key = k /\ turn[r].aborted = "no"
               /\ turn[r].cancels = 0 /\ call[r] = "returned"
<1>1. inFlight[k] \in Requests BY DEF TypeOK
<1>2. turn[inFlight[k]].cancels \in 0..1 BY <1>1, Constants DEF Turn
<1> QED BY <1>1, <1>2 DEF EntryInv, EntryLive, TurnInv, Shape, Aborted, KeyOf

\* A cancellation keeps the shape of a turn whose call has returned.
LEMMA CancelKeepsShape ==
    ASSUME TypeOK, TurnInv, NEW r \in Requests,
           turn[r].cancels = 0, call[r] = "returned", call'[r] = "returned",
           turn'[r] = CancelTurn(turn[r])
    PROVE  /\ turn'[r] \in Turn /\ Shape(r)' /\ Aborted(r)'
           /\ turn'[r].key = turn[r].key /\ turn'[r].at = turn[r].at
           /\ turn'[r].agent = turn[r].agent /\ turn'[r].complete = turn[r].complete
<1>1. turn[r] \in Turn BY Constants
<1>2. turn'[r] \in Turn
      /\ turn'[r].key = turn[r].key /\ turn'[r].at = turn[r].at
      /\ turn'[r].agent = turn[r].agent /\ turn'[r].complete = turn[r].complete
      /\ turn'[r].answers = turn[r].answers /\ turn'[r].cancels = 1
      /\ turn'[r].aborted = IF turn[r].at \in {"clean", "ended"} THEN "late" ELSE "waiting"
  BY <1>1, CancelTurnIs
<1>3. Shape(r) BY DEF TurnInv
<1>4. turn[r].answers \in 0..1 /\ turn[r].at \in Phases BY <1>1 DEF Turn
<1>5. Aborted(r)' BY <1>2 DEF Aborted
<1>6. turn'[r].aborted = "waiting" => turn'[r].answers = 0
  BY <1>2, <1>3, <1>4 DEF Shape
<1>7. call[r] # "idle" /\ turn[r].key # NULL BY <1>3 DEF Shape
<1>8. Shape(r)'
  BY <1>2, <1>3, <1>5, <1>6, <1>7 DEF Shape
<1> QED BY <1>2, <1>5, <1>8

\* What the first critical section of start_chat does to the turns: it makes one,
\* aborts the one in the table, and keeps the rest.
LEMMA BeginMoves ==
    ASSUME TypeOK, TurnInv, EntryInv, NEW r \in Requests, NEW k \in Keys, Begin(r, k)
    PROVE  /\ turn' \in [Requests -> Turn] /\ call' \in [Requests -> {"idle", "begun", "returned"}]
           /\ turn[r].key = NULL /\ turn[r].at = "none" /\ turn'[r] = NewTurn(k)
           /\ call'[r] = "begun" /\ inFlight[k] # r
           /\ \A q \in Requests \ {r} :
                 /\ call'[q] = call[q]
                 /\ turn'[q].key = turn[q].key /\ turn'[q].at = turn[q].at
                 /\ turn'[q].agent = turn[q].agent /\ turn'[q].complete = turn[q].complete
                 /\ IF q = inFlight[k] THEN Aborted(q)' ELSE turn'[q] = turn[q]
           /\ TurnInv'
<1>1. /\ call[r] = "idle" /\ call' = [call EXCEPT ![r] = "begun"]
      /\ turn' = [q \in Requests |-> CASE q = r -> NewTurn(k)
                                       [] q = inFlight[k] -> CancelTurn(turn[q])
                                       [] OTHER -> turn[q]]
  BY DEF Begin
<1>2. call \in [Requests -> {"idle", "begun", "returned"}] BY DEF TypeOK
<1>3. Shape(r) /\ turn[r] \in Turn BY Constants DEF TurnInv
<1>4. turn[r].key = NULL /\ turn[r].at = "none" BY <1>1, <1>3 DEF Shape
<1>5. inFlight[k] # r BY <1>1, EntryOf, Constants
<1>6. turn'[r] = NewTurn(k) /\ turn'[r] \in Turn /\ call'[r] = "begun"
  <2>1. turn'[r] = NewTurn(k) BY <1>1, <1>5, SMT
  <2>2. NewTurn(k) \in Turn BY NewTurnIs
  <2> QED BY <1>1, <1>2, <2>1, <2>2
<1>7. Shape(r)'
  <2>1. turn'[r].key = k /\ turn'[r].at = "load" /\ turn'[r].aborted = "no"
        /\ turn'[r].answers = 0 /\ turn'[r].cancels = 0 /\ k # NULL
    BY <1>6, NewTurnIs, Constants
  <2> QED BY <2>1, <1>6 DEF Shape, Aborted
<1>8. ASSUME NEW q \in Requests \ {r}
      PROVE  /\ call'[q] = call[q] /\ turn'[q] \in Turn
             /\ turn'[q].key = turn[q].key /\ turn'[q].at = turn[q].at
             /\ turn'[q].agent = turn[q].agent /\ turn'[q].complete = turn[q].complete
             /\ IF q = inFlight[k] THEN Aborted(q)' ELSE turn'[q] = turn[q]
             /\ Shape(q)'
  <2>1. call'[q] = call[q] BY <1>1, <1>2
  <2>2. CASE q = inFlight[k]
    <3>1. turn'[q] = CancelTurn(turn[q]) BY <1>1, <2>2
    <3>2. inFlight[k] # NULL BY <2>2, Constants
    <3>3. turn[q].cancels = 0 /\ call[q] = "returned" BY <2>2, <3>2, EntryOf
    <3> QED BY <2>1, <2>2, <3>1, <3>3, CancelKeepsShape
  <2>3. CASE q # inFlight[k]
    <3>1. turn'[q] = turn[q] /\ turn[q] \in Turn /\ Shape(q)
      BY <1>1, <2>3, Constants DEF TurnInv
    <3> QED BY <2>1, <2>3, <3>1 DEF Shape, Aborted
  <2> QED BY <2>2, <2>3
<1>9. turn' \in [Requests -> Turn]
  <2>1. \A q \in Requests : turn'[q] \in Turn BY <1>6, <1>8
  <2> QED BY <1>1, <2>1
<1>10. call' \in [Requests -> {"idle", "begun", "returned"}] BY <1>1, <1>2
<1>11. TurnInv' BY <1>7, <1>8 DEF TurnInv
<1> QED BY <1>4, <1>5, <1>6, <1>8, <1>9, <1>10, <1>11

\* cancel_chat aborts the turn in the table and keeps the rest.
LEMMA CancelMoves ==
    ASSUME TypeOK, TurnInv, EntryInv, NEW k \in Keys, Cancel(k)
    PROVE  /\ turn' \in [Requests -> Turn] /\ UNCHANGED call
           /\ \A q \in Requests :
                 /\ turn'[q].key = turn[q].key /\ turn'[q].at = turn[q].at
                 /\ turn'[q].agent = turn[q].agent /\ turn'[q].complete = turn[q].complete
                 /\ IF q = inFlight[k] THEN Aborted(q)' ELSE turn'[q] = turn[q]
           /\ TurnInv'
<1>1. /\ inFlight[k] # NULL /\ UNCHANGED call
      /\ turn' = [turn EXCEPT ![inFlight[k]] = CancelTurn(@)]
  BY DEF Cancel
<1>2. turn \in [Requests -> Turn] BY DEF TypeOK, Turn
<1>3. ASSUME NEW q \in Requests
      PROVE  /\ turn'[q] \in Turn
             /\ turn'[q].key = turn[q].key /\ turn'[q].at = turn[q].at
             /\ turn'[q].agent = turn[q].agent /\ turn'[q].complete = turn[q].complete
             /\ IF q = inFlight[k] THEN Aborted(q)' ELSE turn'[q] = turn[q]
             /\ Shape(q)'
  <2>1. CASE q = inFlight[k]
    <3>1. turn'[q] = CancelTurn(turn[q]) BY <1>1, <1>2, <2>1
    <3>2. turn[q].cancels = 0 /\ call[q] = "returned" BY <2>1, <1>1, EntryOf
    <3> QED BY <1>1, <2>1, <3>1, <3>2, CancelKeepsShape
  <2>2. CASE q # inFlight[k]
    <3>1. turn'[q] = turn[q] /\ turn[q] \in Turn /\ Shape(q)
      BY <1>1, <1>2, <2>2, Constants DEF TurnInv
    <3> QED BY <1>1, <2>2, <3>1 DEF Shape, Aborted
  <2> QED BY <2>1, <2>2
<1>4. turn' \in [Requests -> Turn]
  <2>1. \A q \in Requests : turn'[q] \in Turn BY <1>3
  <2> QED BY <1>1, <1>2, <2>1
<1> QED BY <1>1, <1>3, <1>4 DEF TurnInv

\* A crash ends all turns: none is live after it.
LEMMA RelaunchMoves ==
    ASSUME TypeOK, TurnInv, Relaunch
    PROVE  /\ turn' \in [Requests -> Turn] /\ call' \in [Requests -> {"idle", "begun", "returned"}]
           /\ \A q \in Requests : /\ turn'[q].key = turn[q].key /\ ~Live(q)'
                                  /\ call'[q] # "begun"
           /\ TurnInv'
<1>1. /\ call' = [r \in Requests |-> IF call[r] = "idle" THEN "idle" ELSE "returned"]
      /\ turn' = [r \in Requests |-> IF Live(r) THEN Lost(turn[r]) ELSE turn[r]]
  BY DEF Relaunch, ForgetMemory
<1>2. ASSUME NEW q \in Requests
      PROVE  /\ turn'[q] \in Turn /\ turn'[q].key = turn[q].key /\ ~Live(q)'
             /\ call'[q] # "begun" /\ Shape(q)'
  <2>1. turn[q] \in Turn /\ Shape(q) /\ call[q] \in {"idle", "begun", "returned"}
    BY Constants DEF TurnInv, TypeOK
  <2>2. call'[q] = IF call[q] = "idle" THEN "idle" ELSE "returned"
    BY <1>1
  <2>3. CASE Live(q)
    <3>1. turn'[q] = Lost(turn[q]) BY <1>1, <2>3
    <3>2. turn'[q] \in Turn /\ turn'[q].key = turn[q].key /\ turn'[q].at = "ended"
          /\ turn'[q].aborted = "lost"
      BY <3>1, <2>1, LostIs
    <3>3. turn[q].key # NULL /\ call[q] # "idle" BY <2>1, <2>3 DEF Shape, Live
    <3> QED BY <2>2, <3>2, <3>3 DEF Shape, Live, Aborted
  <2>4. CASE ~Live(q)
    <3>1. turn'[q] = turn[q] BY <1>1, <2>4
    <3> QED BY <2>1, <2>2, <2>4, <3>1 DEF Shape, Live, Aborted
  <2> QED BY <2>3, <2>4
<1>3. turn' \in [Requests -> Turn]
  <2>1. \A q \in Requests : turn'[q] \in Turn BY <1>2
  <2> QED BY <1>1, <2>1
<1>4. call' \in [Requests -> {"idle", "begun", "returned"}] BY <1>1
<1> QED BY <1>2, <1>3, <1>4 DEF TurnInv

------------------------------------------------------------------------------
(* Types and turns *)

LEMMA TypeInit == Init => TypeOK /\ TurnInv
<1> SUFFICES ASSUME Init PROVE TypeOK /\ TurnInv
  OBVIOUS
<1>1. Idle \in Turn BY ChatAssumption DEF Idle, Turn, Phases
<1>2. turn \in [Requests -> Turn] BY <1>1 DEF Init
<1>3. mirror \in [Requests -> Mirror] BY DEF Init, Mirror
<1>4. TypeOK BY <1>2, <1>3, ChatAssumption DEF Init, TypeOK, Turn, Mirror
<1>5. ASSUME NEW r \in Requests PROVE Shape(r)
  <2>1. turn[r] = Idle /\ call[r] = "idle" BY DEF Init
  <2>2. /\ Idle.key = NULL /\ Idle.at = "none" /\ Idle.aborted = "no"
        /\ Idle.answers = 0 /\ Idle.cancels = 0
    BY DEF Idle
  <2> QED BY <2>1, <2>2 DEF Shape, Aborted
<1> QED BY <1>4, <1>5 DEF TurnInv

\* Every step keeps the types and the shape of the turns.
LEMMA TypeStep ==
    ASSUME TypeOK, TurnInv, EntryInv, [Next]_vars
    PROVE  TypeOK' /\ TurnInv'
<1>t. /\ call \in [Requests -> {"idle", "begun", "returned"}]
      /\ turn \in [Requests -> Turn] /\ mirror \in [Requests -> Mirror]
  BY DEF TypeOK, Turn, Mirror
<1>p. ASSUME turn' \in [Requests -> Turn], mirror' \in [Requests -> Mirror],
             call' \in [Requests -> {"idle", "begun", "returned"}],
             inFlight' \in [Keys -> Requests \cup {NULL}],
             session' \in [Keys -> Nat \cup {NULL}], epoch' \in [Threads -> Nat],
             deleting' \in [Threads -> BOOLEAN],
             snapshot' \in [Threads -> [by : Requests, live : BOOLEAN] \cup {NULL}],
             upsets' \in 0..MaxUpsets,
             early' \subseteq Requests, raced' \subseteq Keys,
             leaked' \subseteq Keys, eclipsed' \subseteq Requests
      PROVE  TypeOK'
  BY <1>p DEF TypeOK, Turn, Mirror
<1>s. ASSUME UNCHANGED <<call, turn>> PROVE TurnInv'
  BY <1>s DEF TurnInv, Shape, Aborted
<1> USE DEF tables, threads, disk, ghosts
<1>1. ASSUME NEW r \in Requests, NEW k \in Keys, Begin(r, k) PROVE TypeOK' /\ TurnInv'
  <2>1. inFlight' = [inFlight EXCEPT ![k] = NULL] /\ raced' \subseteq Keys
    BY <1>1 DEF Begin, TypeOK
  <2>2. UNCHANGED <<session, threads, disk, early, leaked>> BY <1>1 DEF Begin
  <2> QED BY <1>1, <1>p, <1>t, <2>1, <2>2, BeginMoves DEF TypeOK
<1>2. ASSUME NEW r \in Requests, Insert(r) PROVE TypeOK' /\ TurnInv'
  <2>1. Shape(r) BY DEF TurnInv
  <2>2. call[r] = "begun" /\ KeyOf(r) # NULL BY <1>2, <2>1 DEF Insert, Shape, KeyOf
  <2>3. KeyOf(r) \in Keys BY <2>2, Constants
  <2>4. /\ call' = [call EXCEPT ![r] = "returned"] /\ UNCHANGED turn
        /\ inFlight' = [inFlight EXCEPT ![KeyOf(r)] = r] /\ early' \subseteq Requests
        /\ UNCHANGED <<session, threads, disk, raced, leaked>>
    BY <1>2 DEF Insert, TypeOK
  <2>5. TypeOK' BY <1>p, <1>t, <2>3, <2>4 DEF TypeOK
  <2>6. ASSUME NEW q \in Requests PROVE Shape(q)'
    <3>1. turn'[q] = turn[q] /\ (call'[q] = call[q] \/ (q = r /\ call'[q] = "returned"))
      BY <2>4, <1>t
    <3> QED BY <3>1, <2>2 DEF TurnInv, Shape, Aborted
  <2> QED BY <2>5, <2>6 DEF TurnInv
<1>3. ASSUME NEW r \in Requests, TaskStep(r) PROVE TypeOK' /\ TurnInv'
  <2>1. TurnInv'
    <3>1. ASSUME NEW q \in Requests \ {r} PROVE Shape(q)'
      <4>1. turn'[q] = turn[q] /\ call'[q] = call[q] BY <1>3, TaskMoves
      <4> QED BY <4>1 DEF TurnInv, Shape, Aborted
    <3> QED BY <1>3, <3>1, TaskMoves DEF TurnInv
  <2>2. KeyOf(r) \in Keys
    <3>1. Live(r) /\ Shape(r) BY <1>3, TaskMoves DEF TurnInv
    <3> QED BY <3>1, Constants DEF Live, Shape, KeyOf
  <2>3. UNCHANGED <<threads, snapshot, eclipsed, ghosts>>
    BY <1>3 DEF TaskStep, TakeSession, Complete, PutSession, ShowSegment, Deliver, CleanUp, Drop
  <2>4. mirror' \in [Requests -> Mirror]
    <3>1. mirror' = mirror \/ mirror' = [mirror EXCEPT ![r].at = "spawned"]
      BY <1>3 DEF TaskStep, TakeSession, Complete, PutSession, ShowSegment, Deliver, CleanUp, Drop
    <3>2. mirror[r] \in Mirror BY <1>t
    <3>3. [mirror[r] EXCEPT !.at = "spawned"] \in Mirror BY <3>2 DEF Mirror
    <3> QED BY <1>t, <3>1, <3>3
  <2>5. inFlight' \in [Keys -> Requests \cup {NULL}]
    <3>1. inFlight' = inFlight \/ inFlight' = [inFlight EXCEPT ![KeyOf(r)] = NULL]
      BY <1>3 DEF TaskStep, TakeSession, Complete, PutSession, ShowSegment, Deliver, CleanUp, Drop
    <3> QED BY <3>1 DEF TypeOK
  <2>6. session' \in [Keys -> Nat \cup {NULL}]
    <3>1. CASE PutSession(r)
      <4>1. session' = [session EXCEPT ![KeyOf(r)] = turn[r].agent] /\ turn[r].at = "run"
        BY <3>1 DEF PutSession
      <4>2. turn[r].agent \in Nat BY <4>1 DEF TurnInv, Shape
      <4> QED BY <4>1, <4>2 DEF TypeOK
    <3>2. CASE ~PutSession(r)
      <4>1. session' = session \/ session' = [session EXCEPT ![KeyOf(r)] = NULL]
        BY <1>3, <3>2 DEF TaskStep, TakeSession, Complete, ShowSegment, Deliver, CleanUp, Drop
      <4> QED BY <4>1 DEF TypeOK
    <3> QED BY <3>1, <3>2
  <2> QED BY <1>3, <1>p, <2>1, <2>3, <2>4, <2>5, <2>6, TaskMoves DEF TypeOK
<1>4. ASSUME NEW r \in Requests, MirrorStep(r) \/ MirrorFlush(r) PROVE TypeOK' /\ TurnInv'
  <2>1. UNCHANGED <<call, turn, tables, threads, ghosts>> /\ mirror[r].at # "none"
    BY <1>4 DEF MirrorStep, MirrorOpen, MirrorFlush, MirrorComplete, MirrorFinish
  <2>2. mirror' \in [Requests -> Mirror]
    <3>1. PICK p \in {"open", "done"}, b \in BOOLEAN :
            mirror' \in {mirror, [mirror EXCEPT ![r].at = p], [mirror EXCEPT ![r].seen = b]}
      BY <1>4 DEF MirrorStep, MirrorOpen, MirrorFlush, MirrorComplete, MirrorFinish
    <3>2. mirror[r] \in Mirror BY <1>t
    <3>3. [mirror[r] EXCEPT !.at = p] \in Mirror BY <3>2 DEF Mirror
    <3>4. [mirror[r] EXCEPT !.seen = b] \in Mirror BY <3>2 DEF Mirror
    <3> QED BY <1>t, <3>1, <3>3, <3>4
  <2>3. snapshot' \in [Threads -> [by : Requests, live : BOOLEAN] \cup {NULL}]
    <3>1. snapshot' = snapshot \/ \E v \in [by : Requests, live : BOOLEAN] \cup {NULL} :
                                     snapshot' = [snapshot EXCEPT ![ThreadOf(r)] = v]
      BY <1>4 DEF MirrorStep, MirrorOpen, MirrorFlush, MirrorComplete, MirrorFinish, Snap
    <3> QED BY <3>1 DEF TypeOK
  <2>4. eclipsed' \subseteq Requests
    BY <1>4 DEF MirrorStep, MirrorOpen, MirrorFlush, MirrorComplete, MirrorFinish, Met, On, TypeOK
  <2> QED BY <1>p, <1>s, <1>t, <2>1, <2>2, <2>3, <2>4 DEF TypeOK
<1>5. ASSUME NEW k \in Keys, Cancel(k) PROVE TypeOK' /\ TurnInv'
  <2>1. inFlight' = [inFlight EXCEPT ![k] = NULL] /\ UNCHANGED <<session, threads, disk, ghosts>>
    BY <1>5 DEF Cancel
  <2> QED BY <1>5, <1>p, <1>t, <2>1, CancelMoves DEF TypeOK
<1>f. \A ts : Forget(ts) \in [Threads -> [by : Requests, live : BOOLEAN] \cup {NULL}]
  BY DEF Forget, TypeOK
<1>u. Upset => upsets' \in 0..MaxUpsets
  BY ChatAssumption DEF Upset, TypeOK
<1>6. ASSUME NEW t \in Threads, ThreadStep(t) PROVE TypeOK' /\ TurnInv'
  <2>1. CASE DeleteRow(t)
    BY <1>p, <1>s, <1>t, <1>u, <2>1 DEF DeleteRow, TypeOK
  <2>2. CASE InvalidateSessions(t)
    <3>1. session' \in [Keys -> Nat \cup {NULL}] BY <2>2 DEF InvalidateSessions, TypeOK
    <3>2. Held(t) \subseteq Keys
      BY Constants DEF Held, On
    <3>3. Met(t) \subseteq Requests BY DEF Met, On
    <3>4. leaked' \subseteq Keys /\ eclipsed' \subseteq Requests
      BY <2>2, <3>2, <3>3 DEF InvalidateSessions, TypeOK
    <3> QED BY <1>p, <1>s, <1>t, <1>f, <2>2, <3>1, <3>4 DEF InvalidateSessions, TypeOK
  <2>3. CASE Dismiss(t)
    <3>1. Met(t) \subseteq Requests BY DEF Met, On
    <3> QED BY <1>p, <1>s, <1>t, <1>u, <1>f, <2>3, <3>1 DEF Dismiss, TypeOK
  <2> QED BY <1>6, <2>1, <2>2, <2>3 DEF ThreadStep
<1>7. CASE Purge
  <2>1. MetIn(Threads) \subseteq Requests BY DEF MetIn, Met, On
  <2>2. leaked' \subseteq Keys BY <1>7 DEF Purge, TypeOK
  <2>3. epoch' \in [Threads -> Nat] BY <1>7 DEF Purge, TypeOK
  <2> QED BY <1>p, <1>s, <1>t, <1>u, <1>f, <1>7, <2>1, <2>2, <2>3 DEF Purge, TypeOK
<1>8. CASE Relaunch
  <2>1. mirror' \in [Requests -> Mirror]
    <3>1. ASSUME NEW m \in Mirror PROVE Dead(m) \in Mirror
      BY DEF Dead, Mirror
    <3> QED BY <1>8, <1>t, <3>1 DEF Relaunch, ForgetMemory
  <2>2. snapshot' \in [Threads -> [by : Requests, live : BOOLEAN] \cup {NULL}]
    <3>1. ASSUME NEW v \in [by : Requests, live : BOOLEAN]
          PROVE  [v EXCEPT !.live = FALSE] \in [by : Requests, live : BOOLEAN]
      OBVIOUS
    <3> QED BY <1>8, <3>1 DEF Relaunch, TypeOK
  <2>3. /\ inFlight' \in [Keys -> Requests \cup {NULL}] /\ session' \in [Keys -> Nat \cup {NULL}]
        /\ deleting' \in [Threads -> BOOLEAN] /\ UNCHANGED <<epoch, ghosts, eclipsed>>
    BY <1>8 DEF Relaunch, ForgetMemory
  <2> QED BY <1>p, <1>u, <1>8, <2>1, <2>2, <2>3, RelaunchMoves DEF Relaunch, TypeOK
<1>9. CASE UNCHANGED vars
  BY <1>p, <1>s, <1>t, <1>9 DEF vars, TypeOK
<1> QED BY <1>1, <1>2, <1>3, <1>4, <1>5, <1>6, <1>7, <1>8, <1>9 DEF Next

------------------------------------------------------------------------------
(* The table of turns in flight *)

\* A step that touches neither calls nor turns nor the table keeps what the table says.
LEMMA TableStays ==
    ASSUME TableInv, UNCHANGED <<call, turn, inFlight, early, raced>>
    PROVE  TableInv'
BY DEF TableInv, EntryInv, EntryLive, TurnAbortable, BegunAlone, KeyOf, Live, Aborted

\* What is to be shown of the entries after a step.
LEMMA EntryLift ==
    ASSUME inFlight' \in [Keys -> Requests \cup {NULL}],
           \A j \in Keys, e \in Requests :
              inFlight'[j] = e => /\ KeyOf(e)' = j /\ ~Aborted(e)' /\ call'[e] = "returned"
                                  /\ Live(e)' \/ e \in early'
    PROVE  EntryInv'
BY DEF EntryInv, EntryLive, KeyOf, Aborted, Live

\* A new call empties the entry of its key and aborts whom it named: whoever else runs
\* on the key has been aborted, or the key has been raced for.
LEMMA BeginTable ==
    ASSUME TypeOK, TurnInv, TableInv, NEW r \in Requests, NEW k \in Keys, Begin(r, k)
    PROVE  TableInv'
<1>1. /\ turn[r].key = NULL /\ turn[r].at = "none" /\ turn'[r] = NewTurn(k)
      /\ call'[r] = "begun" /\ inFlight[k] # r
      /\ \A q \in Requests \ {r} :
            /\ call'[q] = call[q]
            /\ turn'[q].key = turn[q].key /\ turn'[q].at = turn[q].at
            /\ IF q = inFlight[k] THEN Aborted(q)' ELSE turn'[q] = turn[q]
  BY BeginMoves DEF TableInv
<1>2. turn'[r].key = k /\ turn'[r].aborted = "no" BY <1>1, NewTurnIs
<1>3. inFlight \in [Keys -> Requests \cup {NULL}] /\ inFlight' = [inFlight EXCEPT ![k] = NULL]
      /\ early' = early
  BY DEF TypeOK, Begin
<1>4. call[r] = "idle" /\ call \in [Requests -> {"idle", "begun", "returned"}]
  BY DEF Begin, TypeOK
<1>5. ASSUME NEW j \in Keys, inFlight'[j] # NULL
      PROVE  /\ KeyOf(inFlight[j])' = j /\ call'[inFlight[j]] = "returned"
             /\ ~Aborted(inFlight[j])' /\ inFlight'[j] = inFlight[j]
             /\ Live(inFlight[j])' \/ inFlight[j] \in early
  <2>1. j # k /\ inFlight'[j] = inFlight[j] BY <1>3, <1>5
  <2>2. inFlight[j] \in Requests /\ turn[inFlight[j]].key = j /\ call[inFlight[j]] = "returned"
    BY <1>5, <2>1, EntryOf DEF TableInv
  <2>3. inFlight[j] # r BY <1>4, <2>2
  <2>4. inFlight[j] # inFlight[k]
    BY <2>1, <2>2, EntryOf, Constants DEF TableInv
  <2>5. turn'[inFlight[j]] = turn[inFlight[j]] /\ call'[inFlight[j]] = call[inFlight[j]]
    BY <1>1, <2>2, <2>3, <2>4
  <2> QED BY <1>5, <2>1, <2>2, <2>5 DEF TableInv, EntryInv, EntryLive, KeyOf, Aborted, Live
<1>6. EntryInv' BY <1>3, <1>5 DEF EntryInv, EntryLive, KeyOf, Live, Aborted
<1>7. TurnAbortable'
  <2> SUFFICES ASSUME NEW q \in Requests, Live(q)', ~Aborted(q)', call'[q] = "returned",
                      KeyOf(q)' \notin raced'
               PROVE  inFlight'[KeyOf(q)'] = q
    BY DEF TurnAbortable
  <2>1. q # r BY <1>1
  <2>2. q # inFlight[k] /\ turn'[q] = turn[q] /\ call[q] = "returned" BY <1>1, <2>1
  <2>3. raced \subseteq raced' BY DEF Begin
  <2>4. inFlight[KeyOf(q)] = q
    BY <2>2, <2>3 DEF TableInv, TurnAbortable, Live, Aborted, KeyOf
  <2>5. KeyOf(q) # NULL BY <2>2 DEF TurnInv, Shape, KeyOf
  <2>6. KeyOf(q) \in Keys /\ KeyOf(q) # k BY <2>2, <2>4, <2>5, Constants
  <2> QED BY <1>3, <2>2, <2>4, <2>6 DEF KeyOf
<1>8. BegunAlone'
  <2> SUFFICES ASSUME NEW p \in Requests, NEW q \in Requests, p # q, call'[q] = "begun",
                      KeyOf(p)' = KeyOf(q)', KeyOf(q)' \notin raced'
               PROVE  call'[p] # "begun" /\ (Live(p)' => Aborted(p)')
    BY DEF BegunAlone
  <2>1. raced \subseteq raced' BY DEF Begin
  <2>r. \A x \in Requests : KeyOf(x) = k /\ call[x] = "begun" => k \in raced'
    BY DEF Begin
  <2>2. CASE q = r
    <3>1. KeyOf(q)' = k /\ k \notin raced' /\ p # r /\ KeyOf(p) = k
      BY <1>1, <1>2, <2>2 DEF KeyOf
    <3>2. call'[p] # "begun" BY <1>1, <2>r, <3>1
    <3>3. CASE p = inFlight[k] BY <1>1, <3>1, <3>2, <3>3
    <3>4. CASE p # inFlight[k]
      <4>1. turn'[p] = turn[p] BY <1>1, <3>1, <3>4
      <4>2. call[p] = "returned"
        <5>1. call[p] # "begun" BY <2>r, <3>1
        <5>2. call[p] # "idle" BY <3>1, Constants DEF TurnInv, Shape, KeyOf
        <5> QED BY <1>4, <5>1, <5>2
      <4>3. k \notin raced BY <2>1, <3>1
      <4>4. Live(p) => Aborted(p) BY <3>1, <3>4, <4>2, <4>3 DEF TableInv, TurnAbortable
      <4> QED BY <3>2, <4>1, <4>4 DEF Live, Aborted
    <3> QED BY <3>3, <3>4
  <2>3. CASE q # r
    <3>1. call[q] = "begun" /\ KeyOf(q)' = KeyOf(q) BY <1>1, <2>3 DEF KeyOf
    <3>2. p # r
      <4>1. ASSUME p = r PROVE FALSE
        <5>1. KeyOf(q) = k /\ KeyOf(q) \notin raced' BY <1>2, <3>1, <4>1 DEF KeyOf
        <5> QED BY <2>r, <3>1, <5>1
      <4> QED BY <4>1
    <3>3. KeyOf(p) = KeyOf(q) /\ KeyOf(q) \notin raced BY <1>1, <2>1, <3>1, <3>2 DEF KeyOf
    <3>4. call[p] # "begun" /\ (Live(p) => Aborted(p)) BY <3>1, <3>3 DEF TableInv, BegunAlone
    <3>5. call'[p] # "begun" BY <1>1, <3>2, <3>4
    <3>6. Live(p)' => Live(p) BY <1>1, <3>2 DEF Live
    <3>7. Aborted(p) => Aborted(p)' BY <1>1, <3>2 DEF Aborted
    <3> QED BY <3>4, <3>5, <3>6, <3>7
  <2> QED BY <2>2, <2>3
<1> QED BY <1>6, <1>7, <1>8 DEF TableInv

\* The insert of a call that is alone on its key overwrites no handle that is needed.
LEMMA InsertTable ==
    ASSUME TypeOK, TurnInv, TableInv, NEW r \in Requests, Insert(r)
    PROVE  TableInv'
<1>1. /\ call[r] = "begun" /\ UNCHANGED <<turn, raced>>
      /\ call' = [call EXCEPT ![r] = "returned"]
      /\ inFlight' = [inFlight EXCEPT ![KeyOf(r)] = r]
      /\ early' = IF Live(r) THEN early ELSE early \cup {r}
  BY DEF Insert
<1>2. call \in [Requests -> {"idle", "begun", "returned"}]
      /\ inFlight \in [Keys -> Requests \cup {NULL}]
  BY DEF TypeOK
<1>3. KeyOf(r) \in Keys /\ ~Aborted(r)
  <2>1. KeyOf(r) # NULL /\ ~Aborted(r) BY <1>1 DEF TurnInv, Shape, KeyOf
  <2> QED BY <2>1, Constants
<1>4. \A q \in Requests : call'[q] = IF q = r THEN "returned" ELSE call[q]
  BY <1>1, <1>2
<1>5. \A j \in Keys : inFlight'[j] = IF j = KeyOf(r) THEN r ELSE inFlight[j]
  BY <1>1, <1>2
<1>6. EntryInv'
  <2> SUFFICES ASSUME NEW j \in Keys, NEW e \in Requests, inFlight'[j] = e
               PROVE  /\ KeyOf(e)' = j /\ ~Aborted(e)' /\ call'[e] = "returned"
                      /\ Live(e)' \/ e \in early'
    BY <1>1, <1>2, <1>3, EntryLift
  <2>1. CASE j = KeyOf(r)
    <3>1. e = r BY <1>5, <2>1
    <3>2. call'[r] = "returned" BY <1>4
    <3>3. Live(r) \/ r \in early' BY <1>1
    <3> QED BY <1>1, <1>3, <2>1, <3>1, <3>2, <3>3 DEF KeyOf, Aborted, Live
  <2>2. CASE j # KeyOf(r)
    <3>1. inFlight[j] = e BY <1>5, <2>2
    <3>2. KeyOf(e) = j /\ ~Aborted(e) /\ (Live(e) \/ e \in early) /\ call[e] = "returned"
      BY <3>1, Constants DEF TableInv, EntryInv, EntryLive
    <3>3. call'[e] = "returned" /\ early \subseteq early' BY <1>1, <1>4, <3>2
    <3> QED BY <1>1, <3>2, <3>3 DEF KeyOf, Aborted, Live
  <2> QED BY <2>1, <2>2
<1>7. TurnAbortable'
  <2> SUFFICES ASSUME NEW q \in Requests, Live(q)', ~Aborted(q)', call'[q] = "returned",
                      KeyOf(q)' \notin raced'
               PROVE  inFlight'[KeyOf(q)'] = q
    BY DEF TurnAbortable
  <2>1. Live(q) /\ ~Aborted(q) /\ KeyOf(q) \notin raced /\ KeyOf(q)' = KeyOf(q)
    BY <1>1 DEF Live, Aborted, KeyOf
  <2>2. KeyOf(q) \in Keys
    <3>1. KeyOf(q) # NULL BY <2>1 DEF TurnInv, Shape, KeyOf, Live
    <3> QED BY <3>1, Constants
  <2>3. CASE q = r BY <1>5, <2>1, <2>2, <2>3
  <2>4. CASE q # r
    <3>1. call[q] = "returned" BY <1>4, <2>4
    <3>2. KeyOf(q) # KeyOf(r) BY <1>1, <2>1, <2>4 DEF TableInv, BegunAlone
    <3>3. inFlight[KeyOf(q)] = q BY <2>1, <3>1 DEF TableInv, TurnAbortable
    <3> QED BY <1>5, <2>1, <2>2, <3>2, <3>3
  <2> QED BY <2>3, <2>4
<1>8. BegunAlone'
  BY <1>1, <1>4 DEF TableInv, BegunAlone, KeyOf, Live, Aborted
<1> QED BY <1>6, <1>7, <1>8 DEF TableInv

\* A step of a task removes no entry but its own, and that when it is done.
LEMMA TaskTable ==
    ASSUME TypeOK, TurnInv, TableInv, NEW r \in Requests, TaskStep(r)
    PROVE  TableInv'
<1>1. /\ UNCHANGED call /\ Live(r)
      /\ \A q \in Requests : q # r => turn'[q] = turn[q]
      /\ turn'[r].key = turn[r].key /\ turn'[r].aborted = turn[r].aborted
  BY TaskMoves
<1>2. UNCHANGED <<early, raced>>
  BY DEF TaskStep, TakeSession, Complete, PutSession, ShowSegment, Deliver, CleanUp, Drop, ghosts
<1>3. inFlight \in [Keys -> Requests \cup {NULL}] BY DEF TypeOK
<1>4. \/ UNCHANGED inFlight /\ (Live(r)' \/ Aborted(r))
      \/ /\ turn[r].at = "clean" /\ turn'[r].at = "ended"
         /\ \A j \in Keys : inFlight'[j] = IF inFlight[j] = r /\ j = KeyOf(r) THEN NULL
                                           ELSE inFlight[j]
  <2>t. turn \in [Requests -> Turn] /\ turn[r] \in Turn BY DEF TypeOK, Turn
  <2>1. CASE TakeSession(r)
    <3>1. UNCHANGED inFlight BY <2>1 DEF TakeSession
    <3>2. \/ turn' = [turn EXCEPT ![r] = Fail(@)]
          \/ \E a \in {session[KeyOf(r)], epoch[ThreadOf(r)]} :
               turn' = [turn EXCEPT ![r].at = "run", ![r].agent = a]
      BY <2>1 DEF TakeSession
    <3>3. turn'[r].at \in {"run", "clean"}
      <4>1. CASE turn' = [turn EXCEPT ![r] = Fail(@)]
        <5>1. turn'[r] = Fail(turn[r]) BY <2>t, <4>1
        <5>2. turn[r].answers = 0
          <6>1. turn[r].at = "load" BY <2>1 DEF TakeSession
          <6> QED BY <2>t, <6>1 DEF TurnInv, Shape, Turn
        <5> QED BY <2>t, <5>1, <5>2, FailIs
      <4>2. CASE \E a \in {session[KeyOf(r)], epoch[ThreadOf(r)]} :
                   turn' = [turn EXCEPT ![r].at = "run", ![r].agent = a]
        BY <2>t, <4>2 DEF Turn
      <4> QED BY <3>2, <4>1, <4>2
    <3> QED BY <3>1, <3>3 DEF Live
  <2>2. CASE Complete(r)
    <3>1. turn'[r].at = turn[r].at BY <2>2, <2>t DEF Complete, Turn
    <3> QED BY <1>1, <2>2, <3>1 DEF Complete, tables, Live
  <2>3. CASE PutSession(r)
    <3>1. UNCHANGED inFlight BY <2>3 DEF PutSession
    <3>2. turn'[r].at \in {"deliver", "clean"}
      <4>1. CASE turn' = [turn EXCEPT ![r].at = "deliver", ![r].agent = NULL]
        BY <2>t, <4>1 DEF Turn
      <4>2. CASE turn' = [turn EXCEPT ![r] = [Fail(@) EXCEPT !.agent = NULL]]
        <5>1. turn'[r] = [Fail(turn[r]) EXCEPT !.agent = NULL] BY <2>t, <4>2
        <5>2. turn[r].answers = 0
          <6>1. turn[r].at = "run" BY <2>3 DEF PutSession
          <6> QED BY <2>t, <6>1 DEF TurnInv, Shape, Turn
        <5>3. Fail(turn[r]) = [key |-> turn[r].key, at |-> "clean", agent |-> turn[r].agent,
                 aborted |-> turn[r].aborted, complete |-> turn[r].complete, answers |-> 1,
                 cancels |-> turn[r].cancels]
          BY <2>t, <5>2, FailIs
        <5> QED BY <5>1, <5>3
      <4> QED BY <2>3, <4>1, <4>2 DEF PutSession
    <3> QED BY <3>1, <3>2 DEF Live
  <2>4. CASE Deliver(r)
    <3>1. turn'[r].at = "clean" BY <2>4, <2>t DEF Deliver, Turn
    <3> QED BY <2>4, <3>1 DEF Deliver, tables, Live
  <2>5. CASE CleanUp(r)
    <3>1. turn[r].at = "clean" /\ turn'[r].at = "ended" BY <2>5, <2>t DEF CleanUp, Turn
    <3>2. inFlight' = IF inFlight[KeyOf(r)] = r THEN [inFlight EXCEPT ![KeyOf(r)] = NULL]
                      ELSE inFlight
      BY <2>5 DEF CleanUp
    <3>3. \A j \in Keys : inFlight'[j] = IF inFlight[j] = r /\ j = KeyOf(r) THEN NULL
                                         ELSE inFlight[j]
      BY <1>3, <3>2
    <3> QED BY <3>1, <3>3
  <2>6. CASE Drop(r) BY <2>6 DEF Drop, tables
  <2>7. CASE ShowSegment(r)
    <3>1. turn'[r].at = "bubbles" BY <2>7, <2>t DEF ShowSegment, Turn
    <3> QED BY <2>7, <3>1 DEF ShowSegment, tables, Live
  <2> QED BY <2>1, <2>2, <2>3, <2>4, <2>5, <2>6, <2>7 DEF TaskStep
<1>5. EntryInv'
  <2> SUFFICES ASSUME NEW j \in Keys, NEW e \in Requests, inFlight'[j] = e
               PROVE  /\ KeyOf(e)' = j /\ ~Aborted(e)' /\ call'[e] = "returned"
                      /\ Live(e)' \/ e \in early'
    <3>1. inFlight' = inFlight \/ inFlight' = [inFlight EXCEPT ![KeyOf(r)] = NULL]
      BY DEF TaskStep, TakeSession, Complete, PutSession, ShowSegment, Deliver, CleanUp, Drop, tables
    <3>2. inFlight' \in [Keys -> Requests \cup {NULL}] BY <1>3, <3>1
    <3> QED BY <3>2, EntryLift
  <2>1. inFlight[j] = e BY <1>4, Constants
  <2>2. KeyOf(e) = j /\ ~Aborted(e) /\ (Live(e) \/ e \in early) /\ call[e] = "returned"
    BY <2>1, Constants DEF TableInv, EntryInv, EntryLive
  <2>3. KeyOf(e)' = j /\ ~Aborted(e)' /\ call'[e] = "returned"
    BY <1>1, <2>2 DEF KeyOf, Aborted
  <2>4. CASE e # r BY <1>1, <1>2, <2>2, <2>3, <2>4 DEF Live
  <2>5. CASE e = r
    <3>1. inFlight'[KeyOf(r)] # NULL /\ KeyOf(r) \in Keys BY <2>2, <2>5, Constants
    <3>2. Live(r)' BY <1>4, <2>1, <2>2, <2>5, <3>1
    <3> QED BY <2>3, <2>5, <3>2
  <2> QED BY <2>4, <2>5
<1>6. TurnAbortable'
  <2> SUFFICES ASSUME NEW q \in Requests, Live(q)', ~Aborted(q)', call'[q] = "returned",
                      KeyOf(q)' \notin raced'
               PROVE  inFlight'[KeyOf(q)'] = q
    BY DEF TurnAbortable
  <2>1. /\ Live(q) /\ ~Aborted(q) /\ KeyOf(q) \notin raced
        /\ KeyOf(q)' = KeyOf(q) /\ call[q] = "returned"
    BY <1>1, <1>2 DEF Live, Aborted, KeyOf
  <2>2. KeyOf(q) \in Keys
    <3>1. KeyOf(q) # NULL BY <2>1 DEF TurnInv, Shape, KeyOf, Live
    <3> QED BY <3>1, Constants
  <2>3. inFlight[KeyOf(q)] = q BY <2>1 DEF TableInv, TurnAbortable
  <2>4. q = r => UNCHANGED inFlight BY <1>4 DEF Live
  <2> QED BY <1>4, <2>1, <2>2, <2>3, <2>4
<1>7. BegunAlone'
  <2>1. \A q \in Requests : /\ KeyOf(q)' = KeyOf(q) /\ Aborted(q)' = Aborted(q)
                            /\ Live(q)' => Live(q)
    BY <1>1 DEF KeyOf, Aborted, Live
  <2> QED BY <1>1, <1>2, <2>1 DEF TableInv, BegunAlone
<1> QED BY <1>5, <1>6, <1>7 DEF TableInv

\* A cancellation empties the entry of the turn it aborts.
LEMMA CancelTable ==
    ASSUME TypeOK, TurnInv, TableInv, NEW k \in Keys, Cancel(k)
    PROVE  TableInv'
<1>1. /\ UNCHANGED call
      /\ \A q \in Requests :
            /\ turn'[q].key = turn[q].key /\ turn'[q].at = turn[q].at
            /\ IF q = inFlight[k] THEN Aborted(q)' ELSE turn'[q] = turn[q]
  BY CancelMoves DEF TableInv
<1>2. inFlight \in [Keys -> Requests \cup {NULL}] /\ inFlight' = [inFlight EXCEPT ![k] = NULL]
      /\ UNCHANGED <<early, raced>>
  BY DEF TypeOK, Cancel, ghosts
<1>3. \A j \in Keys : inFlight'[j] = IF j = k THEN NULL ELSE inFlight[j]
  BY <1>2
<1>4. EntryInv'
  <2> SUFFICES ASSUME NEW j \in Keys, NEW e \in Requests, inFlight'[j] = e
               PROVE  /\ KeyOf(e)' = j /\ ~Aborted(e)' /\ call'[e] = "returned"
                      /\ Live(e)' \/ e \in early'
    BY <1>2, EntryLift
  <2>1. j # k /\ inFlight[j] = e BY <1>3, Constants
  <2>2. KeyOf(e) = j /\ ~Aborted(e) /\ (Live(e) \/ e \in early) /\ call[e] = "returned"
    BY <2>1, Constants DEF TableInv, EntryInv, EntryLive
  <2>3. e # inFlight[k]
    BY <2>1, <2>2, EntryOf, Constants DEF TableInv, KeyOf
  <2>4. turn'[e] = turn[e] BY <1>1, <2>3
  <2> QED BY <1>1, <1>2, <2>2, <2>4 DEF KeyOf, Aborted, Live
<1>5. TurnAbortable'
  <2> SUFFICES ASSUME NEW q \in Requests, Live(q)', ~Aborted(q)', call'[q] = "returned",
                      KeyOf(q)' \notin raced'
               PROVE  inFlight'[KeyOf(q)'] = q
    BY DEF TurnAbortable
  <2>1. q # inFlight[k] /\ turn'[q] = turn[q] BY <1>1
  <2>2. /\ Live(q) /\ ~Aborted(q) /\ KeyOf(q) \notin raced
        /\ KeyOf(q)' = KeyOf(q) /\ call[q] = "returned"
    BY <1>1, <1>2, <2>1 DEF Live, Aborted, KeyOf
  <2>3. KeyOf(q) \in Keys
    <3>1. KeyOf(q) # NULL BY <2>2 DEF TurnInv, Shape, KeyOf, Live
    <3> QED BY <3>1, Constants
  <2>4. inFlight[KeyOf(q)] = q BY <2>2 DEF TableInv, TurnAbortable
  <2> QED BY <1>3, <2>1, <2>2, <2>3, <2>4
<1>6. BegunAlone'
  <2>2. \A q \in Requests : KeyOf(q)' = KeyOf(q) /\ (Live(q)' => Live(q))
    BY <1>1 DEF KeyOf, Live
  <2>3. \A q \in Requests : Aborted(q) => Aborted(q)'
    BY <1>1 DEF Aborted
  <2> QED BY <1>1, <1>2, <2>2, <2>3 DEF TableInv, BegunAlone
<1> QED BY <1>4, <1>5, <1>6 DEF TableInv

\* Every step keeps what the table says.
LEMMA TableStep ==
    ASSUME TypeOK, TurnInv, TableInv, [Next]_vars
    PROVE  TableInv'
<1> USE DEF tables, threads, disk, ghosts
<1>1. ASSUME NEW r \in Requests, MirrorStep(r) \/ MirrorFlush(r) PROVE TableInv'
  BY <1>1, TableStays DEF MirrorStep, MirrorOpen, MirrorFlush, MirrorComplete, MirrorFinish
<1>2. ASSUME NEW t \in Threads, ThreadStep(t) PROVE TableInv'
  BY <1>2, TableStays DEF ThreadStep, DeleteRow, InvalidateSessions, Dismiss
<1>3. CASE Purge
  BY <1>3, TableStays DEF Purge
<1>4. CASE Relaunch
  <2>1. \A q \in Requests : ~Live(q)' /\ call'[q] # "begun" BY <1>4, RelaunchMoves
  <2>2. \A k \in Keys : inFlight'[k] = NULL BY <1>4 DEF Relaunch, ForgetMemory
  <2> QED BY <2>1, <2>2 DEF TableInv, EntryInv, EntryLive, TurnAbortable, BegunAlone
<1>5. CASE UNCHANGED vars
  BY <1>5, TableStays DEF vars
<1> QED BY <1>1, <1>2, <1>3, <1>4, <1>5, BeginTable, InsertTable, TaskTable, CancelTable DEF Next

------------------------------------------------------------------------------
(* Cached agents and deleted threads *)

\* A step that leaves threads and cache alone, and gives no turn an agent, keeps both
\* halves.
LEMMA AgentStays ==
    ASSUME AgentInv, UNCHANGED <<session, epoch, deleting, leaked>>,
           \A q \in Requests : turn'[q].at = "run" =>
             turn[q].at = "run" /\ turn'[q].key = turn[q].key /\ turn'[q].agent = turn[q].agent
    PROVE  AgentInv'
<1>1. NoStaleSession' BY DEF AgentInv, NoStaleSession
<1>2. HeldFresh' BY DEF AgentInv, HeldFresh, ThreadOf, KeyOf
<1> QED BY <1>1, <1>2 DEF AgentInv

\* An agent goes from the cache into a turn and back with the age it has.
LEMMA TaskAgent ==
    ASSUME TypeOK, TurnInv, AgentInv, NEW r \in Requests, TaskStep(r)
    PROVE  AgentInv'
<1>1. /\ Live(r) /\ \A q \in Requests : q # r => turn'[q] = turn[q]
      /\ turn'[r].key = turn[r].key
  BY TaskMoves
<1>2. UNCHANGED <<epoch, deleting, leaked>>
  BY DEF TaskStep, TakeSession, Complete, PutSession, ShowSegment, Deliver, CleanUp, Drop, threads, ghosts
<1>t. turn \in [Requests -> Turn] /\ turn[r] \in Turn /\ session \in [Keys -> Nat \cup {NULL}]
      /\ epoch \in [Threads -> Nat]
  BY DEF TypeOK, Turn
<1>k. KeyOf(r) \in Keys /\ ThreadOf(r) \in Threads
  <2>1. KeyOf(r) # NULL BY <1>1 DEF TurnInv, Shape, KeyOf, Live
  <2> QED BY <2>1, Constants
<1>s. ASSUME \A j \in Keys : session'[j] \in {session[j], NULL}
      PROVE  NoStaleSession'
  BY <1>2, <1>s DEF AgentInv, NoStaleSession
<1>h. ASSUME turn'[r].at # "run" PROVE HeldFresh'
  BY <1>1, <1>2, <1>h DEF AgentInv, HeldFresh, ThreadOf, KeyOf
<1>3. CASE TakeSession(r)
  <2>1. \A j \in Keys : session'[j] \in {session[j], NULL}
    BY <1>3, <1>t DEF TakeSession
  <2>2. ASSUME NEW a \in Nat, turn' = [turn EXCEPT ![r].at = "run", ![r].agent = a],
               ~deleting[ThreadOf(r)] /\ a < epoch[ThreadOf(r)] => KeyOf(r) \in leaked
        PROVE  HeldFresh'
    <3>1. turn'[r].agent = a BY <1>t, <2>2 DEF Turn
    <3>2. ASSUME NEW q \in Requests, turn'[q].at = "run", ~deleting'[ThreadOf(q)'],
                 turn'[q].agent < epoch'[ThreadOf(q)']
          PROVE  KeyOf(q)' \in leaked'
      <4>1. CASE q = r
        BY <1>1, <1>2, <2>2, <3>1, <3>2, <4>1 DEF KeyOf, ThreadOf
      <4>2. CASE q # r
        BY <1>1, <1>2, <3>2, <4>2 DEF KeyOf, ThreadOf, AgentInv, HeldFresh
      <4> QED BY <4>1, <4>2
    <3> QED BY <3>2 DEF HeldFresh
  <2>3. CASE turn' = [turn EXCEPT ![r] = Fail(@)]
    <3>1. turn[r].answers = 0
      <4>1. turn[r].at = "load" BY <1>3 DEF TakeSession
      <4> QED BY <1>t, <4>1 DEF TurnInv, Shape, Turn
    <3>2. turn'[r] = Fail(turn[r]) BY <2>3, <1>t
    <3>3. turn'[r].at # "run" BY <1>t, <3>1, <3>2, FailIs
    <3> QED BY <1>h, <1>s, <2>1, <3>3 DEF AgentInv
  <2>4. CASE /\ session[KeyOf(r)] # NULL
             /\ turn' = [turn EXCEPT ![r].at = "run", ![r].agent = session[KeyOf(r)]]
    <3>1. session[KeyOf(r)] \in Nat BY <1>t, <1>k, <2>4
    <3>2. ~deleting[ThreadOf(r)] /\ session[KeyOf(r)] < epoch[ThreadOf(r)] => KeyOf(r) \in leaked
      BY <1>k, <2>4 DEF AgentInv, NoStaleSession, ThreadOf
    <3> QED BY <1>s, <2>1, <2>2, <2>4, <3>1, <3>2 DEF AgentInv
  <2>5. CASE turn' = [turn EXCEPT ![r].at = "run", ![r].agent = epoch[ThreadOf(r)]]
    <3>1. epoch[ThreadOf(r)] \in Nat BY <1>t, <1>k
    <3>2. ~(epoch[ThreadOf(r)] < epoch[ThreadOf(r)]) BY <3>1
    <3>3. HeldFresh' BY <2>2, <2>5, <3>1, <3>2
    <3> QED BY <1>s, <2>1, <3>3 DEF AgentInv
  <2> QED BY <1>3, <2>3, <2>4, <2>5 DEF TakeSession
<1>4. CASE PutSession(r)
  <2>1. session' = [session EXCEPT ![KeyOf(r)] = turn[r].agent] /\ turn[r].at = "run"
    BY <1>4 DEF PutSession
  <2>2. ASSUME NEW j \in Keys, session'[j] # NULL, ~deleting[j[2]], session'[j] < epoch[j[2]]
        PROVE  j \in leaked
    <3>1. CASE j = KeyOf(r)
      <4>1. session'[j] = turn[r].agent BY <1>t, <2>1, <3>1
      <4> QED BY <2>1, <2>2, <3>1, <4>1 DEF AgentInv, HeldFresh, ThreadOf
    <3>2. CASE j # KeyOf(r)
      <4>1. session'[j] = session[j] BY <1>t, <2>1, <3>2
      <4> QED BY <2>2, <4>1 DEF AgentInv, NoStaleSession
    <3> QED BY <3>1, <3>2
  <2>3. NoStaleSession' BY <1>2, <2>2 DEF NoStaleSession
  <2>4. turn'[r].at \in {"deliver", "clean"}
    <3>1. CASE turn' = [turn EXCEPT ![r].at = "deliver", ![r].agent = NULL]
      BY <1>t, <3>1 DEF Turn
    <3>2. CASE turn' = [turn EXCEPT ![r] = [Fail(@) EXCEPT !.agent = NULL]]
      <4>1. turn'[r] = [Fail(turn[r]) EXCEPT !.agent = NULL] BY <1>t, <3>2
      <4>2. turn[r].answers = 0 BY <1>t, <2>1 DEF TurnInv, Shape, Turn
      <4>3. Fail(turn[r]) = [key |-> turn[r].key, at |-> "clean", agent |-> turn[r].agent,
               aborted |-> turn[r].aborted, complete |-> turn[r].complete, answers |-> 1,
               cancels |-> turn[r].cancels]
        BY <1>t, <4>2, FailIs
      <4> QED BY <4>1, <4>3
    <3> QED BY <1>4, <3>1, <3>2 DEF PutSession
  <2> QED BY <1>h, <2>3, <2>4 DEF AgentInv
<1>5. CASE Complete(r)
  <2>1. turn'[r].agent = turn[r].agent /\ turn'[r].at = turn[r].at BY <1>5, <1>t DEF Complete, Turn
  <2>2. UNCHANGED session BY <1>5 DEF Complete, tables
  <2> QED BY <1>1, <1>2, <2>1, <2>2, AgentStays
<1>6. CASE ShowSegment(r) \/ Deliver(r) \/ CleanUp(r) \/ Drop(r)
  <2>1. turn'[r].at \in {"bubbles", "clean", "ended"}
    BY <1>6, <1>t DEF ShowSegment, Deliver, CleanUp, Drop, Turn
  <2>2. UNCHANGED session BY <1>6 DEF ShowSegment, Deliver, CleanUp, Drop, tables
  <2> QED BY <1>1, <1>2, <2>1, <2>2, AgentStays
<1> QED BY <1>3, <1>4, <1>5, <1>6 DEF TaskStep

\* Every step keeps the agents in the cache and in the turns fresh or accounted for.
LEMMA AgentStep ==
    ASSUME TypeOK, TurnInv, EntryInv, AgentInv, [Next]_vars
    PROVE  AgentInv'
<1> USE DEF tables, threads, disk, ghosts
<1>1. ASSUME NEW r \in Requests, NEW k \in Keys, Begin(r, k) PROVE AgentInv'
  <2>1. turn'[r].at = "load" BY <1>1, BeginMoves, NewTurnIs
  <2>2. \A q \in Requests \ {r} : /\ turn'[q].key = turn[q].key /\ turn'[q].at = turn[q].at
                                  /\ turn'[q].agent = turn[q].agent
    BY <1>1, BeginMoves
  <2>3. UNCHANGED <<session, epoch, deleting, leaked>> BY <1>1 DEF Begin
  <2> QED BY <2>1, <2>2, <2>3, AgentStays
<1>2. ASSUME NEW r \in Requests, Insert(r) PROVE AgentInv'
  BY <1>2, AgentStays DEF Insert
<1>3. ASSUME NEW r \in Requests, MirrorStep(r) \/ MirrorFlush(r) PROVE AgentInv'
  BY <1>3, AgentStays DEF MirrorStep, MirrorOpen, MirrorFlush, MirrorComplete, MirrorFinish
<1>4. ASSUME NEW k \in Keys, Cancel(k) PROVE AgentInv'
  <2>1. \A q \in Requests : /\ turn'[q].key = turn[q].key /\ turn'[q].at = turn[q].at
                            /\ turn'[q].agent = turn[q].agent
    BY <1>4, CancelMoves
  <2>2. UNCHANGED <<session, epoch, deleting, leaked>> BY <1>4 DEF Cancel
  <2> QED BY <2>1, <2>2, AgentStays
<1>t. \A q \in Requests : turn[q].at = "run" => KeyOf(q) # NULL /\ KeyOf(q) \in Keys
                                               /\ ThreadOf(q) \in Threads
  BY Constants DEF TurnInv, Shape, KeyOf
<1>5. ASSUME NEW t \in Threads, DeleteRow(t) PROVE AgentInv'
  <2>1. /\ UNCHANGED <<session, leaked, turn>>
        /\ epoch' = [epoch EXCEPT ![t] = @ + 1] /\ deleting' = [deleting EXCEPT ![t] = TRUE]
    BY <1>5 DEF DeleteRow
  <2>2. \A s \in Threads : ~deleting'[s] => ~deleting[s] /\ epoch'[s] = epoch[s]
    BY <2>1 DEF TypeOK
  <2>3. NoStaleSession' BY <2>1, <2>2, Constants DEF AgentInv, NoStaleSession, Keys
  <2>4. HeldFresh' BY <2>1, <2>2, <1>t DEF AgentInv, HeldFresh, ThreadOf, KeyOf
  <2> QED BY <2>3, <2>4 DEF AgentInv
<1>6. ASSUME NEW t \in Threads, InvalidateSessions(t) PROVE AgentInv'
  <2>1. /\ session' = [k \in Keys |-> IF k[2] = t THEN NULL ELSE session[k]]
        /\ leaked' = leaked \cup Held(t) /\ deleting' = [deleting EXCEPT ![t] = FALSE]
        /\ UNCHANGED <<epoch, turn>>
    BY <1>6 DEF InvalidateSessions
  <2>2. \A s \in Threads : s # t => deleting'[s] = deleting[s]
    BY <2>1 DEF TypeOK
  <2>3. \A k \in Keys : k[2] \in Threads BY DEF Keys
  <2>4. \A k \in Keys : session'[k] # NULL => k[2] # t /\ session'[k] = session[k]
    BY <2>1
  <2>5. NoStaleSession' BY <2>1, <2>2, <2>3, <2>4 DEF AgentInv, NoStaleSession
  <2>6. ASSUME NEW q \in Requests, turn[q].at = "run", ~deleting'[ThreadOf(q)],
               turn[q].agent < epoch[ThreadOf(q)]
        PROVE  KeyOf(q) \in leaked'
    <3>1. CASE ThreadOf(q) = t
      <4>1. KeyOf(q) \in Held(t) BY <1>t, <2>6, <3>1 DEF Held, On
      <4> QED BY <2>1, <4>1
    <3>2. CASE ThreadOf(q) # t
      <4>1. ~deleting[ThreadOf(q)] BY <1>t, <2>2, <2>6, <3>2
      <4> QED BY <2>1, <2>6, <4>1 DEF AgentInv, HeldFresh
    <3> QED BY <3>1, <3>2
  <2>7. HeldFresh' BY <2>1, <2>6 DEF HeldFresh, ThreadOf, KeyOf
  <2> QED BY <2>5, <2>7 DEF AgentInv
<1>7. ASSUME NEW t \in Threads, Dismiss(t) PROVE AgentInv'
  BY <1>7, AgentStays DEF Dismiss
<1>8. CASE Purge
  <2>1. /\ leaked' = leaked \cup {k \in Keys : session[k] # NULL \/ k \in Held(k[2])}
        /\ UNCHANGED <<session, turn>>
    BY <1>8 DEF Purge
  <2>2. NoStaleSession' BY <2>1 DEF NoStaleSession
  <2>3. ASSUME NEW q \in Requests, turn[q].at = "run" PROVE KeyOf(q) \in leaked'
    <3>1. KeyOf(q) \in Held(ThreadOf(q)) BY <1>t, <2>3 DEF Held, On
    <3> QED BY <1>t, <2>1, <2>3, <3>1 DEF ThreadOf
  <2>4. HeldFresh' BY <2>1, <2>3 DEF HeldFresh, KeyOf
  <2> QED BY <2>2, <2>4 DEF AgentInv
<1>9. CASE Relaunch
  <2>1. \A q \in Requests : ~Live(q)' BY <1>9, RelaunchMoves
  <2>2. \A k \in Keys : session'[k] = NULL BY <1>9 DEF Relaunch, ForgetMemory
  <2>3. HeldFresh' BY <2>1 DEF HeldFresh, Live
  <2>4. NoStaleSession' BY <2>2 DEF NoStaleSession
  <2> QED BY <2>3, <2>4 DEF AgentInv
<1>10. CASE UNCHANGED vars
  BY <1>10, AgentStays DEF vars
<1> QED BY <1>1, <1>2, <1>3, <1>4, <1>5, <1>6, <1>7, <1>8, <1>9, <1>10, TaskAgent
        DEF Next, ThreadStep

------------------------------------------------------------------------------
(* Bridges and snapshots *)

\* What a bridge and its thread look like when a turn has one.
LEMMA BridgeHasThread ==
    ASSUME TypeOK, TurnInv, BridgeShape, NEW r \in Requests, mirror[r].at # "none"
    PROVE  turn[r].at \notin {"none", "load"} /\ KeyOf(r) # NULL /\ ThreadOf(r) \in Threads
<1>1. turn[r].at \notin {"none", "load"} BY DEF BridgeShape
<1>2. KeyOf(r) # NULL BY <1>1 DEF TurnInv, Shape, KeyOf
<1> QED BY <1>1, <1>2, Constants

\* A step that leaves bridges and snapshots alone, and moves turns only past their
\* start, keeps what the files say.
LEMMA MirrorStays ==
    ASSUME TypeOK, TurnInv, MirrorInv, UNCHANGED <<mirror, snapshot, eclipsed>>,
           \A q \in Requests : mirror[q].at # "none" => turn'[q].key = turn[q].key,
           \A q \in Requests : turn'[q].at \in {"none", "load"} => mirror[q].at = "none"
    PROVE  MirrorInv'
<1>1. BridgeShape' BY DEF MirrorInv, BridgeShape
<1>2. SnapshotLive'
  <2> SUFFICES ASSUME NEW t \in Threads, snapshot[t] # NULL, snapshot[t].live
               PROVE  LET r == snapshot[t].by
                      IN  turn'[r].key[2] = t /\ mirror[r].at = "open" /\ ~mirror[r].seen
    BY DEF SnapshotLive, ThreadOf, KeyOf
  <2>1. snapshot[t].by \in Requests BY DEF TypeOK
  <2> QED BY <2>1 DEF MirrorInv, SnapshotLive, ThreadOf, KeyOf
<1>3. OpenEclipses' BY DEF MirrorInv, OpenEclipses, ThreadOf, KeyOf
<1>4. SnapshotTrue' BY DEF MirrorInv, SnapshotTrue, ThreadOf, KeyOf
<1> QED BY <1>1, <1>2, <1>3, <1>4 DEF MirrorInv

\* Whatever forgets the snapshots of threads counts the bridges met there as eclipsed.
LEMMA MirrorForgets ==
    ASSUME TypeOK, TurnInv, MirrorInv, NEW ts \in SUBSET Threads,
           UNCHANGED <<mirror, turn>>, snapshot' = Forget(ts),
           eclipsed' = eclipsed \cup MetIn(ts)
    PROVE  MirrorInv'
<1>1. BridgeShape' BY DEF MirrorInv, BridgeShape
<1>2. \A t \in Threads : snapshot'[t] = IF t \in ts THEN NULL ELSE snapshot[t]
  BY DEF Forget
<1>3. SnapshotLive'
  <2> SUFFICES ASSUME NEW t \in Threads, snapshot'[t] # NULL, snapshot'[t].live
               PROVE  LET r == snapshot'[t].by
                      IN  turn[r].key[2] = t /\ mirror[r].at = "open" /\ ~mirror[r].seen
    BY DEF SnapshotLive, ThreadOf, KeyOf
  <2>1. snapshot'[t] = snapshot[t] BY <1>2
  <2> QED BY <2>1 DEF MirrorInv, SnapshotLive, ThreadOf, KeyOf
<1>4. OpenEclipses' BY DEF MirrorInv, OpenEclipses, ThreadOf, KeyOf
<1>5. SnapshotTrue'
  <2> SUFFICES ASSUME NEW r \in Requests, mirror[r].at \in {"open", "done"}, r \notin eclipsed'
               PROVE  snapshot'[ThreadOf(r)] = IF mirror[r].seen THEN NULL
                                               ELSE [by |-> r, live |-> mirror[r].at = "open"]
    BY DEF SnapshotTrue, ThreadOf, KeyOf
  <2>1. KeyOf(r) # NULL /\ ThreadOf(r) \in Threads BY BridgeHasThread DEF MirrorInv
  <2>2. r \in Met(ThreadOf(r)) BY <2>1 DEF Met, On
  <2>3. ThreadOf(r) \notin ts BY <2>1, <2>2 DEF MetIn
  <2> QED BY <1>2, <2>1, <2>3 DEF MirrorInv, SnapshotTrue
<1> QED BY <1>1, <1>3, <1>4, <1>5 DEF MirrorInv

\* The configuration read, a turn gets its bridge, unopened.
LEMMA TaskMirror ==
    ASSUME TypeOK, TurnInv, MirrorInv, NEW r \in Requests, TaskStep(r)
    PROVE  MirrorInv'
<1>1. /\ \A q \in Requests : q # r => turn'[q] = turn[q]
      /\ turn'[r].key = turn[r].key /\ turn'[r].at \notin {"none", "load"}
  BY TaskMoves
<1>2. UNCHANGED <<snapshot, eclipsed>>
  BY DEF TaskStep, TakeSession, Complete, PutSession, ShowSegment, Deliver, CleanUp, Drop, disk
<1>3. CASE UNCHANGED mirror
  BY <1>1, <1>2, <1>3, MirrorStays DEF MirrorInv, BridgeShape
<1>4. CASE turn[r].at = "load" /\ mirror' = [mirror EXCEPT ![r].at = "spawned"]
  <2>1. mirror[r].at = "none" /\ ~mirror[r].seen BY <1>4 DEF MirrorInv, BridgeShape
  <2>2. mirror'[r].at = "spawned" /\ mirror'[r].seen = mirror[r].seen
        /\ \A q \in Requests : q # r => mirror'[q] = mirror[q]
    BY <1>4, Constants DEF TypeOK, Mirror
  <2>3. \A q \in Requests : ThreadOf(q)' = ThreadOf(q) BY <1>1 DEF ThreadOf, KeyOf
  <2>4. \A q \in Requests : mirror'[q].at \in {"open", "done"} \/ mirror[q].at \in {"open", "done"}
                            => q # r /\ mirror'[q] = mirror[q]
    BY <2>1, <2>2
  <2>5. BridgeShape' BY <1>1, <2>1, <2>2 DEF MirrorInv, BridgeShape
  <2>6. SnapshotLive'
    <3> SUFFICES ASSUME NEW t \in Threads, snapshot[t] # NULL, snapshot[t].live
                 PROVE  LET q == snapshot[t].by
                        IN  turn'[q].key[2] = t /\ mirror'[q].at = "open" /\ ~mirror'[q].seen
      BY <1>2 DEF SnapshotLive, ThreadOf, KeyOf
    <3>1. snapshot[t].by \in Requests BY DEF TypeOK
    <3>2. LET q == snapshot[t].by
          IN  ThreadOf(q) = t /\ mirror[q].at = "open" /\ ~mirror[q].seen
      BY DEF MirrorInv, SnapshotLive
    <3> QED BY <2>3, <2>4, <3>1, <3>2 DEF ThreadOf, KeyOf
  <2>7. OpenEclipses' BY <1>2, <2>3, <2>4 DEF MirrorInv, OpenEclipses
  <2>8. SnapshotTrue' BY <1>2, <2>3, <2>4 DEF MirrorInv, SnapshotTrue
  <2> QED BY <2>5, <2>6, <2>7, <2>8 DEF MirrorInv
<1>5. mirror' = mirror \/ (turn[r].at = "load" /\ mirror' = [mirror EXCEPT ![r].at = "spawned"])
  BY DEF TaskStep, TakeSession, Complete, PutSession, ShowSegment, Deliver, CleanUp, Drop, disk
<1> QED BY <1>3, <1>4, <1>5

\* What a step of a bridge has in common with the others: it writes at most the
\* snapshot of its own thread.
LEMMA BridgeWrites ==
    ASSUME TypeOK, TurnInv, MirrorInv, NEW r \in Requests, MirrorStep(r) \/ MirrorFlush(r)
    PROVE  /\ UNCHANGED turn /\ mirror[r].at \in {"spawned", "open"}
           /\ \A q \in Requests : q # r => mirror'[q] = mirror[q]
           /\ \A t \in Threads : t # ThreadOf(r) => snapshot'[t] = snapshot[t]
           /\ ThreadOf(r) \in Threads /\ BridgeShape'
<1>1. UNCHANGED turn /\ mirror[r].at \in {"spawned", "open"}
  BY DEF MirrorStep, MirrorOpen, MirrorFlush, MirrorComplete, MirrorFinish
<1>2. ThreadOf(r) \in Threads BY <1>1, BridgeHasThread DEF MirrorInv
<1>3. \/ mirror' = mirror \/ mirror' = [mirror EXCEPT ![r].at = "open"]
      \/ mirror' = [mirror EXCEPT ![r].at = "done"]
      \/ mirror' = [mirror EXCEPT ![r].seen = TRUE] /\ mirror[r].at = "open"
  BY DEF MirrorStep, MirrorOpen, MirrorFlush, MirrorComplete, MirrorFinish
<1>t. mirror \in [Requests -> Mirror] /\ mirror[r] \in Mirror BY DEF TypeOK, Mirror
<1>4. /\ \A q \in Requests : q # r => mirror'[q] = mirror[q]
      /\ mirror'[r].at \in {"open", "done"} \/ mirror' = mirror
  BY <1>3, <1>t DEF Mirror
<1>5. \A t \in Threads : t # ThreadOf(r) => snapshot'[t] = snapshot[t]
  <2>1. snapshot' = snapshot \/ \E v : snapshot' = [snapshot EXCEPT ![ThreadOf(r)] = v]
    BY DEF MirrorStep, MirrorOpen, MirrorFlush, MirrorComplete, MirrorFinish, Snap
  <2> QED BY <2>1 DEF TypeOK
<1>6. BridgeShape'
  <2>1. turn[r].at \notin {"none", "load"} BY <1>1, BridgeHasThread DEF MirrorInv
  <2> QED BY <1>1, <1>4, <2>1 DEF MirrorInv, BridgeShape
<1> QED BY <1>1, <1>2, <1>4, <1>5, <1>6

\* What has to be shown after a step of a bridge: its thread's snapshot suits it, and
\* whoever it met there is eclipsed.
LEMMA BridgeLift ==
    ASSUME TypeOK, TurnInv, MirrorInv, NEW r \in Requests, MirrorStep(r) \/ MirrorFlush(r),
           eclipsed \subseteq eclipsed',
           LET v == snapshot'[ThreadOf(r)]
           IN  v # NULL /\ v.live =>
                 v.by \in Requests /\ ThreadOf(v.by) = ThreadOf(r)
                 /\ mirror'[v.by].at = "open" /\ ~mirror'[v.by].seen,
           mirror'[r].at \in {"open", "done"},
           r \notin eclipsed' => snapshot'[ThreadOf(r)] = IF mirror'[r].seen THEN NULL
                                    ELSE [by |-> r, live |-> mirror'[r].at = "open"],
           \A q \in Requests : q # r /\ mirror[q].at \in {"open", "done"}
                                     /\ ThreadOf(q) = ThreadOf(r) => q \in eclipsed',
           \A q \in Requests : q # r /\ mirror[q].at = "open"
                                     /\ ThreadOf(q) = ThreadOf(r) => r \in eclipsed'
    PROVE  MirrorInv'
<1>1. /\ UNCHANGED turn /\ mirror[r].at \in {"spawned", "open"}
      /\ \A q \in Requests : q # r => mirror'[q] = mirror[q]
      /\ \A t \in Threads : t # ThreadOf(r) => snapshot'[t] = snapshot[t]
      /\ ThreadOf(r) \in Threads /\ BridgeShape'
  BY BridgeWrites
<1>2. \A q \in Requests : ThreadOf(q)' = ThreadOf(q) BY <1>1 DEF ThreadOf, KeyOf
<1>3. SnapshotLive'
  <2> SUFFICES ASSUME NEW t \in Threads, snapshot'[t] # NULL, snapshot'[t].live
               PROVE  LET q == snapshot'[t].by
                      IN  turn[q].key[2] = t /\ mirror'[q].at = "open" /\ ~mirror'[q].seen
    BY <1>1 DEF SnapshotLive, ThreadOf, KeyOf
  <2>1. CASE t = ThreadOf(r) BY <2>1 DEF ThreadOf, KeyOf
  <2>2. CASE t # ThreadOf(r)
    <3>1. snapshot'[t] = snapshot[t] /\ snapshot[t].by \in Requests BY <1>1, <2>2 DEF TypeOK
    <3>2. LET q == snapshot[t].by
          IN  ThreadOf(q) = t /\ mirror[q].at = "open" /\ ~mirror[q].seen
      BY <3>1 DEF MirrorInv, SnapshotLive
    <3>3. snapshot[t].by # r BY <2>2, <3>2
    <3> QED BY <1>1, <3>1, <3>2, <3>3 DEF ThreadOf, KeyOf
  <2> QED BY <2>1, <2>2
<1>4. OpenEclipses'
  <2> SUFFICES ASSUME NEW p \in Requests, NEW q \in Requests, p # q, mirror'[p].at = "open",
                      mirror'[q].at \in {"open", "done"}, ThreadOf(p) = ThreadOf(q)
               PROVE  q \in eclipsed'
    BY <1>2 DEF OpenEclipses
  <2>1. CASE p = r BY <1>1, <2>1
  <2>2. CASE q = r BY <1>1, <2>2
  <2>3. CASE p # r /\ q # r BY <1>1, <2>3 DEF MirrorInv, OpenEclipses
  <2> QED BY <2>1, <2>2, <2>3
<1>5. SnapshotTrue'
  <2> SUFFICES ASSUME NEW q \in Requests, mirror'[q].at \in {"open", "done"}, q \notin eclipsed'
               PROVE  snapshot'[ThreadOf(q)] = IF mirror'[q].seen THEN NULL
                                               ELSE [by |-> q, live |-> mirror'[q].at = "open"]
    BY <1>2 DEF SnapshotTrue
  <2>1. CASE q = r BY <2>1
  <2>2. CASE q # r
    <3>1. mirror'[q] = mirror[q] BY <1>1, <2>2
    <3>2. ThreadOf(q) # ThreadOf(r) BY <2>2, <3>1
    <3>3. ThreadOf(q) \in Threads BY <3>1, BridgeHasThread DEF MirrorInv
    <3>4. snapshot'[ThreadOf(q)] = snapshot[ThreadOf(q)] BY <1>1, <3>2, <3>3
    <3> QED BY <3>1, <3>4 DEF MirrorInv, SnapshotTrue
  <2> QED BY <2>1, <2>2
<1> QED BY <1>1, <1>3, <1>4, <1>5 DEF MirrorInv

\* A step of a bridge keeps what the files say.
LEMMA BridgeStep ==
    ASSUME TypeOK, TurnInv, MirrorInv, NEW r \in Requests, MirrorStep(r) \/ MirrorFlush(r)
    PROVE  MirrorInv'
<1>1. /\ mirror \in [Requests -> Mirror] /\ mirror[r] \in Mirror
      /\ snapshot \in [Threads -> [by : Requests, live : BOOLEAN] \cup {NULL}]
      /\ ThreadOf(r) \in Threads
  BY BridgeWrites DEF TypeOK, Mirror
<1>v. ASSUME NEW b \in BOOLEAN, snapshot'[ThreadOf(r)] = [by |-> r, live |-> b],
             b <=> mirror'[r].at = "open", ~mirror'[r].seen
      PROVE  LET v == snapshot'[ThreadOf(r)]
             IN  /\ v # NULL /\ v.live =>
                      v.by \in Requests /\ ThreadOf(v.by) = ThreadOf(r)
                      /\ mirror'[v.by].at = "open" /\ ~mirror'[v.by].seen
                 /\ v = IF mirror'[r].seen THEN NULL
                        ELSE [by |-> r, live |-> mirror'[r].at = "open"]
  <2>1. snapshot'[ThreadOf(r)].by = r /\ (snapshot'[ThreadOf(r)].live <=> b) BY <1>v
  <2>2. b = (mirror'[r].at = "open") BY <1>v
  <2>3. snapshot'[ThreadOf(r)] = [by |-> r, live |-> mirror'[r].at = "open"]
    BY <1>v, <2>2, Zenon
  <2> QED BY <1>v, <2>1, <2>3
<1>2. CASE MirrorOpen(r)
  <2>1. mirror[r].at = "spawned" /\ ~mirror[r].seen
    BY <1>2 DEF MirrorOpen, MirrorInv, BridgeShape
  <2>2. mirror'[r].at = "open" /\ mirror'[r].seen = mirror[r].seen
    BY <1>1, <1>2 DEF MirrorOpen, Mirror
  <2>3. snapshot'[ThreadOf(r)] = [by |-> r, live |-> TRUE]
    BY <1>1, <1>2 DEF MirrorOpen, Snap
  <2>4. KeyOf(r) # NULL BY <2>1, BridgeHasThread DEF MirrorInv
  <2>5. ASSUME NEW q \in Requests, mirror[q].at \in {"open", "done"}, ThreadOf(q) = ThreadOf(r)
        PROVE  q \in Met(ThreadOf(r))
    <3>1. KeyOf(q) # NULL BY <2>5, BridgeHasThread DEF MirrorInv
    <3> QED BY <2>5, <3>1 DEF Met, On
  <2>6. /\ eclipsed \subseteq eclipsed' /\ Met(ThreadOf(r)) \subseteq eclipsed'
        /\ (\E q \in Met(ThreadOf(r)) : mirror[q].at = "open") => r \in eclipsed'
    BY <1>2 DEF MirrorOpen
  <2> QED BY <1>2, <1>v, <2>1, <2>2, <2>3, <2>5, <2>6, BridgeLift DEF MirrorStep
<1>e. ASSUME mirror[r].at = "open", UNCHANGED eclipsed
      PROVE  /\ \A q \in Requests : q # r /\ mirror[q].at \in {"open", "done"}
                                         /\ ThreadOf(q) = ThreadOf(r) => q \in eclipsed'
             /\ \A q \in Requests : q # r /\ mirror[q].at = "open"
                                         /\ ThreadOf(q) = ThreadOf(r) => r \in eclipsed'
  BY <1>e DEF MirrorInv, OpenEclipses
<1>3. CASE MirrorFlush(r)
  <2>1. mirror[r].at = "open" /\ ~mirror[r].seen /\ UNCHANGED <<mirror, eclipsed>>
    BY <1>3 DEF MirrorFlush
  <2>2. snapshot'[ThreadOf(r)] = [by |-> r, live |-> TRUE]
    BY <1>1, <1>3 DEF MirrorFlush, Snap
  <2> QED BY <1>3, <1>e, <1>v, <2>1, <2>2, BridgeLift
<1>4. CASE MirrorComplete(r)
  <2>1. mirror[r].at = "open" /\ UNCHANGED eclipsed BY <1>4 DEF MirrorComplete
  <2>2. mirror'[r].seen /\ mirror'[r].at = "open" BY <1>1, <1>4, <2>1 DEF MirrorComplete, Mirror
  <2>3. snapshot'[ThreadOf(r)] = NULL BY <1>1, <1>4 DEF MirrorComplete
  <2> QED BY <1>4, <1>e, <2>1, <2>2, <2>3, BridgeLift DEF MirrorStep
<1>5. CASE MirrorFinish(r)
  <2>1. mirror[r].at = "open" /\ UNCHANGED eclipsed BY <1>5 DEF MirrorFinish
  <2>2. mirror'[r].at = "done" /\ mirror'[r].seen = mirror[r].seen
    BY <1>1, <1>5 DEF MirrorFinish, Mirror
  <2>3. CASE mirror[r].seen
    <3>1. snapshot' = snapshot BY <1>5, <2>3 DEF MirrorFinish
    <3>2. r \notin eclipsed => snapshot[ThreadOf(r)] = NULL
      BY <2>1, <2>3 DEF MirrorInv, SnapshotTrue
    <3>3. ASSUME snapshot[ThreadOf(r)] # NULL, snapshot[ThreadOf(r)].live
          PROVE  LET q == snapshot[ThreadOf(r)].by
                 IN  q \in Requests /\ ThreadOf(q) = ThreadOf(r)
                     /\ mirror'[q].at = "open" /\ ~mirror'[q].seen
      <4>1. LET q == snapshot[ThreadOf(r)].by
            IN  q \in Requests /\ ThreadOf(q) = ThreadOf(r)
                /\ mirror[q].at = "open" /\ ~mirror[q].seen
        BY <1>1, <3>3 DEF MirrorInv, SnapshotLive
      <4>2. snapshot[ThreadOf(r)].by # r BY <2>3, <4>1
      <4> QED BY <4>1, <4>2, BridgeWrites
    <3> QED BY <1>5, <1>e, <2>1, <2>2, <2>3, <3>1, <3>2, <3>3, BridgeLift DEF MirrorStep
  <2>4. CASE ~mirror[r].seen
    <3>1. snapshot'[ThreadOf(r)] = [by |-> r, live |-> FALSE]
      BY <1>1, <1>5, <2>4 DEF MirrorFinish, Snap
    <3> QED BY <1>5, <1>e, <1>v, <2>1, <2>2, <2>4, <3>1, BridgeLift DEF MirrorStep
  <2> QED BY <2>3, <2>4
<1> QED BY <1>2, <1>3, <1>4, <1>5 DEF MirrorStep

\* After a crash the snapshots that were live are marked interrupted.
LEMMA RelaunchMirror ==
    ASSUME TypeOK, TurnInv, MirrorInv, Relaunch
    PROVE  MirrorInv'
<1>1. /\ \A q \in Requests : turn'[q].key = turn[q].key /\ ~Live(q)'
      /\ TurnInv'
  BY RelaunchMoves
<1>2. /\ mirror' = [r \in Requests |-> Dead(mirror[r])] /\ UNCHANGED eclipsed
      /\ snapshot' = [t \in Threads |->
                        IF snapshot[t] = NULL THEN NULL ELSE [snapshot[t] EXCEPT !.live = FALSE]]
  BY DEF Relaunch, ForgetMemory
<1>3. ASSUME NEW q \in Requests
      PROVE  /\ mirror'[q].seen = mirror[q].seen /\ mirror'[q].at \in {"none", "done"}
             /\ mirror'[q].at = "done" <=> mirror[q].at \in {"open", "done"}
  <2>1. mirror[q] \in Mirror /\ mirror'[q] = Dead(mirror[q]) BY <1>2, Constants
  <2> QED BY <2>1 DEF Dead, Mirror
<1>4. ASSUME NEW t \in Threads
      PROVE  IF snapshot[t] = NULL THEN snapshot'[t] = NULL
             ELSE snapshot'[t] = [by |-> snapshot[t].by, live |-> FALSE]
  <2>1. snapshot[t] # NULL => snapshot[t] \in [by : Requests, live : BOOLEAN] BY DEF TypeOK
  <2> QED BY <1>2, <2>1
<1>5. BridgeShape'
  <2>1. ASSUME NEW q \in Requests, turn'[q].at \in {"none", "load"} PROVE mirror'[q].at = "none"
    <3>1. turn'[q].at = "none" BY <1>1, <2>1 DEF Live
    <3>2. turn[q].key = NULL BY <1>1, <3>1 DEF TurnInv, Shape
    <3>3. mirror[q].at = "none" BY <3>2 DEF TurnInv, Shape, MirrorInv, BridgeShape
    <3> QED BY <1>3, <3>3
  <2>2. ASSUME NEW q \in Requests, mirror'[q].at \in {"none", "spawned"} PROVE ~mirror'[q].seen
    <3>1. mirror[q].at \in {"none", "spawned"} BY <1>3, <2>2, Constants DEF Mirror
    <3> QED BY <1>3, <3>1 DEF MirrorInv, BridgeShape
  <2> QED BY <2>1, <2>2 DEF BridgeShape
<1>6. SnapshotLive'
  <2>1. ASSUME NEW t \in Threads, snapshot'[t] # NULL PROVE ~snapshot'[t].live
    <3>1. snapshot'[t] = [by |-> snapshot[t].by, live |-> FALSE] BY <1>4, <2>1
    <3> QED BY <3>1
  <2> QED BY <2>1 DEF SnapshotLive
<1>7. OpenEclipses' BY <1>3 DEF OpenEclipses
<1>8. SnapshotTrue'
  <2>0. ASSUME NEW q \in Requests
        PROVE  /\ ThreadOf(q)' = ThreadOf(q) /\ (q \in eclipsed' <=> q \in eclipsed)
               /\ mirror'[q].seen = mirror[q].seen /\ (mirror'[q].at = "open") = FALSE
    BY <1>1, <1>2, <1>3 DEF ThreadOf, KeyOf
  <2> SUFFICES ASSUME NEW q \in Requests, mirror'[q].at \in {"open", "done"}, q \notin eclipsed
               PROVE  snapshot'[ThreadOf(q)] = IF mirror[q].seen THEN NULL
                                               ELSE [by |-> q, live |-> FALSE]
    BY <2>0 DEF SnapshotTrue
  <2>1. mirror[q].at \in {"open", "done"} BY <1>3
  <2>2. ThreadOf(q) \in Threads BY <2>1, BridgeHasThread DEF MirrorInv
  <2>3. snapshot[ThreadOf(q)] = IF mirror[q].seen THEN NULL
                                ELSE [by |-> q, live |-> mirror[q].at = "open"]
    BY <2>1 DEF MirrorInv, SnapshotTrue
  <2>4. CASE mirror[q].seen BY <1>4, <2>2, <2>3, <2>4
  <2>5. CASE ~mirror[q].seen
    <3>1. snapshot[ThreadOf(q)] = [by |-> q, live |-> mirror[q].at = "open"] BY <2>3, <2>5
    <3>2. snapshot[ThreadOf(q)].by = q BY <3>1
    <3>3. (mirror[q].at = "open") \in BOOLEAN OBVIOUS
    <3>4. [by |-> q, live |-> mirror[q].at = "open"] \in [by : Requests, live : BOOLEAN]
      BY <3>3
    <3>5. snapshot[ThreadOf(q)] # NULL BY <3>1, <3>4, ChatAssumption
    <3> QED BY <1>4, <2>2, <2>5, <3>2, <3>5
  <2> QED BY <2>4, <2>5
<1> QED BY <1>5, <1>6, <1>7, <1>8 DEF MirrorInv

\* Every step keeps what the files say.
LEMMA SnapshotStep ==
    ASSUME TypeOK, TurnInv, EntryInv, MirrorInv, [Next]_vars
    PROVE  MirrorInv'
<1> USE DEF tables, threads, disk, ghosts
<1>b. \A q \in Requests : turn[q].at \in {"none", "load"} => mirror[q].at = "none"
  BY DEF MirrorInv, BridgeShape
<1>1. ASSUME NEW r \in Requests, NEW k \in Keys, Begin(r, k) PROVE MirrorInv'
  <2>1. turn[r].at = "none" /\ \A q \in Requests \ {r} :
           turn'[q].key = turn[q].key /\ turn'[q].at = turn[q].at
    BY <1>1, BeginMoves
  <2>2. UNCHANGED <<mirror, snapshot, eclipsed>> BY <1>1 DEF Begin
  <2> QED BY <1>b, <2>1, <2>2, MirrorStays
<1>2. ASSUME NEW r \in Requests, Insert(r) PROVE MirrorInv'
  BY <1>2, <1>b, MirrorStays DEF Insert
<1>3. ASSUME NEW k \in Keys, Cancel(k) PROVE MirrorInv'
  <2>1. \A q \in Requests : turn'[q].key = turn[q].key /\ turn'[q].at = turn[q].at
    BY <1>3, CancelMoves
  <2>2. UNCHANGED <<mirror, snapshot, eclipsed>> BY <1>3 DEF Cancel
  <2> QED BY <1>b, <2>1, <2>2, MirrorStays
<1>f. \A t \in Threads : MetIn({t}) = Met(t) BY DEF MetIn
<1>4. ASSUME NEW t \in Threads, ThreadStep(t) PROVE MirrorInv'
  <2>1. CASE DeleteRow(t) BY <1>b, <2>1, MirrorStays DEF DeleteRow
  <2>2. CASE InvalidateSessions(t)
    BY <1>f, <2>2, MirrorForgets DEF InvalidateSessions
  <2>3. CASE Dismiss(t)
    BY <1>f, <2>3, MirrorForgets DEF Dismiss
  <2> QED BY <1>4, <2>1, <2>2, <2>3 DEF ThreadStep
<1>5. CASE Purge BY <1>5, MirrorForgets DEF Purge
<1>6. CASE UNCHANGED vars BY <1>6, <1>b, MirrorStays DEF vars
<1> QED BY <1>1, <1>2, <1>3, <1>4, <1>5, <1>6, TaskMirror, BridgeStep, RelaunchMirror DEF Next

------------------------------------------------------------------------------
(* The theorems *)

LEMMA ChatInit == Init => ChatInv
<1> SUFFICES ASSUME Init PROVE ChatInv
  OBVIOUS
<1>1. TypeOK /\ TurnInv BY TypeInit
<1>2. \A r \in Requests : turn[r].key = NULL /\ turn[r].at = "none" /\ call[r] = "idle"
                          /\ mirror[r].at = "none" /\ ~mirror[r].seen
  <2>1. ASSUME NEW r \in Requests
        PROVE  mirror[r] = [at |-> "none", seen |-> FALSE] /\ turn[r] = Idle /\ call[r] = "idle"
    BY DEF Init
  <2>2. Idle.key = NULL /\ Idle.at = "none" BY DEF Idle
  <2>3. ASSUME NEW r \in Requests PROVE mirror[r].at = "none" /\ ~mirror[r].seen
    BY <2>1
  <2> QED BY <2>1, <2>2, <2>3
<1>3. TableInv BY <1>2 DEF Init, TableInv, EntryInv, EntryLive, TurnAbortable, BegunAlone, Live
<1>4. AgentInv BY <1>2 DEF Init, AgentInv, NoStaleSession, HeldFresh
<1>5. MirrorInv
  BY <1>2 DEF Init, MirrorInv, BridgeShape, SnapshotLive, OpenEclipses, SnapshotTrue
<1> QED BY <1>1, <1>3, <1>4, <1>5 DEF ChatInv

\* The inductive invariant holds in every state of every behaviour.
THEOREM ChatInvariant == Spec => []ChatInv
<1>1. ChatInv /\ [Next]_vars => ChatInv'
  BY TypeStep, TableStep, AgentStep, SnapshotStep DEF ChatInv, TableInv
<1> QED BY <1>1, ChatInit, PTL DEF Spec

\* Whatever order sends, cancellations, awaits and drops take (start_chat, cancel_chat,
\* the spawned task): the turn that runs is in IN_FLIGHT once its start has returned, a
\* client and thread have one unaborted turn unless two starts raced between the two
\* locks, an entry names a turn that can be aborted, and a turn aborted in time gets
\* no chat_done and no error of its own, though it may have shown bubbles by then.
THEOREM InFlightCorrect == Spec => []InFlightInv
<1>1. ASSUME ChatInv PROVE InFlightInv
  <2>1. TypeOK /\ TurnInv /\ TableInv BY <1>1 DEF ChatInv
  <2>2. OneTurnPerKey
    <3> SUFFICES ASSUME NEW q \in Requests, NEW r \in Requests, q # r, Live(q), Live(r),
                        KeyOf(q) = KeyOf(r), KeyOf(q) \notin raced, ~Aborted(q), ~Aborted(r)
                 PROVE  FALSE
      BY DEF OneTurnPerKey
    <3>1. call[q] # "begun" /\ call[r] # "begun" BY <2>1 DEF TableInv, BegunAlone
    <3>2. call[q] # "idle" /\ call[r] # "idle" BY <2>1 DEF TurnInv, Shape, Live
    <3>3. call[q] = "returned" /\ call[r] = "returned" BY <2>1, <3>1, <3>2 DEF TypeOK
    <3> QED BY <2>1, <3>3 DEF TableInv, TurnAbortable
  <2>3. CancelledNeverConcludes BY <2>1 DEF TurnInv, Shape, CancelledNeverConcludes
  <2> QED BY <2>1, <2>2, <2>3 DEF InFlightInv, TableInv, EntryInv
<1> QED BY <1>1, ChatInvariant, PTL

\* However deletions of threads (thread_delete and its invalidate_thread_sessions behind
\* an await) fall between the steps of turns that take agents out of THREAD_SESSIONS and
\* put them back: no cached agent remembers a deleted thread, but those a running turn
\* held through the deletion and those of a purge.
THEOREM SessionsCorrect == Spec => []NoStaleSession
<1>1. ChatInv => NoStaleSession BY DEF ChatInv, AgentInv
<1> QED BY <1>1, ChatInvariant, PTL

\* However late a bridge is (TurnStateMirror), whichever turns, dismissals, deletions and
\* crashes come in between: a snapshot that says "streaming" has an open bridge behind
\* it, and a turn that was alone on its thread leaves the snapshot its end deserves.
THEOREM SnapshotCorrect == Spec => []SnapshotInv
<1>1. ASSUME ChatInv PROVE SnapshotInv
  <2>1. LiveSnapshotDriven BY <1>1 DEF ChatInv, MirrorInv, SnapshotLive, LiveSnapshotDriven
  <2>2. ASSUME NEW r \in Requests, mirror[r].at = "done", r \notin eclipsed
        PROVE  snapshot[ThreadOf(r)] = IF mirror[r].seen THEN NULL
                                       ELSE [by |-> r, live |-> FALSE]
    <3>1. snapshot[ThreadOf(r)] = IF mirror[r].seen THEN NULL
                                  ELSE [by |-> r, live |-> mirror[r].at = "open"]
      BY <1>1, <2>2 DEF ChatInv, MirrorInv, SnapshotTrue
    <3>2. (mirror[r].at = "open") = FALSE BY <2>2
    <3> QED BY <3>1, <3>2, Zenon
  <2> QED BY <2>1, <2>2 DEF SnapshotInv, LoneSnapshot
<1> QED BY <1>1, ChatInvariant, PTL
==============================================================================
