-------------------------- MODULE SessionLifecycle --------------------------
(***************************************************************************)
(* Signing in and out of a running core: `store_session`, `clear_session`   *)
(* (credentials/ops.rs), the handler of SessionExpired events               *)
(* (credentials/bus.rs), and what they start and stop: the sign-out switch  *)
(* of the scheduler gate, the one subconscious engine and the heartbeat     *)
(* loop (subconscious/global.rs, heartbeat/engine.rs).                      *)
(*                                                                          *)
(* Every process is an async task and one action is what it does between    *)
(* two awaits; file operations that other threads may get between are       *)
(* actions of their own.  The engine lives behind one mutex, which a tick   *)
(* or an approval keeps for as long as it takes, model calls included.      *)
(***************************************************************************)
EXTENDS Naturals

CONSTANTS Users,
          Pre,          \* the directory of a core nobody is signed in to
          Logins,       \* calls of store_session
          Startup,      \* the task that serves a session found at start
          Found,        \* the user of that session
          Logouts,      \* calls of the clear_session RPC
          Expiries,     \* SessionExpired events
          Calls,        \* RPCs that tick or approve with the engine
          NULL

Boots == Logins \cup {Startup}
Outs == Logouts \cup Expiries
Loop(b) == <<b>>                         \* the heartbeat task a bootstrap spawns
Loops == {Loop(b) : b \in Boots}
Clients == Boots \cup Loops \cup Calls   \* who asks for the engine
Dirs == Users \cup {Pre}

ASSUME SessionAssumption ==
    /\ Found \in Users /\ Pre \notin Users /\ Startup \notin Logins
    /\ NULL \notin Dirs \cup Clients
    /\ Boots \cap (Loops \cup Calls) = {}

VARIABLES
    active,         \* active_user.toml
    jwt,            \* directories that hold a session token
    signedOut,      \* SIGNED_OUT of the scheduler gate
    bootstrapped,   \* BOOTSTRAPPED
    engine,         \* ENGINE: the directory it was built for
    lock,           \* who keeps the mutex of ENGINE for a tick
    slot,           \* HEARTBEAT_HANDLE
    loops,          \* heartbeat tasks that run
    login, logout, client,
    from,           \* where the configuration points that a call has loaded
    undercut,       \* history: sign-ins that a sign-out under way overlaps
    marks           \* history: what got in between or failed, and how

vars == <<active, jwt, signedOut, bootstrapped, engine, lock, slot, loops,
          login, logout, client, from, undercut, marks>>
session == <<active, jwt, signedOut>>
hearts == <<slot, loops>>
calls == <<login, logout, from, undercut>>

TypeOK ==
    /\ active \in Users \cup {NULL} /\ jwt \subseteq Dirs
    /\ signedOut \in BOOLEAN /\ bootstrapped \in BOOLEAN
    /\ engine \in Dirs \cup {NULL} /\ lock \in Loops \cup Calls \cup {NULL}
    /\ slot \in Loops \cup {NULL} /\ loops \subseteq Loops
    /\ login \in [Boots -> {"idle", "checking", "activated", "swap", "boot", "services", "ended"}]
    /\ logout \in [Outs -> {"idle", "expired", "loaded", "switched", "removed", "services",
                            "reset", "ended"}]
    /\ from \in [Logins \cup Outs -> Dirs] /\ undercut \subseteq Logins
    /\ client \in [Clients -> [at : {"idle", "lookup", "build", "install", "got", "failed",
                                     "tick", "gate", "ended"},
                               dir : Dirs]]
    /\ marks \subseteq {"undone", "opened", "misfiled", "stray", "crossed", "failed"}

\* A core that was started signed out, or with the session of an earlier process,
\* which may have stopped before it stored the token.
Init ==
    /\ active \in {Found, NULL}
    /\ jwt \in {Users \cap {active}, {}}
    /\ signedOut = (active \notin jwt) /\ bootstrapped = FALSE
    /\ engine = NULL /\ lock = NULL /\ slot = NULL /\ loops = {}
    /\ login = [b \in Boots |-> IF b = Startup /\ active # NULL THEN "swap" ELSE "idle"]
    /\ logout = [o \in Outs |-> "idle"]
    /\ client = [c \in Clients |-> [at |-> "idle", dir |-> Pre]]
    /\ from = [p \in Logins \cup Outs |-> Pre] /\ undercut = {}
    /\ marks = {m \in {"failed"} : active # NULL /\ active \notin jwt}

Mark(m, cond) == marks' = IF cond THEN marks \cup {m} ELSE marks

\* Where a configuration loaded now points.
Dir(user) == IF user = NULL THEN Pre ELSE user

------------------------------------------------------------------------------
(* get_or_init_engine, for logins, heartbeats and RPCs alike *)

At(c, phase) == client' = [client EXCEPT ![c].at = phase]

\* A bootstrap that has come to it, a heartbeat after its sleep, an RPC at any time.
Asks(c) == client[c].at = "lookup" \/ (client[c].at = "idle" /\ c \in loops \cup Calls)

\* A first look at the engine.
Lookup(c) ==
    /\ Asks(c) /\ lock = NULL
    /\ At(c, IF engine # NULL THEN "got" ELSE "build")
    /\ UNCHANGED <<session, bootstrapped, engine, lock, hearts, calls, marks>>

\* An RPC is over; the loop sleeps, or goes round at once after an error.
Done(c) == At(c, IF c \in Calls THEN "ended" ELSE "idle")

\* Without the lock, load the configuration and construct an engine for it.
Build(c) ==
    /\ client[c].at = "build"
    /\ \/ client' = [client EXCEPT ![c] = [at |-> "install", dir |-> Dir(active)]]
       \/ IF c \in Boots THEN At(c, "failed") ELSE Done(c)
    /\ UNCHANGED <<session, bootstrapped, engine, lock, hearts, calls, marks>>

\* Take the lock again; the first engine stays.
Install(c) ==
    /\ client[c].at = "install" /\ lock = NULL
    /\ IF engine = NULL
       THEN /\ engine' = client[c].dir
            /\ Mark("stray", client[c].dir \in {Pre} \cup (Dirs \ {Dir(active)}))
       ELSE UNCHANGED <<engine, marks>>
    /\ client' = [client EXCEPT ![c] = [at |-> "got", dir |-> Pre]]
    /\ UNCHANGED <<session, bootstrapped, lock, hearts, calls>>

------------------------------------------------------------------------------
(* store_session *)

\* At start-up the services come first, and the switch is not touched.
AfterBoot(b) == IF b = Startup THEN "ended" ELSE "services"
Step(b, phase) == login' = [login EXCEPT ![b] = phase]

\* The RPC loads the configuration and asks the backend whether the token is good.
\* One that is refused ends here and has changed nothing.
Begin(b) ==
    /\ b \in Logins /\ login[b] = "idle"
    /\ from' = [from EXCEPT ![b] = Dir(active)]
    /\ Step(b, "checking")
    /\ UNCHANGED <<session, bootstrapped, engine, lock, hearts, logout, client, undercut, marks>>

\* Sign-outs between the switch and the end of the session.
Cutting == {o \in Outs : logout[o] \in {"switched", "removed"}}

\* The token is valid; make its user the active one.  A user file that cannot be
\* written is a warning.
Activate(b, u) ==
    /\ b \in Logins /\ login[b] = "checking"
    /\ \/ active' = u /\ Mark("stray", active \notin {NULL, u})
       \/ UNCHANGED active /\ Mark("misfiled", TRUE)
    /\ undercut' = undercut \cup {a \in {b} : Cutting # {}}
    /\ Step(b, "activated")
    /\ UNCHANGED <<jwt, signedOut, bootstrapped, engine, lock, hearts, logout, client, from>>

\* Mutant: the error is logged and the sign-in goes on.
StoreToken_Swallows(b) ==
    /\ b \in Logins /\ login[b] = "activated"
    /\ \/ jwt' = jwt \cup {Dir(active)} /\ UNCHANGED marks
       \/ UNCHANGED jwt /\ Mark("failed", TRUE)
    /\ Step(b, "swap")
    /\ from' = [from EXCEPT ![b] = Pre]
    /\ UNCHANGED <<active, signedOut, bootstrapped, engine, lock, hearts, logout, client, undercut>>

\* Reload the configuration, or fall back to the one of the call, and store the
\* profile where it points.  If that fails the call returns the error: the user
\* stays active, and nothing is started.
StoreToken(b) ==
    /\ b \in Logins /\ login[b] = "activated"
    /\ \/ \E dir \in {Dir(active), from[b]} :
             /\ jwt' = jwt \cup {dir} /\ Mark("misfiled", dir # Dir(active))
          /\ Step(b, "swap") /\ UNCHANGED undercut
       \/ /\ Step(b, "ended") /\ Mark("failed", TRUE)
          /\ UNCHANGED jwt /\ undercut' = undercut \ {b}
    /\ from' = [from EXCEPT ![b] = Pre]
    /\ UNCHANGED <<active, signedOut, bootstrapped, engine, lock, hearts, logout, client>>

\* bootstrap_after_login: whoever sets the flag goes on.
Swap(b) ==
    /\ login[b] = "swap"
    /\ bootstrapped' = TRUE
    /\ IF bootstrapped THEN Step(b, AfterBoot(b)) /\ UNCHANGED client
       ELSE Step(b, "boot") /\ At(b, "lookup")
    /\ UNCHANGED <<session, engine, lock, hearts, logout, from, undercut, marks>>

BootFails(b) ==
    /\ login[b] = "boot" /\ client[b].at \in {"lookup", "failed"}
    /\ bootstrapped' = FALSE
    /\ Step(b, AfterBoot(b)) /\ At(b, "ended")
    /\ Mark("failed", TRUE)
    /\ UNCHANGED <<session, engine, lock, hearts, logout, from, undercut>>

Resetting == {o \in Outs : logout[o] = "reset"}

\* Spawn the loop and keep its handle; a handle that was there is dropped, and
\* its task goes on.
SpawnLoop(b) ==
    /\ login[b] = "boot" /\ client[b].at = "got"
    /\ loops' = loops \cup {Loop(b)} /\ slot' = Loop(b)
    /\ Step(b, AfterBoot(b)) /\ At(b, "ended")
    /\ Mark("crossed", Resetting # {})
    /\ UNCHANGED <<session, bootstrapped, engine, lock, logout, from, undercut>>

\* The services run; let the background workers go on.
Finish(b) ==
    /\ b \in Logins /\ login[b] = "services"
    /\ signedOut' = FALSE
    /\ Step(b, "ended")
    /\ Mark("opened", b \in undercut)
    /\ undercut' = undercut \ {b}
    /\ UNCHANGED <<active, jwt, bootstrapped, engine, lock, hearts, logout, client, from>>

------------------------------------------------------------------------------
(* clear_session *)

Out(o, phase) == logout' = [logout EXCEPT ![o] = phase]

\* SessionExpiredSubscriber takes one event after the other and throws the switch.
Expire(o) ==
    /\ o \in Expiries /\ logout[o] = "idle"
    /\ \A e \in Expiries : logout[e] \in {"idle", "ended"}
    /\ signedOut' = TRUE
    /\ Out(o, "expired")
    /\ UNCHANGED <<active, jwt, bootstrapped, engine, lock, hearts, login, client, from, undercut,
                   marks>>

\* The RPC, or the handler, loads the configuration; the handler may find none.
LoadConfig(o) ==
    /\ logout[o] = IF o \in Expiries THEN "expired" ELSE "idle"
    /\ \/ from' = [from EXCEPT ![o] = Dir(active)] /\ Out(o, "loaded") /\ UNCHANGED marks
       \/ o \in Expiries /\ Out(o, "ended") /\ Mark("failed", TRUE) /\ UNCHANGED from
    /\ UNCHANGED <<session, bootstrapped, engine, lock, hearts, login, client, undercut>>

Signing == {b \in Logins : login[b] \in {"activated", "swap", "boot", "services"}}

\* clear_session: first the switch.
SignOff(o) ==
    /\ logout[o] = "loaded"
    /\ signedOut' = TRUE
    /\ undercut' = undercut \cup Signing
    /\ Out(o, "switched")
    /\ UNCHANGED <<active, jwt, bootstrapped, engine, lock, hearts, login, client, from, marks>>

\* Then the token, in the directory of the loaded configuration.  If the profiles
\* cannot be written the call ends here: signed off, with user and token.
RemoveToken(o) ==
    /\ logout[o] = "switched"
    /\ \/ jwt' = jwt \ {from[o]} /\ Out(o, "removed") /\ UNCHANGED marks
       \/ UNCHANGED jwt /\ Out(o, "ended") /\ Mark("failed", TRUE)
    /\ from' = [from EXCEPT ![o] = Pre]
    /\ UNCHANGED <<active, signedOut, bootstrapped, engine, lock, hearts, login, client, undercut>>

\* Then the user; a file that cannot be removed is a warning.
ClearActive(o) ==
    /\ logout[o] = "removed"
    /\ \/ active' = NULL /\ UNCHANGED marks
       \/ UNCHANGED active /\ Mark("failed", TRUE)
    /\ Out(o, "services")
    /\ UNCHANGED <<jwt, signedOut, bootstrapped, engine, lock, hearts, login, client, from,
                   undercut>>

Booting == {b \in Boots : login[b] = "boot"}

\* Mutant: the handle is taken and dropped.
StopLoop_Detaches(o) ==
    /\ logout[o] = "services"
    /\ slot' = NULL
    /\ Out(o, "reset")
    /\ Mark("crossed", Booting # {})
    /\ UNCHANGED <<session, bootstrapped, engine, lock, loops, login, client, from, undercut>>

\* The services have stopped.  reset_engine_for_user_switch: abort the heartbeat
\* where it waits, in a tick or not.
StopLoop(o) ==
    /\ logout[o] = "services"
    /\ slot' = NULL
    /\ loops' = loops \ {slot}
    /\ lock' = IF lock = slot THEN NULL ELSE lock
    /\ client' = [c \in Clients |-> IF c = slot THEN [at |-> "ended", dir |-> Pre] ELSE client[c]]
    /\ Out(o, "reset")
    /\ Mark("crossed", Booting # {})
    /\ UNCHANGED <<session, bootstrapped, engine, login, from, undercut>>

\* Mutants: without the lock; the engine is left.
ResetEngine_Barges(o) ==
    /\ logout[o] = "reset"
    /\ engine' = NULL /\ bootstrapped' = FALSE
    /\ Out(o, "ended")
    /\ UNCHANGED <<session, lock, hearts, login, client, from, undercut, marks>>
ResetEngine_KeepsEngine(o) ==
    /\ logout[o] = "reset" /\ lock = NULL
    /\ bootstrapped' = FALSE
    /\ Out(o, "ended")
    /\ UNCHANGED <<session, engine, lock, hearts, login, client, from, undercut, marks>>

\* Wait for the engine, and for whoever ticks with it.
ResetEngine(o) ==
    /\ logout[o] = "reset" /\ lock = NULL
    /\ engine' = NULL /\ bootstrapped' = FALSE
    /\ Out(o, "ended")
    /\ marks' = marks \cup {m \in {"undone"} : active # NULL}
                      \cup {m \in {"crossed"} : Booting # {}}
    /\ UNCHANGED <<session, lock, hearts, login, client, from, undercut>>

------------------------------------------------------------------------------
(* Heartbeats and RPCs *)

\* The lock once more; by now the engine may be gone.
StartTick(c) ==
    /\ client[c].at = "got" /\ c \notin Boots /\ lock = NULL
    /\ IF engine = NULL THEN Done(c) /\ UNCHANGED lock
       ELSE At(c, "tick") /\ lock' = c
    /\ UNCHANGED <<session, bootstrapped, engine, hearts, calls, marks>>

\* A task that runs on the local model waits for the gate's capacity, which the
\* gate grants to nobody while the switch says signed out.
AwaitGate(c) ==
    /\ client[c].at = "tick" /\ signedOut
    /\ At(c, "gate")
    /\ UNCHANGED <<session, bootstrapped, engine, lock, hearts, calls, marks>>
LeaveGate(c) ==
    /\ client[c].at = "gate" /\ ~signedOut
    /\ At(c, "tick")
    /\ UNCHANGED <<session, bootstrapped, engine, lock, hearts, calls, marks>>

EndTick(c) ==
    /\ client[c].at = "tick"
    /\ lock' = NULL /\ Done(c)
    /\ UNCHANGED <<session, bootstrapped, engine, hearts, calls, marks>>

------------------------------------------------------------------------------
LoginStep(b) == StoreToken(b) \/ Swap(b) \/ BootFails(b) \/ SpawnLoop(b) \/ Finish(b)
LogoutStep(o) ==
    LoadConfig(o) \/ SignOff(o) \/ RemoveToken(o) \/ ClearActive(o) \/ StopLoop(o)
        \/ ResetEngine(o)
InitStep(c) == Lookup(c) \/ Build(c) \/ Install(c)
TickStep(c) == StartTick(c) \/ LeaveGate(c) \/ EndTick(c)

Next ==
    \/ \E b \in Boots : Begin(b) \/ LoginStep(b) \/ \E u \in Users : Activate(b, u)
    \/ \E o \in Outs : Expire(o) \/ LogoutStep(o)
    \/ \E c \in Clients : InitStep(c) \/ TickStep(c) \/ AwaitGate(c)

\* Tasks are polled, configurations load or fail, and a tick ends unless it waits
\* for the gate.  The mutex is fair (tokio): a login or a logout that waits for
\* the engine gets its turn.  Nobody has to sign in, sign out or ask, and who only
\* looks for the engine keeps nothing that others wait for.
Fairness ==
    /\ \A b \in Logins : WF_vars(LoginStep(b)) /\ SF_vars(InitStep(b))
    /\ \A o \in Outs : WF_vars(logout[o] # "idle" /\ LogoutStep(o)) /\ SF_vars(ResetEngine(o))
    /\ \A c \in Loops \cup Calls : WF_vars(TickStep(c))

Spec == Init /\ [][Next]_vars /\ Fairness

------------------------------------------------------------------------------
\* No sign-in and no sign-out is under way.
Settled ==
    /\ \A b \in Boots : login[b] \in {"idle", "checking", "ended"}
    /\ \A o \in Outs : logout[o] \in {"idle", "ended"}

\* While somebody ticks the engine under them stays the same: a sign-out never
\* pulls it away or slips another user's in (global.rs:136).
EngineHeldStill == [][lock # NULL /\ lock' = lock => engine' = engine]_vars

\* A core that counts as bootstrapped is: it has an engine, and a running
\* heartbeat whose handle the next sign-out will find, however sign-ins and
\* sign-outs overlapped before (global.rs:74).
HonestBootstrap ==
    Settled /\ bootstrapped => engine # NULL /\ slot \in loops

\* Whoever is signed in has an engine and a heartbeat, unless a sign-out that
\* waited for the engine reset it after the next sign-in (global.rs:137), or
\* a step of a sign-in or a sign-out failed.
SignedInServed ==
    Settled /\ active # NULL /\ marks \cap {"undone", "failed"} = {} => bootstrapped

\* What the gate may believe (credentials/ops.rs:270, 284), at every moment:
\* background work stands down while nobody is signed in, and goes on only for a
\* user whose token is on disk, although storing, removing and loading may each
\* fail; and once all has settled and nothing failed, it does go on for whoever is
\* signed in.  Excepted: a sign-in that a sign-out overlapped opens the gate
\* last, a token goes to another directory than its user's, and, for the second,
\* a change of users without a sign-out.
GateFollowsSession ==
    marks \cap {"opened", "misfiled"} = {} =>
      /\ active = NULL => signedOut
      /\ "stray" \notin marks /\ ~signedOut => active \in jwt
      /\ Settled /\ "failed" \notin marks /\ active # NULL => active \in jwt /\ ~signedOut

\* Once sign-ins and sign-outs have settled, however they overlapped, flag, engine,
\* heartbeat, token and gate agree with who is signed in; and at no moment is the
\* gate open for nobody, or for a user without a token.
SettledInv == TypeOK /\ HonestBootstrap /\ SignedInServed /\ GateFollowsSession

\* The engine works in the directory of the user who is signed in, although
\* sign-outs do not wait for those who build one.  Excepted: another user signed
\* in without a sign-out, an engine was built from a configuration that had
\* changed when it was installed, or before anybody signed in.
EngineOfUser ==
    Settled /\ active # NULL /\ engine # NULL /\ "stray" \notin marks
      => engine = active

\* One heartbeat, unless the teardown of a sign-out crossed a bootstrap: then the
\* next sign-in drops the handle of a loop that goes on (global.rs:113).
OneHeartbeat == "crossed" \notin marks => loops \subseteq {slot}

\* Sign-ins and sign-outs return.  Only a tick that keeps the engine and waits
\* for a sign-in itself can hold them up.
CallsReturn ==
    LET GateHeld == signedOut /\ \E c \in Clients : client[c].at = "gate"
    IN  /\ \A b \in Logins : login[b] = "activated" ~> login[b] = "ended" \/ GateHeld
        /\ \A o \in Outs : logout[o] = "loaded" ~> logout[o] = "ended" \/ GateHeld

\* The lock of the engine protects who ticks and lets go again: the engine does not
\* change under its holder, and nobody waits for it for ever but behind the gate.
EngineLockSound == EngineHeldStill /\ CallsReturn
==============================================================================
