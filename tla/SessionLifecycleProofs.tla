----------------------- MODULE SessionLifecycleProofs -----------------------
(***************************************************************************)
(* Theorems about SessionLifecycle, for any users, sign-ins, sign-outs,    *)
(* expiries and calls: what overlapping sign-ins and sign-outs may leave   *)
(* behind.                                                                 *)
(***************************************************************************)
EXTENDS SessionLifecycle, TLAPS

-----------------------------------------------------------------------------
(* The inductive invariant.                                                *)

\* The flag stands for an engine, or for a bootstrap that has yet to get one; and
\* for a heartbeat, unless a bootstrap is to spawn it or a reset is to clear the flag.
FlagInv ==
  bootstrapped =>
    /\ \/ engine # NULL
       \/ \E b \in Boots : /\ login[b] = "boot"
                           /\ client[b].at \in {"lookup", "build", "install", "failed"}
    /\ slot \in loops \/ Booting # {} \/ Resetting # {}

\* Who is signed in is served, or its sign-in has yet to try.
ServedInv ==
  active # NULL /\ marks \cap {"undone", "failed"} = {} =>
    bootstrapped \/ \E b \in Boots : login[b] \in {"activated", "swap"}

\* Unless something failed, who is signed in has a token and an open gate, or a
\* sign-in has yet to give them or a sign-out is about to forget the user.
TokenInv ==
  marks \cap {"opened", "misfiled", "failed"} = {} /\ active # NULL =>
    /\ \/ active \in jwt
       \/ \E b \in Boots : login[b] = "activated"
       \/ \E o \in Outs : logout[o] = "removed"
    /\ \/ ~signedOut
       \/ Signing # {}
       \/ \E o \in Outs : logout[o] \in {"expired", "loaded", "switched", "removed"}

\* The gate is closed while a session ends and while there is none; a sign-in that
\* is under way then is known to be overlapped, and any other has stored the token
\* of whoever is active.
GateInv ==
  marks \cap {"opened", "misfiled"} = {} =>
    /\ Cutting # {} \/ active = NULL => signedOut /\ Signing \subseteq undercut
    /\ "stray" \notin marks /\ ~signedOut => active \in jwt
    /\ \A b \in Signing \ undercut :
         "stray" \notin marks /\ login[b] # "activated" => active \in jwt

\* The engine is that of the user, or a sign-out is about to reset it.
EngineInv ==
  "stray" \notin marks /\ engine # NULL =>
    engine = active \/ \E o \in Outs : logout[o] \in {"services", "reset"}

\* One bootstrap at a time, and none beside a heartbeat; a heartbeat has the flag,
\* and none runs while a reset waits.
LoopInv ==
  "crossed" \notin marks =>
    /\ loops \subseteq {slot}
    /\ \A b \in Boots : login[b] = "boot" => loops = {} /\ bootstrapped
    /\ \A a, b \in Boots : login[a] = "boot" /\ login[b] = "boot" => a = b
    /\ loops # {} => bootstrapped
    /\ Resetting # {} => loops = {}

-----------------------------------------------------------------------------
(* Types.                                                                  *)

Phases == {"idle", "lookup", "build", "install", "got", "failed", "tick", "gate", "ended"}
Client == [at : Phases, dir : Dirs]

\* Moving on in a task changes nothing else of it, and no other task.
LEMMA AtFacts ==
  ASSUME client \in [Clients -> Client], NEW c \in Clients, NEW phase \in Phases, At(c, phase)
  PROVE  /\ client' \in [Clients -> Client] /\ client'[c].at = phase
         /\ \A d \in Clients \ {c} : client'[d] = client[d]
<1>1. PICK a, d : client[c] = [at |-> a, dir |-> d] /\ d \in Dirs
  BY DEF Client
<1>2. client' = [client EXCEPT ![c].at = phase]
  BY DEF At
<1>3. client'[c] = [at |-> phase, dir |-> d]
  BY <1>1, <1>2
<1>4. [at |-> phase, dir |-> d] \in Client
  BY <1>1 DEF Client
<1>5. /\ DOMAIN client' = Clients /\ \A e \in Clients \ {c} : client'[e] = client[e]
      /\ client' = [e \in Clients |-> client'[e]]
  BY <1>2
<1> QED
  BY <1>3, <1>4, <1>5

LEMMA DoneFacts ==
  ASSUME client \in [Clients -> Client], NEW c \in Clients, Done(c)
  PROVE  /\ client' \in [Clients -> Client] /\ client'[c].at \in {"ended", "idle"}
         /\ \A d \in Clients \ {c} : client'[d] = client[d]
<1>1. "ended" \in Phases /\ "idle" \in Phases
  BY DEF Phases
<1>2. At(c, "ended") \/ At(c, "idle")
  BY DEF Done
<1> QED
  BY <1>1, <1>2, AtFacts

Marked == {"undone", "opened", "misfiled", "stray", "crossed", "failed"}
LoginPhases == {"idle", "checking", "activated", "swap", "boot", "services", "ended"}
LogoutPhases == {"idle", "expired", "loaded", "switched", "removed", "services", "reset", "ended"}

LEMMA MarkFacts ==
  ASSUME marks \subseteq Marked, NEW m \in Marked, NEW cond, Mark(m, cond)
  PROVE  /\ marks' \subseteq Marked /\ marks \subseteq marks'
         /\ cond => m \in marks'
         /\ \A n : n # m => (n \in marks' <=> n \in marks)
BY DEF Mark

LEMMA DirFacts == \A u \in Users \cup {NULL} : Dir(u) \in Dirs
BY DEF Dir, Dirs

TaskTypes ==
  /\ client \in [Clients -> Client]
  /\ login \in [Boots -> LoginPhases]
  /\ logout \in [Outs -> LogoutPhases]
  /\ from \in [Logins \cup Outs -> Dirs] /\ undercut \subseteq Logins
  /\ lock \in Loops \cup Calls \cup {NULL}
  /\ slot \in Loops \cup {NULL} /\ loops \subseteq Loops
  /\ marks \subseteq Marked

StateTypes ==
  /\ active \in Users \cup {NULL} /\ jwt \subseteq Dirs
  /\ signedOut \in BOOLEAN /\ bootstrapped \in BOOLEAN
  /\ engine \in Dirs \cup {NULL}

LEMMA TypeParts == TypeOK <=> TaskTypes /\ StateTypes
BY DEF TypeOK, TaskTypes, StateTypes, Client, Phases, Marked, LoginPhases, LogoutPhases

LEMMA LoopOf == \A b \in Boots : Loop(b) \in Loops
BY DEF Loops

LEMMA BootsApart == \A b \in Boots : b \in Clients /\ b \notin Loops /\ b \notin Calls /\ b # NULL
BY SessionAssumption DEF Clients

\* What the user of the engine does leaves sign-ins and sign-outs alone.
ClientStep(c) == InitStep(c) \/ TickStep(c) \/ AwaitGate(c)

LEMMA ClientFacts ==
  ASSUME TypeOK, NEW c \in Clients, ClientStep(c)
  PROVE  /\ UNCHANGED <<session, bootstrapped, hearts, calls>>
         /\ marks \subseteq marks' /\ \A m : m # "stray" => (m \in marks' <=> m \in marks)
         /\ TypeOK'
         /\ \A d \in Clients \ {c} : client'[d] = client[d]
         /\ engine # NULL => engine' = engine
         /\ c \in Boots => /\ client[c].at = "lookup" => engine # NULL \/ client'[c].at = "build"
                           /\ client[c].at = "build" => client'[c].at \in {"install", "failed"}
                           /\ client[c].at = "install" => engine' # NULL
                           /\ client[c].at # "failed"
         /\ engine' # engine => \/ "stray" \in marks'
                                \/ active # NULL /\ engine' = active
<1>0. TaskTypes /\ StateTypes /\ client \in [Clients -> Client] /\ marks \subseteq Marked
  BY TypeParts DEF TaskTypes
<1>1. \A p \in {"idle", "lookup", "build", "install", "got", "failed", "tick", "gate", "ended"} :
        p \in Phases
  BY DEF Phases
<1>2. c \in Boots => c \notin loops \cup Calls
  BY <1>0, BootsApart DEF TaskTypes
<1> DEFINE Goal == /\ UNCHANGED <<session, bootstrapped, hearts, calls>>
                   /\ marks \subseteq marks' /\ \A m : m # "stray" => (m \in marks' <=> m \in marks)
                   /\ TypeOK'
                   /\ \A d \in Clients \ {c} : client'[d] = client[d]
                   /\ engine # NULL => engine' = engine
                   /\ c \in Boots =>
                        /\ client[c].at = "lookup" => engine # NULL \/ client'[c].at = "build"
                        /\ client[c].at = "build" => client'[c].at \in {"install", "failed"}
                        /\ client[c].at = "install" => engine' # NULL
                        /\ client[c].at # "failed"
                   /\ engine' # engine => \/ "stray" \in marks'
                                          \/ active # NULL /\ engine' = active
<1>t. ASSUME UNCHANGED <<session, bootstrapped, hearts, calls, marks, engine>>,
             client' \in [Clients -> Client], lock' \in Loops \cup Calls \cup {NULL},
             \A d \in Clients \ {c} : client'[d] = client[d],
             c \in Boots => /\ client[c].at # "failed"
                            /\ client[c].at = "lookup" => engine # NULL \/ client'[c].at = "build"
                            /\ client[c].at = "build" => client'[c].at \in {"install", "failed"}
                            /\ client[c].at = "install" => engine' # NULL
      PROVE  Goal
  <2>1. TaskTypes' /\ StateTypes'
    BY <1>0, <1>t DEF TaskTypes, StateTypes, session, hearts, calls
  <2>2. TypeOK'
    BY <2>1 DEF TypeOK, TaskTypes, StateTypes, Client, Phases, Marked, LoginPhases, LogoutPhases
  <2> QED
    BY <1>t, <2>2
<1>3. CASE Lookup(c)
  <2>1. Asks(c) /\ At(c, IF engine # NULL THEN "got" ELSE "build")
        /\ UNCHANGED <<session, bootstrapped, engine, lock, hearts, calls, marks>>
    BY <1>3 DEF Lookup
  <2>2. /\ client' \in [Clients -> Client] /\ \A d \in Clients \ {c} : client'[d] = client[d]
        /\ engine # NULL \/ client'[c].at = "build"
    BY <1>0, <1>1, <2>1, AtFacts
  <2>3. c \in Boots => client[c].at = "lookup"
    BY <1>2, <2>1 DEF Asks
  <2> QED
    BY <1>0, <1>t, <2>1, <2>2, <2>3 DEF TaskTypes
<1>4. CASE Build(c)
  <2>1. /\ client[c].at = "build"
        /\ UNCHANGED <<session, bootstrapped, engine, lock, hearts, calls, marks>>
    BY <1>4 DEF Build
  <2>2. CASE client' = [client EXCEPT ![c] = [at |-> "install", dir |-> Dir(active)]]
    <3>1. [at |-> "install", dir |-> Dir(active)] \in Client
      BY <1>0, <1>1, DirFacts DEF Client, StateTypes
    <3>2. /\ client' \in [Clients -> Client] /\ \A d \in Clients \ {c} : client'[d] = client[d]
          /\ client'[c].at = "install"
      BY <1>0, <2>2, <3>1
    <3> QED
      BY <1>0, <1>t, <2>1, <3>2 DEF TaskTypes
  <2>3. CASE IF c \in Boots THEN At(c, "failed") ELSE Done(c)
    <3>1. /\ client' \in [Clients -> Client] /\ \A d \in Clients \ {c} : client'[d] = client[d]
          /\ c \in Boots => client'[c].at = "failed"
      BY <1>0, <1>1, <2>3, AtFacts, DoneFacts
    <3> QED
      BY <1>0, <1>t, <2>1, <3>1 DEF TaskTypes
  <2> QED
    BY <1>4, <2>2, <2>3 DEF Build
<1>5. CASE Install(c)
  <2>1. /\ client[c].at = "install" /\ lock = NULL
        /\ client' = [client EXCEPT ![c] = [at |-> "got", dir |-> Pre]]
        /\ UNCHANGED <<session, bootstrapped, lock, hearts, calls>>
    BY <1>5 DEF Install
  <2>2. /\ client' \in [Clients -> Client] /\ \A d \in Clients \ {c} : client'[d] = client[d]
    <3>1. [at |-> "got", dir |-> Pre] \in Client
      BY <1>1 DEF Client, Dirs
    <3> QED
      BY <1>0, <2>1, <3>1
  <2>3. CASE engine # NULL
    <3>1. UNCHANGED <<engine, marks>>
      BY <1>5, <2>3 DEF Install
    <3> QED
      BY <1>0, <1>t, <2>1, <2>2, <2>3, <3>1 DEF TaskTypes
  <2>4. CASE engine = NULL
    <3>1. /\ engine' = client[c].dir
          /\ Mark("stray", client[c].dir \in {Pre} \cup (Dirs \ {Dir(active)}))
      BY <1>5, <2>4 DEF Install
    <3>2. engine' \in Dirs /\ engine' # NULL
      BY <1>0, <3>1, SessionAssumption DEF Client
    <3>3. /\ marks' \subseteq Marked /\ marks \subseteq marks'
          /\ engine' \in {Pre} \cup (Dirs \ {Dir(active)}) => "stray" \in marks'
          /\ \A n : n # "stray" => (n \in marks' <=> n \in marks)
      <4>1. "stray" \in Marked
        BY DEF Marked
      <4> QED
        BY <1>0, <3>1, <4>1, MarkFacts
    <3>4. "stray" \in marks' \/ (active # NULL /\ engine' = active)
      BY <3>2, <3>3 DEF Dir
    <3>5. TaskTypes' /\ StateTypes'
      BY <1>0, <2>1, <2>2, <3>2, <3>3 DEF TaskTypes, StateTypes, session, hearts, calls
    <3>6. TypeOK'
      BY <3>5 DEF TypeOK, TaskTypes, StateTypes, Client, Phases, Marked, LoginPhases, LogoutPhases
    <3> QED
      BY <2>1, <2>2, <2>4, <3>2, <3>3, <3>4, <3>6
  <2> QED
    BY <2>3, <2>4
<1>6. CASE StartTick(c)
  <2>1. /\ c \notin Boots /\ lock = NULL
        /\ UNCHANGED <<session, bootstrapped, engine, hearts, calls, marks>>
    BY <1>6 DEF StartTick
  <2>2. /\ client' \in [Clients -> Client] /\ \A d \in Clients \ {c} : client'[d] = client[d]
    BY <1>0, <1>1, <1>6, AtFacts, DoneFacts DEF StartTick
  <2>3. lock' \in Loops \cup Calls \cup {NULL}
    BY <1>6, <2>1 DEF StartTick, Clients
  <2> QED
    BY <1>t, <2>1, <2>2, <2>3
<1>7. CASE LeaveGate(c) \/ AwaitGate(c)
  <2>1. /\ UNCHANGED <<session, bootstrapped, engine, lock, hearts, calls, marks>>
        /\ client[c].at \in {"gate", "tick"} /\ (At(c, "tick") \/ At(c, "gate"))
    BY <1>7 DEF LeaveGate, AwaitGate
  <2>2. /\ client' \in [Clients -> Client] /\ \A d \in Clients \ {c} : client'[d] = client[d]
    BY <1>0, <1>1, <2>1, AtFacts
  <2> QED
    BY <1>0, <1>t, <2>1, <2>2 DEF TaskTypes
<1>8. CASE EndTick(c)
  <2>1. /\ UNCHANGED <<session, bootstrapped, engine, hearts, calls, marks>>
        /\ client[c].at = "tick" /\ lock' = NULL /\ Done(c)
    BY <1>8 DEF EndTick
  <2>2. /\ client' \in [Clients -> Client] /\ \A d \in Clients \ {c} : client'[d] = client[d]
    BY <1>0, <2>1, DoneFacts
  <2> QED
    BY <1>0, <1>t, <2>1, <2>2
<1> QED
  BY <1>3, <1>4, <1>5, <1>6, <1>7, <1>8 DEF ClientStep, InitStep, TickStep

-----------------------------------------------------------------------------
(* What each step of a sign-in or a sign-out does, process by process.     *)

OnlyLogin(b, phase) == login'[b] = phase /\ \A a \in Boots \ {b} : login'[a] = login[a]
OnlyOut(o, phase) == logout'[o] = phase /\ \A a \in Outs \ {o} : logout'[a] = logout[a]

LEMMA StepFacts ==
  ASSUME TaskTypes, NEW b \in Boots,
         NEW phase \in {"checking", "activated", "swap", "boot", "services", "ended"}, Step(b, phase)
  PROVE  /\ login' \in [Boots -> LoginPhases]
         /\ OnlyLogin(b, phase)
BY DEF TaskTypes, Step, OnlyLogin, LoginPhases

LEMMA OutFacts ==
  ASSUME TaskTypes, NEW o \in Outs,
         NEW phase \in {"expired", "loaded", "switched", "removed", "services", "reset", "ended"},
         Out(o, phase)
  PROVE  /\ logout' \in [Outs -> LogoutPhases]
         /\ OnlyOut(o, phase)
BY DEF TaskTypes, Out, OnlyOut, LogoutPhases

LEMMA AfterBootFacts ==
  \A b \in Boots : /\ AfterBoot(b) \in {"services", "ended"}
                   /\ b \in Logins => AfterBoot(b) = "services"
BY SessionAssumption DEF AfterBoot

\* A sign-in and its bootstrap.  A failed bootstrap gives the flag back.
LEMMA LoginFacts ==
  ASSUME TypeOK, NEW b \in Boots, LoginStep(b)
  PROVE  /\ TypeOK' /\ marks \subseteq marks'
         /\ UNCHANGED <<active, engine, lock, logout>>
         /\ \A d \in Clients \ {b} : client'[d] = client[d]
         /\ \/ /\ login[b] = "activated" /\ OnlyLogin(b, "swap")
               /\ \E dir \in Dirs : /\ jwt' = jwt \cup {dir}
                                    /\ dir = Dir(active) \/ "misfiled" \in marks'
               /\ \A n : n # "misfiled" => (n \in marks' <=> n \in marks)
               /\ UNCHANGED <<signedOut, bootstrapped, slot, loops, client, undercut>>
            \/ /\ login[b] = "activated" /\ OnlyLogin(b, "ended") /\ undercut' = undercut \ {b}
               /\ "failed" \in marks' /\ \A n : n # "failed" => (n \in marks' <=> n \in marks)
               /\ UNCHANGED <<jwt, signedOut, bootstrapped, slot, loops, client>>
            \/ /\ login[b] = "swap" /\ bootstrapped /\ OnlyLogin(b, AfterBoot(b))
               /\ UNCHANGED <<jwt, signedOut, bootstrapped, slot, loops, client, undercut, marks>>
            \/ /\ login[b] = "swap" /\ ~bootstrapped /\ bootstrapped' /\ OnlyLogin(b, "boot")
               /\ client'[b].at = "lookup"
               /\ UNCHANGED <<jwt, signedOut, slot, loops, undercut, marks>>
            \/ /\ login[b] = "boot" /\ OnlyLogin(b, AfterBoot(b)) /\ ~bootstrapped'
               /\ "failed" \in marks' /\ \A n : n # "failed" => (n \in marks' <=> n \in marks)
               /\ UNCHANGED <<jwt, signedOut, slot, loops, undercut>>
            \/ /\ login[b] = "boot" /\ client[b].at = "got" /\ OnlyLogin(b, AfterBoot(b))
               /\ loops' = loops \cup {Loop(b)} /\ slot' = Loop(b)
               /\ Resetting # {} => "crossed" \in marks'
               /\ \A n : n # "crossed" => (n \in marks' <=> n \in marks)
               /\ UNCHANGED <<jwt, signedOut, bootstrapped, undercut>>
            \/ /\ login[b] = "services" /\ OnlyLogin(b, "ended") /\ b \in Logins /\ ~signedOut'
               /\ b \in undercut => "opened" \in marks'
               /\ \A n : n # "opened" => (n \in marks' <=> n \in marks)
               /\ undercut' = undercut \ {b}
               /\ UNCHANGED <<jwt, bootstrapped, slot, loops, client>>
<1>0. /\ TaskTypes /\ StateTypes /\ client \in [Clients -> Client] /\ marks \subseteq Marked
      /\ b \in Clients
  BY TypeParts, BootsApart DEF TaskTypes
<1>1. TaskTypes' /\ StateTypes' => TypeOK'
  BY DEF TypeOK, TaskTypes, StateTypes, Client, Phases, Marked, LoginPhases, LogoutPhases
<1>2. /\ {"lookup", "ended"} \subseteq Phases
      /\ {"failed", "crossed", "opened", "misfiled"} \subseteq Marked
  BY DEF Phases, Marked
<1>3. CASE StoreToken(b)
  <2>1. /\ login[b] = "activated" /\ from' = [from EXCEPT ![b] = Pre]
        /\ UNCHANGED <<active, signedOut, bootstrapped, engine, lock, slot, loops, logout, client>>
    BY <1>3 DEF StoreToken, hearts
  <2>2. from' \in [Logins \cup Outs -> Dirs]
    BY <1>0, <2>1 DEF TaskTypes, Dirs
  <2>3. CASE /\ \E dir \in {Dir(active), from[b]} :
                  /\ jwt' = jwt \cup {dir} /\ Mark("misfiled", dir # Dir(active))
             /\ Step(b, "swap") /\ UNCHANGED undercut
    <3>1. PICK dir \in {Dir(active), from[b]} :
                  /\ jwt' = jwt \cup {dir} /\ Mark("misfiled", dir # Dir(active))
      BY <2>3
    <3>2. login' \in [Boots -> LoginPhases] /\ OnlyLogin(b, "swap") /\ undercut' = undercut
      BY <1>0, <2>3, StepFacts
    <3>3. b \in Logins
      BY <1>3 DEF StoreToken
    <3>4. dir \in Dirs /\ jwt' \subseteq Dirs
      BY <1>0, <3>1, <3>3, DirFacts DEF StateTypes, TaskTypes
    <3>5. /\ marks' \subseteq Marked /\ marks \subseteq marks'
          /\ dir # Dir(active) => "misfiled" \in marks'
          /\ \A n : n # "misfiled" => (n \in marks' <=> n \in marks)
      BY <1>0, <1>2, <3>1, MarkFacts
    <3>6. TaskTypes' /\ StateTypes'
      BY <1>0, <2>1, <2>2, <3>2, <3>4, <3>5 DEF TaskTypes, StateTypes
    <3> QED
      BY <1>1, <2>1, <3>1, <3>2, <3>4, <3>5, <3>6
  <2>4. CASE /\ Step(b, "ended") /\ Mark("failed", TRUE)
             /\ UNCHANGED jwt /\ undercut' = undercut \ {b}
    <3>1. login' \in [Boots -> LoginPhases] /\ OnlyLogin(b, "ended")
      BY <1>0, <2>4, StepFacts
    <3>2. /\ marks' \subseteq Marked /\ marks \subseteq marks' /\ "failed" \in marks'
          /\ \A n : n # "failed" => (n \in marks' <=> n \in marks)
      BY <1>0, <1>2, <2>4, MarkFacts
    <3>3. TaskTypes' /\ StateTypes'
      BY <1>0, <2>1, <2>2, <2>4, <3>1, <3>2 DEF TaskTypes, StateTypes
    <3> QED
      BY <1>1, <2>1, <2>4, <3>1, <3>2, <3>3
  <2> QED
    BY <1>3, <2>3, <2>4 DEF StoreToken
<1>4. CASE Swap(b)
  <2>1. /\ login[b] = "swap" /\ bootstrapped' = TRUE
        /\ UNCHANGED <<active, jwt, signedOut, engine, lock, slot, loops, logout, from, undercut, marks>>
    BY <1>4 DEF Swap, session, hearts
  <2>2. CASE bootstrapped
    <3>1. Step(b, AfterBoot(b)) /\ UNCHANGED client
      BY <1>4, <2>2 DEF Swap
    <3>2. /\ login' \in [Boots -> LoginPhases]
          /\ OnlyLogin(b, AfterBoot(b))
      BY <1>0, <3>1, StepFacts, AfterBootFacts
    <3>3. TaskTypes' /\ StateTypes'
      BY <1>0, <2>1, <3>1, <3>2 DEF TaskTypes, StateTypes
    <3>4. bootstrapped' = bootstrapped
      BY <1>0, <2>1, <2>2 DEF StateTypes
    <3> QED
      BY <1>1, <2>1, <2>2, <3>1, <3>2, <3>3, <3>4
  <2>3. CASE ~bootstrapped
    <3>1. Step(b, "boot") /\ At(b, "lookup")
      BY <1>4, <2>3 DEF Swap
    <3>2. /\ login' \in [Boots -> LoginPhases]
          /\ OnlyLogin(b, "boot")
      BY <1>0, <3>1, StepFacts
    <3>3. /\ client' \in [Clients -> Client] /\ client'[b].at = "lookup"
          /\ \A d \in Clients \ {b} : client'[d] = client[d]
      BY <1>0, <1>2, <3>1, AtFacts
    <3>4. TaskTypes' /\ StateTypes'
      BY <1>0, <2>1, <3>2, <3>3 DEF TaskTypes, StateTypes
    <3> QED
      BY <1>1, <2>1, <2>3, <3>2, <3>3, <3>4
  <2> QED
    BY <2>2, <2>3
<1>5. CASE BootFails(b)
  <2>1. /\ login[b] = "boot" /\ bootstrapped' = FALSE /\ Step(b, AfterBoot(b)) /\ At(b, "ended")
        /\ Mark("failed", TRUE)
        /\ UNCHANGED <<active, jwt, signedOut, engine, lock, slot, loops, logout, from,
                       undercut>>
    BY <1>5 DEF BootFails, session, hearts
  <2>2. /\ login' \in [Boots -> LoginPhases]
        /\ OnlyLogin(b, AfterBoot(b))
    BY <1>0, <2>1, StepFacts, AfterBootFacts
  <2>3. client' \in [Clients -> Client] /\ \A d \in Clients \ {b} : client'[d] = client[d]
    BY <1>0, <1>2, <2>1, AtFacts
  <2>4. /\ marks' \subseteq Marked /\ marks \subseteq marks' /\ "failed" \in marks'
        /\ \A n : n # "failed" => (n \in marks' <=> n \in marks)
    BY <1>0, <1>2, <2>1, MarkFacts
  <2>5. TaskTypes' /\ StateTypes'
    BY <1>0, <2>1, <2>2, <2>3, <2>4 DEF TaskTypes, StateTypes
  <2> QED
    BY <1>1, <2>1, <2>2, <2>3, <2>4, <2>5
<1>6. CASE SpawnLoop(b)
  <2>1. /\ login[b] = "boot" /\ client[b].at = "got"
        /\ loops' = loops \cup {Loop(b)} /\ slot' = Loop(b)
        /\ Step(b, AfterBoot(b)) /\ At(b, "ended") /\ Mark("crossed", Resetting # {})
        /\ UNCHANGED <<active, jwt, signedOut, bootstrapped, engine, lock, logout, from, undercut>>
    BY <1>6 DEF SpawnLoop, session
  <2>2. /\ login' \in [Boots -> LoginPhases]
        /\ OnlyLogin(b, AfterBoot(b))
    BY <1>0, <2>1, StepFacts, AfterBootFacts
  <2>3. client' \in [Clients -> Client] /\ \A d \in Clients \ {b} : client'[d] = client[d]
    BY <1>0, <1>2, <2>1, AtFacts
  <2>4. /\ marks' \subseteq Marked /\ marks \subseteq marks'
        /\ Resetting # {} => "crossed" \in marks'
        /\ \A n : n # "crossed" => (n \in marks' <=> n \in marks)
    BY <1>0, <1>2, <2>1, MarkFacts
  <2>5. slot' \in Loops /\ loops' \subseteq Loops
    BY <1>0, <2>1, LoopOf DEF TaskTypes
  <2>6. TaskTypes' /\ StateTypes'
    BY <1>0, <2>1, <2>2, <2>3, <2>4, <2>5 DEF TaskTypes, StateTypes
  <2> QED
    BY <1>1, <2>1, <2>2, <2>3, <2>4, <2>6
<1>7. CASE Finish(b)
  <2>1. /\ b \in Logins /\ login[b] = "services" /\ signedOut' = FALSE /\ Step(b, "ended")
        /\ Mark("opened", b \in undercut) /\ undercut' = undercut \ {b}
        /\ UNCHANGED <<active, jwt, bootstrapped, engine, lock, slot, loops, logout, client, from>>
    BY <1>7 DEF Finish, hearts
  <2>2. /\ login' \in [Boots -> LoginPhases]
        /\ OnlyLogin(b, "ended")
    BY <1>0, <2>1, StepFacts
  <2>3. /\ marks' \subseteq Marked /\ marks \subseteq marks'
        /\ b \in undercut => "opened" \in marks'
        /\ \A n : n # "opened" => (n \in marks' <=> n \in marks)
    BY <1>0, <1>2, <2>1, MarkFacts
  <2>4. TaskTypes' /\ StateTypes'
    BY <1>0, <2>1, <2>2, <2>3 DEF TaskTypes, StateTypes
  <2> QED
    BY <1>1, <2>1, <2>2, <2>3, <2>4
<1> QED
  BY <1>3, <1>4, <1>5, <1>6, <1>7 DEF LoginStep

\* The start of a sign-in changes nothing but the call.
LEMMA BeginFacts ==
  ASSUME TypeOK, NEW b \in Boots, Begin(b)
  PROVE  /\ TypeOK' /\ b \in Logins /\ login[b] = "idle" /\ OnlyLogin(b, "checking")
         /\ UNCHANGED <<active, jwt, signedOut, bootstrapped, engine, lock, slot, loops, logout,
                        client, undercut, marks>>
<1>0. TaskTypes /\ StateTypes
  BY TypeParts
<1>1. /\ b \in Logins /\ login[b] = "idle" /\ Step(b, "checking")
      /\ from' = [from EXCEPT ![b] = Dir(active)]
      /\ UNCHANGED <<active, jwt, signedOut, bootstrapped, engine, lock, slot, loops, logout,
                     client, undercut, marks>>
  BY DEF Begin, session, hearts
<1>2. login' \in [Boots -> LoginPhases] /\ OnlyLogin(b, "checking")
  BY <1>0, <1>1, StepFacts
<1>3. from' \in [Logins \cup Outs -> Dirs]
  BY <1>0, <1>1, DirFacts DEF TaskTypes, StateTypes
<1>4. TaskTypes' /\ StateTypes'
  BY <1>0, <1>1, <1>2, <1>3 DEF TaskTypes, StateTypes
<1>5. TypeOK'
  BY <1>4 DEF TypeOK, TaskTypes, StateTypes, Client, Phases, Marked, LoginPhases, LogoutPhases
<1> QED
  BY <1>1, <1>2, <1>5

\* Another user may only take over by a sign-out, or else the engine is stray.
LEMMA ActivateFacts ==
  ASSUME TypeOK, NEW b \in Boots, NEW u \in Users, Activate(b, u)
  PROVE  /\ TypeOK' /\ marks \subseteq marks' /\ b \in Logins
         /\ login[b] = "checking" /\ OnlyLogin(b, "activated")
         /\ \/ /\ active' = u /\ u # NULL /\ (active \notin {NULL, u} => "stray" \in marks')
               /\ \A n : n # "stray" => (n \in marks' <=> n \in marks)
            \/ /\ active' = active /\ "misfiled" \in marks'
               /\ \A n : n # "misfiled" => (n \in marks' <=> n \in marks)
         /\ undercut \subseteq undercut' /\ (Cutting # {} => b \in undercut')
         /\ UNCHANGED <<jwt, signedOut, bootstrapped, engine, lock, slot, loops, logout, client>>
<1>0. TaskTypes /\ StateTypes /\ client \in [Clients -> Client] /\ marks \subseteq Marked
  BY TypeParts DEF TaskTypes
<1>1. /\ b \in Logins /\ login[b] = "checking" /\ Step(b, "activated")
      /\ \/ active' = u /\ Mark("stray", active \notin {NULL, u})
         \/ UNCHANGED active /\ Mark("misfiled", TRUE)
      /\ undercut' = undercut \cup {a \in {b} : Cutting # {}}
      /\ UNCHANGED <<jwt, signedOut, bootstrapped, engine, lock, slot, loops, logout, client, from>>
  BY DEF Activate, hearts
<1>2. u # NULL
  BY SessionAssumption DEF Dirs
<1>3. login' \in [Boots -> LoginPhases] /\ OnlyLogin(b, "activated")
  BY <1>0, <1>1, StepFacts
<1>4. undercut \subseteq undercut' /\ undercut' \subseteq Logins /\ (Cutting # {} => b \in undercut')
  BY <1>0, <1>1 DEF TaskTypes
<1>5. /\ marks' \subseteq Marked /\ marks \subseteq marks' /\ active' \in Users \cup {NULL}
      /\ \/ /\ active' = u /\ u # NULL /\ (active \notin {NULL, u} => "stray" \in marks')
            /\ \A n : n # "stray" => (n \in marks' <=> n \in marks)
         \/ /\ active' = active /\ "misfiled" \in marks'
            /\ \A n : n # "misfiled" => (n \in marks' <=> n \in marks)
  <2>1. {"stray", "misfiled"} \subseteq Marked
    BY DEF Marked
  <2>2. CASE active' = u /\ Mark("stray", active \notin {NULL, u})
    BY <1>0, <1>2, <2>1, <2>2, MarkFacts
  <2>3. CASE UNCHANGED active /\ Mark("misfiled", TRUE)
    BY <1>0, <2>1, <2>3, MarkFacts DEF StateTypes
  <2> QED
    BY <1>1, <2>2, <2>3
<1>6. TaskTypes' /\ StateTypes'
  BY <1>0, <1>1, <1>3, <1>4, <1>5 DEF TaskTypes, StateTypes
<1>7. TypeOK'
  BY <1>6 DEF TypeOK, TaskTypes, StateTypes, Client, Phases, Marked, LoginPhases, LogoutPhases
<1> QED
  BY <1>1, <1>3, <1>4, <1>5, <1>7

\* A sign-out, or the start of one for an expired session: switch, token, user,
\* heartbeat, engine, in this order.
OutStep(o) == Expire(o) \/ LogoutStep(o)

LEMMA LogoutFacts ==
  ASSUME TypeOK, NEW o \in Outs, OutStep(o)
  PROVE  /\ TypeOK' /\ marks \subseteq marks'
         /\ UNCHANGED login /\ \A b \in Boots : client'[b] = client[b]
         /\ \/ /\ logout[o] = "idle" /\ OnlyOut(o, "expired") /\ signedOut'
               /\ UNCHANGED <<active, jwt, bootstrapped, engine, lock, slot, loops, undercut,
                              marks>>
            \/ /\ logout[o] \in {"idle", "expired"} /\ OnlyOut(o, "loaded")
               /\ UNCHANGED <<active, jwt, signedOut, bootstrapped, engine, lock, slot, loops,
                              undercut, marks>>
            \/ /\ logout[o] \in {"expired", "switched"} /\ OnlyOut(o, "ended")
               /\ "failed" \in marks' /\ \A n : n # "failed" => (n \in marks' <=> n \in marks)
               /\ UNCHANGED <<active, jwt, signedOut, bootstrapped, engine, lock, slot, loops,
                              undercut>>
            \/ /\ logout[o] = "loaded" /\ OnlyOut(o, "switched") /\ signedOut'
               /\ undercut' = undercut \cup Signing
               /\ UNCHANGED <<active, jwt, bootstrapped, engine, lock, slot, loops, marks>>
            \/ /\ logout[o] = "switched" /\ OnlyOut(o, "removed")
               /\ UNCHANGED <<active, signedOut, bootstrapped, engine, lock, slot, loops, undercut,
                              marks>>
            \/ /\ logout[o] = "removed" /\ OnlyOut(o, "services")
               /\ active' = NULL \/ (active' = active /\ "failed" \in marks')
               /\ \A n : n # "failed" => (n \in marks' <=> n \in marks)
               /\ UNCHANGED <<jwt, signedOut, bootstrapped, engine, lock, slot, loops, undercut>>
            \/ /\ logout[o] = "services" /\ OnlyOut(o, "reset") /\ loops' = loops \ {slot}
               /\ Booting # {} => "crossed" \in marks'
               /\ \A n : n # "crossed" => (n \in marks' <=> n \in marks)
               /\ UNCHANGED <<active, jwt, signedOut, bootstrapped, engine, undercut>>
            \/ /\ logout[o] = "reset" /\ OnlyOut(o, "ended") /\ lock = NULL
               /\ engine' = NULL /\ ~bootstrapped'
               /\ active # NULL => "undone" \in marks'
               /\ Booting # {} => "crossed" \in marks'
               /\ \A n : n \notin {"undone", "crossed"} => (n \in marks' <=> n \in marks)
               /\ UNCHANGED <<active, jwt, signedOut, lock, slot, loops, undercut>>
<1>0. TaskTypes /\ StateTypes /\ client \in [Clients -> Client] /\ marks \subseteq Marked
  BY TypeParts DEF TaskTypes
<1>1. TaskTypes' /\ StateTypes' => TypeOK'
  BY DEF TypeOK, TaskTypes, StateTypes, Client, Phases, Marked, LoginPhases, LogoutPhases
<1>2. {"failed", "crossed", "undone"} \subseteq Marked
  BY DEF Marked
<1> DEFINE OutTypes == [Outs -> LogoutPhases]
<1>3. CASE Expire(o)
  <2>1. /\ logout[o] = "idle" /\ signedOut' = TRUE /\ Out(o, "expired")
        /\ UNCHANGED <<active, jwt, bootstrapped, engine, lock, slot, loops, login, client, from,
                       undercut, marks>>
    BY <1>3 DEF Expire, hearts
  <2>2. logout' \in OutTypes /\ OnlyOut(o, "expired")
    BY <1>0, <2>1, OutFacts
  <2>3. TaskTypes' /\ StateTypes'
    BY <1>0, <2>1, <2>2 DEF TaskTypes, StateTypes
  <2> QED
    BY <1>1, <2>1, <2>2, <2>3
<1>4. CASE LoadConfig(o)
  <2>1. /\ logout[o] = (IF o \in Expiries THEN "expired" ELSE "idle")
        /\ UNCHANGED <<active, jwt, signedOut, bootstrapped, engine, lock, slot, loops, login,
                       client, undercut>>
    BY <1>4 DEF LoadConfig, session, hearts
  <2>2. CASE /\ from' = [from EXCEPT ![o] = Dir(active)] /\ Out(o, "loaded") /\ UNCHANGED marks
    <3>1. logout' \in OutTypes /\ OnlyOut(o, "loaded")
      BY <1>0, <2>2, OutFacts
    <3>2. from' \in [Logins \cup Outs -> Dirs]
      BY <1>0, <2>2, DirFacts DEF TaskTypes, StateTypes
    <3>3. TaskTypes' /\ StateTypes'
      BY <1>0, <2>1, <2>2, <3>1, <3>2 DEF TaskTypes, StateTypes
    <3> QED
      BY <1>1, <2>1, <2>2, <3>1, <3>3
  <2>3. CASE /\ o \in Expiries /\ Out(o, "ended") /\ Mark("failed", TRUE) /\ UNCHANGED from
    <3>1. logout' \in OutTypes /\ OnlyOut(o, "ended")
      BY <1>0, <2>3, OutFacts
    <3>2. /\ marks' \subseteq Marked /\ marks \subseteq marks' /\ "failed" \in marks'
          /\ \A n : n # "failed" => (n \in marks' <=> n \in marks)
      BY <1>0, <1>2, <2>3, MarkFacts
    <3>3. TaskTypes' /\ StateTypes'
      BY <1>0, <2>1, <2>3, <3>1, <3>2 DEF TaskTypes, StateTypes
    <3> QED
      BY <1>1, <2>1, <2>3, <3>1, <3>2, <3>3
  <2> QED
    BY <1>4, <2>2, <2>3 DEF LoadConfig
<1>5. CASE SignOff(o)
  <2>1. /\ logout[o] = "loaded" /\ signedOut' = TRUE /\ Out(o, "switched")
        /\ undercut' = undercut \cup Signing
        /\ UNCHANGED <<active, jwt, bootstrapped, engine, lock, slot, loops, login, client, from,
                       marks>>
    BY <1>5 DEF SignOff, hearts
  <2>2. logout' \in OutTypes /\ OnlyOut(o, "switched") /\ undercut' \subseteq Logins
    BY <1>0, <2>1, OutFacts DEF TaskTypes, Signing
  <2>3. TaskTypes' /\ StateTypes'
    BY <1>0, <2>1, <2>2 DEF TaskTypes, StateTypes
  <2> QED
    BY <1>1, <2>1, <2>2, <2>3
<1>8. CASE RemoveToken(o)
  <2>1. /\ logout[o] = "switched" /\ from' = [from EXCEPT ![o] = Pre]
        /\ UNCHANGED <<active, signedOut, bootstrapped, engine, lock, slot, loops, login, client,
                       undercut>>
    BY <1>8 DEF RemoveToken, hearts
  <2>2. from' \in [Logins \cup Outs -> Dirs]
    BY <1>0, <2>1 DEF TaskTypes, Dirs
  <2>3. CASE jwt' = jwt \ {from[o]} /\ Out(o, "removed") /\ UNCHANGED marks
    <3>1. logout' \in OutTypes /\ OnlyOut(o, "removed")
      BY <1>0, <2>3, OutFacts
    <3>2. TaskTypes' /\ StateTypes'
      BY <1>0, <2>1, <2>2, <2>3, <3>1 DEF TaskTypes, StateTypes
    <3> QED
      BY <1>1, <2>1, <2>3, <3>1, <3>2
  <2>4. CASE UNCHANGED jwt /\ Out(o, "ended") /\ Mark("failed", TRUE)
    <3>1. logout' \in OutTypes /\ OnlyOut(o, "ended")
      BY <1>0, <2>4, OutFacts
    <3>2. /\ marks' \subseteq Marked /\ marks \subseteq marks' /\ "failed" \in marks'
          /\ \A n : n # "failed" => (n \in marks' <=> n \in marks)
      BY <1>0, <1>2, <2>4, MarkFacts
    <3>3. TaskTypes' /\ StateTypes'
      BY <1>0, <2>1, <2>2, <2>4, <3>1, <3>2 DEF TaskTypes, StateTypes
    <3> QED
      BY <1>1, <2>1, <2>4, <3>1, <3>2, <3>3
  <2> QED
    BY <1>8, <2>3, <2>4 DEF RemoveToken
<1>9. CASE ClearActive(o)
  <2>1. /\ logout[o] = "removed" /\ Out(o, "services")
        /\ UNCHANGED <<jwt, signedOut, bootstrapped, engine, lock, slot, loops, login, client, from,
                       undercut>>
    BY <1>9 DEF ClearActive, hearts
  <2>2. logout' \in OutTypes /\ OnlyOut(o, "services")
    BY <1>0, <2>1, OutFacts
  <2>3. /\ marks' \subseteq Marked /\ marks \subseteq marks' /\ active' \in Users \cup {NULL}
        /\ active' = NULL \/ (active' = active /\ "failed" \in marks')
        /\ \A n : n # "failed" => (n \in marks' <=> n \in marks)
    <3>1. CASE active' = NULL /\ UNCHANGED marks
      BY <1>0, <3>1
    <3>2. CASE UNCHANGED active /\ Mark("failed", TRUE)
      BY <1>0, <1>2, <3>2, MarkFacts DEF StateTypes
    <3> QED
      BY <1>9, <3>1, <3>2 DEF ClearActive
  <2>4. TaskTypes' /\ StateTypes'
    BY <1>0, <2>1, <2>2, <2>3 DEF TaskTypes, StateTypes
  <2> QED
    BY <1>1, <2>1, <2>2, <2>3, <2>4
<1>6. CASE StopLoop(o)
  <2>1. /\ logout[o] = "services" /\ slot' = NULL /\ loops' = loops \ {slot}
        /\ lock' = (IF lock = slot THEN NULL ELSE lock)
        /\ client' = [c \in Clients |-> IF c = slot THEN [at |-> "ended", dir |-> Pre]
                                        ELSE client[c]]
        /\ Out(o, "reset") /\ Mark("crossed", Booting # {})
        /\ UNCHANGED <<active, jwt, signedOut, bootstrapped, engine, login, from, undercut>>
    BY <1>6 DEF StopLoop, session
  <2>2. logout' \in OutTypes /\ OnlyOut(o, "reset")
    BY <1>0, <2>1, OutFacts
  <2>3. /\ marks' \subseteq Marked /\ marks \subseteq marks'
        /\ Booting # {} => "crossed" \in marks'
        /\ \A n : n # "crossed" => (n \in marks' <=> n \in marks)
    BY <1>0, <1>2, <2>1, MarkFacts
  <2>4. client' \in [Clients -> Client] /\ \A b \in Boots : client'[b] = client[b]
    <3>1. [at |-> "ended", dir |-> Pre] \in Client
      BY DEF Client, Phases, Dirs
    <3>2. \A b \in Boots : b \in Clients /\ b # slot
      BY <1>0, BootsApart DEF TaskTypes
    <3> QED
      BY <1>0, <2>1, <3>1, <3>2
  <2>5. TaskTypes' /\ StateTypes'
    BY <1>0, <2>1, <2>2, <2>3, <2>4 DEF TaskTypes, StateTypes
  <2> QED
    BY <1>1, <2>1, <2>2, <2>3, <2>4, <2>5
<1>7. CASE ResetEngine(o)
  <2>1. /\ logout[o] = "reset" /\ lock = NULL /\ engine' = NULL /\ bootstrapped' = FALSE
        /\ Out(o, "ended")
        /\ marks' = marks \cup {m \in {"undone"} : active # NULL}
                          \cup {m \in {"crossed"} : Booting # {}}
        /\ UNCHANGED <<active, jwt, signedOut, lock, slot, loops, login, client, from, undercut>>
    BY <1>7 DEF ResetEngine, session, hearts
  <2>2. logout' \in OutTypes /\ OnlyOut(o, "ended")
    BY <1>0, <2>1, OutFacts
  <2>3. /\ marks' \subseteq Marked /\ marks \subseteq marks'
        /\ active # NULL => "undone" \in marks'
        /\ Booting # {} => "crossed" \in marks'
        /\ \A n : n \notin {"undone", "crossed"} => (n \in marks' <=> n \in marks)
    BY <1>0, <1>2, <2>1
  <2>4. TaskTypes' /\ StateTypes'
    BY <1>0, <2>1, <2>2, <2>3 DEF TaskTypes, StateTypes
  <2> QED
    BY <1>1, <2>1, <2>2, <2>3, <2>4
<1> QED
  BY <1>3, <1>4, <1>5, <1>6, <1>7, <1>8, <1>9 DEF OutStep, LogoutStep

-----------------------------------------------------------------------------
(* Every part of the invariant is kept by every step.                      *)

LEMMA Steps ==
  ASSUME [Next]_vars
  PROVE  \/ \E b \in Boots : Begin(b)
         \/ \E b \in Boots, u \in Users : Activate(b, u)
         \/ \E b \in Boots : LoginStep(b)
         \/ \E o \in Outs : OutStep(o)
         \/ \E c \in Clients : ClientStep(c)
         \/ UNCHANGED vars
BY DEF Next, OutStep, ClientStep

\* Type correctness: no interleaving of sign-ins, sign-outs, heartbeats and calls
\* leaves the values the tasks of credentials/ops.rs can hold.
LEMMA TypeStep ==
  TypeOK /\ [Next]_vars => TypeOK'
<1> SUFFICES ASSUME TypeOK, [Next]_vars PROVE TypeOK'
  OBVIOUS
<1>1. CASE UNCHANGED vars
  BY <1>1 DEF vars, TypeOK
<1> QED
  BY <1>1, Steps, BeginFacts, ActivateFacts, LoginFacts, LogoutFacts, ClientFacts

LEMMA FlagStep ==
  TypeOK /\ FlagInv /\ [Next]_vars => FlagInv'
<1> SUFFICES ASSUME TypeOK, FlagInv, [Next]_vars, bootstrapped'
             PROVE  /\ \/ engine' # NULL
                       \/ \E b \in Boots :
                            /\ login'[b] = "boot"
                            /\ client'[b].at \in {"lookup", "build", "install", "failed"}
                    /\ slot' \in loops' \/ Booting' # {} \/ Resetting' # {}
  BY DEF FlagInv
<1>1. ASSUME NEW b \in Boots, NEW u \in Users, Activate(b, u)
      PROVE  FlagInv'
  <2>1. /\ login[b] = "checking" /\ \A a \in Boots \ {b} : login'[a] = login[a]
        /\ UNCHANGED <<bootstrapped, engine, slot, loops, logout, client>>
    BY <1>1, ActivateFacts DEF OnlyLogin
  <2>2. Booting \subseteq Booting' /\ Resetting' = Resetting
    BY <2>1 DEF Booting, Resetting
  <2> QED
    BY <2>1, <2>2 DEF FlagInv
<1>2. ASSUME NEW b \in Boots, LoginStep(b) PROVE FlagInv'
  <2>1. b \in Clients /\ Boots \subseteq Clients
    BY BootsApart
  <2>2. /\ \A a \in Boots \ {b} : client'[a] = client[a] /\ login'[a] = login[a]
        /\ engine' = engine /\ Resetting' = Resetting
    BY <1>2, <2>1, LoginFacts DEF OnlyLogin, Resetting
  <2>3. CASE login[b] = "swap" /\ ~bootstrapped
    BY <1>2, <2>1, <2>2, <2>3, LoginFacts DEF FlagInv, Booting, OnlyLogin
  <2>4. CASE login[b] = "swap" /\ bootstrapped
    <3>1. client' = client /\ slot' = slot /\ loops' = loops /\ login[b] # "boot"
      BY <1>2, <2>4, LoginFacts
    <3>2. Booting \subseteq Booting'
      BY <2>2, <3>1 DEF Booting
    <3> QED
      BY <2>2, <2>4, <3>1, <3>2 DEF FlagInv
  <2>5. CASE login[b] = "boot" /\ bootstrapped'
    <3>1. client[b].at = "got" /\ slot' \in loops' /\ bootstrapped' = bootstrapped
      BY <1>2, <2>5, LoginFacts
    <3> QED
      BY <2>2, <2>5, <3>1 DEF FlagInv
  <2>6. CASE login[b] \in {"activated", "services"}
    <3>1. /\ client' = client /\ slot' = slot /\ loops' = loops
          /\ bootstrapped' = bootstrapped
      BY <1>2, <2>6, LoginFacts
    <3>2. Booting \subseteq Booting'
      BY <2>2, <2>6, <3>1 DEF Booting
    <3> QED
      BY <2>2, <2>6, <3>1, <3>2 DEF FlagInv
  <2> QED
    BY <1>2, <2>3, <2>4, <2>5, <2>6, LoginFacts DEF FlagInv
<1>3. ASSUME NEW o \in Outs, OutStep(o) PROVE FlagInv'
  <2>1. /\ login' = login /\ \A b \in Boots : client'[b] = client[b]
        /\ Booting' = Booting
    BY <1>3, LogoutFacts DEF Booting
  <2>2. CASE logout[o] = "reset"
    BY <1>3, <2>2, LogoutFacts DEF FlagInv
  <2>3. CASE logout[o] = "services"
    <3>1. o \in Resetting' /\ engine' = engine /\ bootstrapped' = bootstrapped
      BY <1>3, <2>3, LogoutFacts DEF OnlyOut, Resetting
    <3> QED
      BY <2>1, <3>1 DEF FlagInv
  <2>4. CASE logout[o] \notin {"reset", "services"}
    <3>1. UNCHANGED <<engine, bootstrapped, slot, loops>> /\ Resetting' = Resetting
      BY <1>3, <2>4, LogoutFacts DEF OnlyOut, Resetting
    <3> QED
      BY <2>1, <3>1 DEF FlagInv
  <2> QED
    BY <2>2, <2>3, <2>4
<1>4. ASSUME NEW c \in Clients, ClientStep(c) PROVE FlagInv'
  <2>1. /\ UNCHANGED <<bootstrapped, slot, loops, login, logout>>
        /\ Booting' = Booting /\ Resetting' = Resetting
        /\ engine # NULL => engine' = engine
        /\ \A d \in Clients \ {c} : client'[d] = client[d]
    BY <1>4, ClientFacts DEF Booting, Resetting, hearts, calls
  <2>2. ASSUME engine' = NULL, bootstrapped
        PROVE  \E b \in Boots : /\ login'[b] = "boot"
                                /\ client'[b].at \in {"lookup", "build", "install", "failed"}
    <3>1. PICK b \in Boots : /\ login[b] = "boot"
                             /\ client[b].at \in {"lookup", "build", "install", "failed"}
      BY <2>1, <2>2 DEF FlagInv
    <3>2. b \in Clients
      BY BootsApart
    <3>3. CASE b = c
      BY <1>4, <2>1, <2>2, <3>1, <3>3, ClientFacts
    <3> QED
      BY <2>1, <3>1, <3>2, <3>3
  <2> QED
    BY <2>1, <2>2 DEF FlagInv
<1>5. CASE UNCHANGED vars
  BY <1>5 DEF vars, FlagInv, Booting, Resetting
<1>6. ASSUME NEW b \in Boots, Begin(b) PROVE FlagInv'
  <2>1. /\ login[b] = "idle" /\ \A a \in Boots \ {b} : login'[a] = login[a]
        /\ UNCHANGED <<bootstrapped, engine, slot, loops, logout, client>>
    BY <1>6, BeginFacts DEF OnlyLogin
  <2>2. Booting \subseteq Booting' /\ Resetting' = Resetting
    BY <2>1 DEF Booting, Resetting
  <2> QED
    BY <2>1, <2>2 DEF FlagInv
<1> QED
  BY <1>1, <1>2, <1>3, <1>4, <1>5, <1>6, Steps DEF FlagInv

LEMMA ServedStep ==
  TypeOK /\ ServedInv /\ [Next]_vars => ServedInv'
<1> SUFFICES ASSUME TypeOK, ServedInv, [Next]_vars PROVE ServedInv'
  OBVIOUS
<1>1. ASSUME NEW b \in Boots, NEW u \in Users, Activate(b, u) PROVE ServedInv'
  BY <1>1, ActivateFacts DEF ServedInv, OnlyLogin
<1>2. ASSUME NEW b \in Boots, LoginStep(b) PROVE ServedInv'
  <2>1. /\ \A a \in Boots \ {b} : login'[a] = login[a]
        /\ active' = active /\ marks \subseteq marks'
    BY <1>2, LoginFacts DEF OnlyLogin
  <2>2. CASE login[b] = "activated"
    BY <1>2, <2>2, LoginFacts DEF ServedInv, OnlyLogin
  <2>3. CASE login[b] = "swap"
    <3>1. bootstrapped'
      BY <1>2, <2>3, LoginFacts
    <3> QED
      BY <3>1 DEF ServedInv
  <2>4. CASE login[b] \in {"boot", "services"}
    <3>1. "failed" \in marks' \/ bootstrapped' = bootstrapped
      BY <1>2, <2>4, LoginFacts
    <3> QED
      BY <2>1, <2>4, <3>1 DEF ServedInv
  <2> QED
    BY <1>2, <2>2, <2>3, <2>4, LoginFacts
<1>3. ASSUME NEW o \in Outs, OutStep(o) PROVE ServedInv'
  <2>1. login' = login /\ marks \subseteq marks'
    BY <1>3, LogoutFacts
  <2>2. \/ active' = NULL
        \/ active' = active /\ bootstrapped' = bootstrapped
        \/ active' = active /\ (active # NULL => "undone" \in marks')
    BY <1>3, LogoutFacts
  <2> QED
    BY <2>1, <2>2 DEF ServedInv
<1>4. ASSUME NEW c \in Clients, ClientStep(c) PROVE ServedInv'
  BY <1>4, ClientFacts DEF ServedInv, session, calls
<1>5. CASE UNCHANGED vars
  BY <1>5 DEF vars, ServedInv
<1>6. ASSUME NEW b \in Boots, Begin(b) PROVE ServedInv'
  BY <1>6, BeginFacts DEF ServedInv, OnlyLogin
<1> QED
  BY <1>1, <1>2, <1>3, <1>4, <1>5, <1>6, Steps

\* A sign-in keeps its place among those under way, but for the ends.
LEMMA SigningFacts ==
  ASSUME TypeOK, NEW b \in Boots, LoginStep(b)
  PROVE  /\ Signing' \subseteq Signing /\ Signing \ {b} \subseteq Signing'
         /\ \A a \in Signing \ {b} : login'[a] = login[a]
         /\ b \in Signing => b \in Signing' \/ login'[b] = "ended"
<1>1. Logins \subseteq Boots
  BY DEF Boots
<1>2. \A a \in Boots \ {b} : login'[a] = login[a]
  BY LoginFacts DEF OnlyLogin
<1>3. login[b] \in {"activated", "swap", "boot", "services"}
  BY LoginFacts
<1>4. b \in Logins => login'[b] \in {"swap", "boot", "services", "ended"}
  BY LoginFacts, AfterBootFacts DEF OnlyLogin
<1> QED
  BY <1>1, <1>2, <1>3, <1>4 DEF Signing

LEMMA TokenStep ==
  TypeOK /\ TokenInv /\ [Next]_vars => TokenInv'
<1> DEFINE Leaving == {"expired", "loaded", "switched", "removed"}
<1> SUFFICES ASSUME TypeOK, TokenInv, [Next]_vars,
                    marks' \cap {"opened", "misfiled", "failed"} = {}, active' # NULL
             PROVE  /\ \/ active' \in jwt'
                       \/ \E b \in Boots : login'[b] = "activated"
                       \/ \E o \in Outs : logout'[o] = "removed"
                    /\ \/ ~signedOut'
                       \/ Signing' # {}
                       \/ \E o \in Outs : logout'[o] \in Leaving
  BY DEF TokenInv
<1>0. Logins \subseteq Boots
  BY DEF Boots
<1>1. ASSUME NEW b \in Boots, NEW u \in Users, Activate(b, u) PROVE TokenInv'
  <2>1. login'[b] = "activated" /\ b \in Signing'
    BY <1>0, <1>1, ActivateFacts DEF OnlyLogin, Signing
  <2> QED
    BY <2>1 DEF TokenInv
<1>2. ASSUME NEW b \in Boots, LoginStep(b) PROVE TokenInv'
  <2>1. /\ \A a \in Boots \ {b} : login'[a] = login[a]
        /\ active' = active /\ marks \subseteq marks' /\ logout' = logout
        /\ jwt \subseteq jwt'
    BY <1>2, LoginFacts DEF OnlyLogin
  <2>2. /\ \/ active \in jwt
           \/ \E a \in Boots : login[a] = "activated"
           \/ \E o \in Outs : logout[o] = "removed"
        /\ \/ ~signedOut
           \/ Signing # {}
           \/ \E o \in Outs : logout[o] \in Leaving
    BY <2>1 DEF TokenInv
  <2>3. \/ active' \in jwt'
        \/ \E a \in Boots : login'[a] = "activated"
        \/ \E o \in Outs : logout'[o] = "removed"
    <3>1. CASE login[b] = "activated"
      <4>1. jwt' = jwt \cup {active}
        BY <1>2, <2>1, <3>1, LoginFacts DEF Dir
      <4> QED
        BY <2>1, <4>1
    <3> QED
      BY <2>1, <2>2, <3>1
  <2>4. \/ ~signedOut'
        \/ Signing' # {}
        \/ \E o \in Outs : logout'[o] \in Leaving
    <3>1. CASE login[b] = "services" /\ ~signedOut'
      BY <3>1
    <3>2. CASE ~(login[b] = "services" /\ ~signedOut')
      <4>1. signedOut' = signedOut
        BY <1>2, <3>2, LoginFacts
      <4>2. b \in Logins => login'[b] # "ended"
        BY <1>2, <3>2, LoginFacts, AfterBootFacts DEF OnlyLogin
      <4>3. Signing # {} => Signing' # {}
        BY <1>2, <4>2, SigningFacts DEF Signing
      <4> QED
        BY <2>1, <2>2, <4>1, <4>3
    <3> QED
      BY <3>1, <3>2
  <2> QED
    BY <2>3, <2>4 DEF TokenInv
<1>3. ASSUME NEW o \in Outs, OutStep(o) PROVE TokenInv'
  <2>1. /\ login' = login /\ Signing' = Signing /\ marks \subseteq marks'
        /\ \A a \in Outs \ {o} : logout'[a] = logout[a]
    BY <1>3, LogoutFacts DEF OnlyOut, Signing
  <2>2. CASE logout'[o] \in {"expired", "loaded", "switched"}
    <3>1. active' = active /\ jwt' = jwt /\ logout[o] # "removed"
      BY <1>3, <2>2, LogoutFacts DEF OnlyOut
    <3> QED
      BY <2>1, <2>2, <3>1 DEF TokenInv
  <2>3. CASE logout'[o] = "removed"
    BY <2>3 DEF TokenInv
  <2>4. CASE logout[o] = "removed"
    BY <1>3, <2>4, LogoutFacts
  <2>5. CASE logout[o] \in {"services", "reset"}
    <3>1. active' = active /\ jwt' = jwt /\ signedOut' = signedOut
      BY <1>3, <2>5, LogoutFacts
    <3> QED
      BY <2>1, <2>5, <3>1 DEF TokenInv
  <2> QED
    BY <1>3, <2>2, <2>3, <2>4, <2>5, LogoutFacts DEF OnlyOut
<1>4. ASSUME NEW c \in Clients, ClientStep(c) PROVE TokenInv'
  BY <1>4, ClientFacts DEF TokenInv, session, calls, Signing
<1>5. CASE UNCHANGED vars
  BY <1>5 DEF vars, TokenInv, Signing
<1>6. ASSUME NEW b \in Boots, Begin(b) PROVE TokenInv'
  <2>1. Signing' = Signing
    BY <1>0, <1>6, BeginFacts DEF Signing, OnlyLogin
  <2> QED
    BY <1>6, <2>1, BeginFacts DEF TokenInv, OnlyLogin
<1> QED
  BY <1>1, <1>2, <1>3, <1>4, <1>5, <1>6, Steps DEF TokenInv

LEMMA GateStep ==
  TypeOK /\ GateInv /\ [Next]_vars => GateInv'
<1> SUFFICES ASSUME TypeOK, GateInv, [Next]_vars, marks' \cap {"opened", "misfiled"} = {}
             PROVE  GateInv'
  BY DEF GateInv
<1>0. Logins \subseteq Boots
  BY DEF Boots
<1> DEFINE Held == /\ Cutting # {} \/ active = NULL => signedOut /\ Signing \subseteq undercut
                   /\ "stray" \notin marks /\ ~signedOut => active \in jwt
                   /\ \A b \in Signing \ undercut :
                        "stray" \notin marks /\ login[b] # "activated" => active \in jwt
<1>h. marks \subseteq marks' => Held
  BY DEF GateInv
<1>1. ASSUME NEW b \in Boots, NEW u \in Users, Activate(b, u) PROVE GateInv'
  <2>1. /\ b \in Logins /\ OnlyLogin(b, "activated") /\ marks \subseteq marks'
        /\ active' = u /\ u # NULL /\ (active \notin {NULL, u} => "stray" \in marks')
        /\ undercut \subseteq undercut' /\ (Cutting # {} => b \in undercut')
        /\ UNCHANGED <<jwt, signedOut, logout>>
    BY <1>1, ActivateFacts
  <2>2. Cutting' = Cutting /\ Signing' \subseteq Signing \cup {b}
    BY <1>0, <2>1 DEF Cutting, Signing, OnlyLogin
  <2>3. Cutting' # {} \/ active' = NULL => signedOut' /\ Signing' \subseteq undercut'
    BY <1>h, <2>1, <2>2
  <2>4. "stray" \notin marks' => "stray" \notin marks /\ (active = NULL \/ active' = active)
    BY <2>1
  <2>5. "stray" \notin marks' /\ ~signedOut' => active' \in jwt'
    BY <1>h, <2>1, <2>4
  <2>6. ASSUME NEW a \in Signing' \ undercut', "stray" \notin marks', login'[a] # "activated"
        PROVE  active' \in jwt'
    <3>1. a # b /\ a \in Signing \ undercut /\ login[a] = login'[a]
      BY <1>0, <2>1, <2>2, <2>6 DEF OnlyLogin, Signing
    <3> QED
      BY <1>h, <2>1, <2>4, <2>6, <3>1
  <2> QED
    BY <2>3, <2>5, <2>6 DEF GateInv
<1>2. ASSUME NEW b \in Boots, LoginStep(b) PROVE GateInv'
  <2>1. /\ active' = active /\ marks \subseteq marks' /\ Cutting' = Cutting /\ jwt \subseteq jwt'
        /\ undercut \ {b} \subseteq undercut' /\ undercut' \subseteq undercut
        /\ login'[b] # "ended" => undercut' = undercut
        /\ "stray" \in marks' <=> "stray" \in marks
    BY <1>2, LoginFacts DEF Cutting, OnlyLogin
  <2>2. /\ Signing' \subseteq Signing /\ \A a \in Signing' \ {b} : login'[a] = login[a]
        /\ \A a \in Signing' \ undercut' : a \in Signing \ undercut
        /\ Signing \subseteq undercut => Signing' \subseteq undercut'
    <3>1. b \in Signing' => login'[b] # "ended"
      BY DEF Signing
    <3> QED
      BY <1>2, <2>1, <3>1, SigningFacts
  <2>3. CASE login[b] = "services" /\ b \in Logins /\ ~signedOut'
    <3>1. b \in Signing \ undercut
      <4>1. b \in undercut => "opened" \in marks' \/ signedOut' = signedOut
        BY <1>2, <2>3, LoginFacts
      <4>2. b \in Signing
        BY <2>3 DEF Signing
      <4>3. b \in undercut => "opened" \in marks'
        BY <1>2, <2>3, LoginFacts DEF OnlyLogin
      <4> QED
        BY <4>2, <4>3
    <3>2. Cutting = {} /\ active # NULL
      BY <1>h, <2>1, <3>1
    <3>3. "stray" \notin marks => active \in jwt
      BY <1>h, <2>1, <2>3, <3>1
    <3> QED
      BY <1>h, <2>1, <2>2, <3>2, <3>3 DEF GateInv
  <2>4. CASE login[b] = "activated"
    <3>1. signedOut' = signedOut
      BY <1>2, <2>4, LoginFacts
    <3>2. ASSUME NEW a \in Signing' \ undercut', "stray" \notin marks', login'[a] # "activated"
          PROVE  active' \in jwt'
      <4>1. a \in Signing \ undercut /\ active # NULL
        BY <1>h, <2>1, <2>2, <3>2
      <4>2. CASE a = b
        <5>1. login'[b] = "swap"
          BY <1>2, <2>4, <3>2, <4>2, LoginFacts DEF OnlyLogin, Signing
        <5>2. \E dir \in Dirs : jwt' = jwt \cup {dir} /\ dir = Dir(active)
          BY <1>2, <2>4, <5>1, LoginFacts DEF OnlyLogin
        <5> QED
          BY <2>1, <4>1, <5>2 DEF Dir
      <4>3. CASE a # b
        BY <1>h, <2>1, <2>2, <3>2, <4>1, <4>3
      <4> QED
        BY <4>2, <4>3
    <3> QED
      BY <1>h, <2>1, <2>2, <3>1, <3>2 DEF GateInv
  <2>5. CASE login[b] # "activated" /\ ~(login[b] = "services" /\ b \in Logins /\ ~signedOut')
    <3>1. signedOut' = signedOut
      BY <1>2, <2>5, LoginFacts
    <3> QED
      BY <1>h, <2>1, <2>2, <2>5, <3>1 DEF GateInv
  <2> QED
    BY <2>3, <2>4, <2>5
<1>3. ASSUME NEW o \in Outs, OutStep(o) PROVE GateInv'
  <2>1. /\ login' = login /\ Signing' = Signing /\ marks \subseteq marks' /\ undercut \subseteq undercut'
        /\ \A a \in Outs \ {o} : logout'[a] = logout[a]
        /\ "stray" \in marks' <=> "stray" \in marks
    BY <1>3, LogoutFacts DEF OnlyOut, Signing
  <2>2. CASE logout[o] = "loaded"
    <3>1. signedOut' /\ Signing' \subseteq undercut'
      BY <1>3, <2>1, <2>2, LogoutFacts
    <3> QED
      BY <3>1 DEF GateInv
  <2>3. CASE logout[o] \in {"switched", "removed"}
    <3>1. signedOut /\ Signing \subseteq undercut
      BY <1>h, <2>1, <2>3 DEF Cutting
    <3>2. signedOut' = signedOut
      BY <1>3, <2>3, LogoutFacts
    <3> QED
      BY <2>1, <3>1, <3>2 DEF GateInv
  <2>4. CASE logout[o] \notin {"loaded", "switched", "removed"}
    <3>1. /\ active' = active /\ jwt' = jwt /\ undercut' = undercut
          /\ signedOut' \/ signedOut' = signedOut
          /\ logout'[o] \notin {"switched", "removed"}
      BY <1>3, <2>4, LogoutFacts DEF OnlyOut
    <3>2. Cutting' \subseteq Cutting
      BY <2>1, <3>1 DEF Cutting
    <3> QED
      BY <1>h, <2>1, <3>1, <3>2 DEF GateInv
  <2> QED
    BY <2>2, <2>3, <2>4
<1>4. ASSUME NEW c \in Clients, ClientStep(c) PROVE GateInv'
  BY <1>4, ClientFacts DEF GateInv, session, calls, Signing, Cutting
<1>5. CASE UNCHANGED vars
  BY <1>5 DEF vars, GateInv, Signing, Cutting
<1>6. ASSUME NEW b \in Boots, Begin(b) PROVE GateInv'
  <2>1. Signing' = Signing /\ Cutting' = Cutting /\ b \notin Signing
    BY <1>0, <1>6, BeginFacts DEF Signing, Cutting, OnlyLogin
  <2>2. /\ UNCHANGED <<active, jwt, signedOut, undercut, marks>>
        /\ \A a \in Signing : login'[a] = login[a]
    BY <1>0, <1>6, <2>1, BeginFacts DEF OnlyLogin, Signing
  <2> QED
    BY <1>h, <2>1, <2>2 DEF GateInv
<1> QED
  BY <1>1, <1>2, <1>3, <1>4, <1>5, <1>6, Steps

LEMMA EngineStep ==
  TypeOK /\ EngineInv /\ [Next]_vars => EngineInv'
<1> SUFFICES ASSUME TypeOK, EngineInv, [Next]_vars PROVE EngineInv'
  OBVIOUS
<1>1. ASSUME NEW b \in Boots, NEW u \in Users, Activate(b, u) PROVE EngineInv'
  BY <1>1, ActivateFacts DEF EngineInv
<1>2. ASSUME NEW b \in Boots, LoginStep(b) PROVE EngineInv'
  BY <1>2, LoginFacts DEF EngineInv
<1>3. ASSUME NEW o \in Outs, OutStep(o) PROVE EngineInv'
  <2>1. marks \subseteq marks' /\ \A a \in Outs \ {o} : logout'[a] = logout[a]
    BY <1>3, LogoutFacts DEF OnlyOut
  <2>2. CASE logout[o] = "reset"
    BY <1>3, <2>2, LogoutFacts DEF EngineInv
  <2>3. CASE logout[o] \in {"removed", "services"}
    BY <1>3, <2>3, LogoutFacts DEF EngineInv, OnlyOut
  <2>4. CASE logout[o] \in {"idle", "expired", "loaded", "switched"}
    <3>1. active' = active /\ engine' = engine
      BY <1>3, <2>4, LogoutFacts
    <3> QED
      BY <2>1, <2>4, <3>1 DEF EngineInv
  <2> QED
    BY <1>3, <2>2, <2>3, <2>4, LogoutFacts
<1>4. ASSUME NEW c \in Clients, ClientStep(c) PROVE EngineInv'
  BY <1>4, ClientFacts DEF EngineInv, session, calls
<1>5. CASE UNCHANGED vars
  BY <1>5 DEF vars, EngineInv
<1>6. ASSUME NEW b \in Boots, Begin(b) PROVE EngineInv'
  BY <1>6, BeginFacts DEF EngineInv
<1> QED
  BY <1>1, <1>2, <1>3, <1>4, <1>5, <1>6, Steps

LEMMA LoopStep ==
  TypeOK /\ LoopInv /\ [Next]_vars => LoopInv'
<1> SUFFICES ASSUME TypeOK, LoopInv, [Next]_vars PROVE LoopInv'
  OBVIOUS
<1>1. ASSUME NEW b \in Boots, NEW u \in Users, Activate(b, u) PROVE LoopInv'
  BY <1>1, ActivateFacts DEF LoopInv, OnlyLogin, Resetting
<1>2. ASSUME NEW b \in Boots, LoginStep(b) PROVE LoopInv'
  <2>1. /\ \A a \in Boots \ {b} : login'[a] = login[a]
        /\ Resetting' = Resetting /\ marks \subseteq marks'
    BY <1>2, LoginFacts DEF OnlyLogin, Resetting
  <2>2. CASE login[b] \in {"activated", "services"} \/ (login[b] = "swap" /\ bootstrapped)
    <3>1. UNCHANGED <<bootstrapped, slot, loops>> /\ login'[b] # "boot"
      BY <1>2, <2>2, LoginFacts, AfterBootFacts DEF OnlyLogin
    <3> QED
      BY <2>1, <3>1 DEF LoopInv
  <2>3. CASE login[b] = "swap" /\ ~bootstrapped
    <3>1. UNCHANGED <<slot, loops>> /\ bootstrapped'
      BY <1>2, <2>3, LoginFacts
    <3> QED
      BY <2>1, <2>3, <3>1 DEF LoopInv
  <2>4. CASE login[b] = "boot" /\ ~bootstrapped'
    <3>1. \/ UNCHANGED <<slot, loops>>
          \/ UNCHANGED bootstrapped
      BY <1>2, <2>4, LoginFacts
    <3>2. login'[b] # "boot"
      BY <1>2, <2>4, LoginFacts, AfterBootFacts DEF OnlyLogin
    <3> QED
      BY <2>1, <2>4, <3>1, <3>2 DEF LoopInv
  <2>5. CASE login[b] = "boot" /\ bootstrapped'
    <3>1. /\ loops' = loops \cup {Loop(b)} /\ slot' = Loop(b)
          /\ Resetting # {} => "crossed" \in marks'
      BY <1>2, <2>5, LoginFacts
    <3>2. login'[b] # "boot"
      BY <1>2, <2>5, LoginFacts, AfterBootFacts DEF OnlyLogin
    <3> QED
      BY <2>1, <2>5, <3>1, <3>2 DEF LoopInv
  <2> QED
    BY <1>2, <2>2, <2>3, <2>4, <2>5, LoginFacts
<1>3. ASSUME NEW o \in Outs, OutStep(o) PROVE LoopInv'
  <2>1. /\ login' = login /\ marks \subseteq marks'
        /\ \A a \in Outs \ {o} : logout'[a] = logout[a]
    BY <1>3, LogoutFacts DEF OnlyOut
  <2>2. CASE logout[o] \in {"services", "reset"}
    <3>1. Booting # {} => "crossed" \in marks'
      BY <1>3, <2>2, LogoutFacts
    <3>2. CASE logout[o] = "services"
      <4>1. loops' = loops \ {slot} /\ bootstrapped' = bootstrapped
        BY <1>3, <3>2, LogoutFacts
      <4> QED
        BY <2>1, <3>1, <4>1 DEF LoopInv, Booting
    <3>3. CASE logout[o] = "reset"
      <4>1. loops' = loops /\ slot' = slot
        BY <1>3, <3>3, LogoutFacts
      <4> QED
        BY <2>1, <3>1, <3>3, <4>1 DEF LoopInv, Booting, Resetting
    <3> QED
      BY <2>2, <3>2, <3>3
  <2>3. CASE logout[o] \notin {"services", "reset"}
    <3>1. UNCHANGED <<bootstrapped, slot, loops>> /\ logout'[o] # "reset"
      BY <1>3, <2>3, LogoutFacts DEF OnlyOut
    <3> QED
      BY <2>1, <3>1 DEF LoopInv, Resetting
  <2> QED
    BY <2>2, <2>3
<1>4. ASSUME NEW c \in Clients, ClientStep(c) PROVE LoopInv'
  BY <1>4, ClientFacts DEF LoopInv, hearts, calls, Resetting
<1>5. CASE UNCHANGED vars
  BY <1>5 DEF vars, LoopInv, Resetting
<1>6. ASSUME NEW b \in Boots, Begin(b) PROVE LoopInv'
  BY <1>6, BeginFacts DEF LoopInv, OnlyLogin, Resetting
<1> QED
  BY <1>1, <1>2, <1>3, <1>4, <1>5, <1>6, Steps

-----------------------------------------------------------------------------
(* The theorems.                                                           *)

SessionInv ==
  TypeOK /\ FlagInv /\ ServedInv /\ TokenInv /\ GateInv /\ EngineInv /\ LoopInv

LEMMA InitInv == Init => SessionInv
<1> SUFFICES ASSUME Init PROVE SessionInv
  OBVIOUS
<1>0. /\ Found \in Users /\ Users \subseteq Dirs /\ NULL \notin Users
  BY SessionAssumption DEF Dirs
<1>1. TypeOK
  <2>1. [at |-> "idle", dir |-> Pre] \in Client
    BY DEF Client, Phases, Dirs
  <2>2. TaskTypes /\ StateTypes
    BY <1>0, <2>1 DEF Init, TaskTypes, StateTypes, LoginPhases, LogoutPhases, Marked, Dirs
  <2> QED
    BY <2>2, TypeParts
<1>2. FlagInv /\ EngineInv
  BY DEF Init, FlagInv, EngineInv
<1>3. ServedInv /\ TokenInv
  BY <1>0 DEF Init, ServedInv, TokenInv, Boots
<1>4. GateInv /\ LoopInv
  <2>1. Signing = {} /\ Cutting = {}
    BY SessionAssumption DEF Init, Signing, Cutting, Boots
  <2>2. active = NULL => signedOut
    BY <1>0 DEF Init
  <2> QED
    BY <2>1, <2>2 DEF Init, GateInv, LoopInv, Resetting
<1> QED
  BY <1>1, <1>2, <1>3, <1>4 DEF SessionInv

LEMMA InvStep == SessionInv /\ [Next]_vars => SessionInv'
BY TypeStep, FlagStep, ServedStep, TokenStep, GateStep, EngineStep, LoopStep DEF SessionInv

THEOREM SessionInvariant == Spec => []SessionInv
BY InitInv, InvStep, PTL DEF Spec

\* The tasks of credentials/ops.rs and of the engine only reach the states TypeOK
\* names, whatever they overlap with.
THEOREM TypeCorrect == Spec => []TypeOK
<1>1. SessionInv => TypeOK
  BY DEF SessionInv
<1> QED
  BY <1>1, SessionInvariant, PTL

\* Once every sign-in and sign-out has returned, however they overlapped, the flag
\* BOOTSTRAPPED, the engine and the heartbeat handle agree with who is signed in
\* (global.rs:74); and at every moment an open gate means a user whose token is on
\* disk, although storing, removing and loading may fail (credentials/ops.rs:270,
\* 288), unless a sign-in that a sign-out overlapped opened it last.
THEOREM SettledCorrect == Spec => []SettledInv
<1>1. SessionInv => SettledInv
  <2> SUFFICES ASSUME SessionInv PROVE SettledInv
    OBVIOUS
  <2>1. Settled => Booting = {} /\ Resetting = {}
    BY DEF Settled, Booting, Resetting
  <2>2. HonestBootstrap
    BY <2>1 DEF SessionInv, FlagInv, HonestBootstrap, Booting
  <2>3. SignedInServed
    BY DEF SessionInv, ServedInv, SignedInServed, Settled
  <2>4. ASSUME Settled, marks \cap {"opened", "misfiled", "failed"} = {}, active # NULL
        PROVE  active \in jwt /\ ~signedOut
    BY <2>4 DEF SessionInv, TokenInv, Settled, Signing, Boots
  <2>5. ASSUME marks \cap {"opened", "misfiled"} = {}
        PROVE  /\ active = NULL => signedOut
               /\ "stray" \notin marks /\ ~signedOut => active \in jwt
    BY <2>5 DEF SessionInv, GateInv
  <2>6. GateFollowsSession
    BY <2>4, <2>5 DEF GateFollowsSession
  <2> QED
    BY <2>2, <2>3, <2>6 DEF SessionInv, SettledInv
<1> QED
  BY <1>1, SessionInvariant, PTL

\* A core that has settled works with the engine of the user who is signed in, unless
\* the configuration changed under the one who built it (global.rs:36).
THEOREM EngineCorrect == Spec => []EngineOfUser
<1>1. SessionInv => EngineOfUser
  BY DEF SessionInv, EngineInv, EngineOfUser, Settled
<1> QED
  BY <1>1, SessionInvariant, PTL

\* There is one heartbeat at most, and the handle of it is kept, unless the teardown
\* of a sign-out crossed a bootstrap (global.rs:113).
THEOREM HeartbeatCorrect == Spec => []OneHeartbeat
<1>1. SessionInv => OneHeartbeat
  BY DEF SessionInv, LoopInv, OneHeartbeat
<1> QED
  BY <1>1, SessionInvariant, PTL

\* Nobody changes the engine while somebody else ticks with it: construction and
\* reset both wait for the mutex (global.rs:136).
THEOREM HeldStill == Spec => EngineHeldStill
<1>1. TypeOK /\ [Next]_vars => [lock # NULL /\ lock' = lock => engine' = engine]_vars
  <2> SUFFICES ASSUME TypeOK, Next, lock # NULL PROVE engine' = engine
    OBVIOUS
  <2>1. ASSUME NEW b \in Boots, NEW u \in Users, Activate(b, u) PROVE engine' = engine
    BY <2>1, ActivateFacts
  <2>2. ASSUME NEW b \in Boots, LoginStep(b) PROVE engine' = engine
    BY <2>2, LoginFacts
  <2>3. ASSUME NEW o \in Outs, OutStep(o) PROVE engine' = engine
    BY <2>3, LogoutFacts
  <2>4. ASSUME NEW c \in Clients, ClientStep(c) PROVE engine' = engine
    BY <2>4 DEF ClientStep, InitStep, TickStep, Lookup, Build, Install, StartTick, AwaitGate,
                LeaveGate, EndTick
  <2>5. CASE UNCHANGED vars
    BY <2>5 DEF vars
  <2>6. ASSUME NEW b \in Boots, Begin(b) PROVE engine' = engine
    BY <2>6, BeginFacts
  <2> QED
    BY <2>1, <2>2, <2>3, <2>4, <2>5, <2>6, Steps
<1> QED
  BY <1>1, TypeCorrect, PTL DEF Spec, EngineHeldStill
=============================================================================
