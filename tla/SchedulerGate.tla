--------------------------- MODULE SchedulerGate ---------------------------
(***************************************************************************)
(* The process-wide gate in front of background model calls                *)
(* (scheduler_gate/gate.rs and policy.rs): a sampler and the settings keep *)
(* a policy up to date, the credentials lifecycle switches everything off, *)
(* and callers of wait_for_capacity poll, back off and queue for the one   *)
(* permit.  Callers are the memory workers, triage and the local models;   *)
(* a worker with a cloud backend releases the permit as soon as it has     *)
(* claimed a job, any other caller when its model call is over.            *)
(*                                                                         *)
(* Times are left out: a poll or a backoff may end at any moment.          *)
(***************************************************************************)
EXTENDS Integers, FiniteSets, Sequences, SequencesExt

CONSTANTS
  Callers,     \* tasks that call wait_for_capacity
  AllSignals,  \* what the sampler may measure
  AllConfigs,  \* scheduler_gate settings the user may choose
  Slots,       \* LLM_SLOTS
  NoReading    \* no battery, no measurement

Percent == 0..100

\* Signals and SchedulerGateConfig; battery and CPU in percent.  Settings come
\* unchecked from config.toml.
Signals == [on_ac : BOOLEAN, charge : Percent \cup {NoReading}, cpu : Percent, server : BOOLEAN]

Config == [mode : {"off", "always_on", "auto"}, battery_floor : Int, busy : Int,
           severe : Int, require_ac : BOOLEAN]

ASSUME SchedulerGateAssumption ==
  /\ AllSignals \subseteq Signals /\ AllSignals # {}
  /\ AllConfigs \subseteq Config /\ AllConfigs # {}
  /\ IsFiniteSet(Callers)
  /\ Slots \in Nat \ {0}
  /\ NoReading \notin AllSignals

-----------------------------------------------------------------------------
(* policy.rs *)

Clamp(x) == IF x < 0 THEN 0 ELSE IF x > 100 THEN 100 ELSE x

BatteryOk(s, c) == s.on_ac \/ s.charge = NoReading \/ s.charge >= Clamp(c.battery_floor)

CpuOk(s, c) == s.cpu <= Clamp(c.busy)

Decide(s, c) ==
  CASE c.mode = "off"                                -> "paused"
    [] c.mode = "always_on"                          -> "aggressive"
    [] c.mode = "auto" /\ s.server                   -> "aggressive"
    [] c.mode = "auto" /\ ~s.server ->
         IF (c.require_ac /\ ~s.on_ac) \/ s.cpu >= Clamp(c.severe) THEN "paused"
         ELSE IF BatteryOk(s, c) /\ CpuOk(s, c) THEN "normal" ELSE "throttled"

-----------------------------------------------------------------------------

VARIABLES
  config,      \* State.cfg
  signals,     \* State.signals
  policy,      \* State.policy
  signed_out,  \* SIGNED_OUT
  sample,      \* what the sampler has measured and not yet stored
  at,          \* at[c]: where the caller is in wait_for_capacity
  line,        \* waiters of the semaphore, first come first served
  leaked       \* leaked[c]: permits got since the session went away

state    == <<config, signals, policy>>
gateVars == <<state, signed_out, sample, at, line, leaked>>

GateTypeOK ==
  /\ config \in AllConfigs
  /\ signals \in AllSignals
  /\ policy \in {"aggressive", "normal", "throttled", "paused"}
  /\ signed_out \in BOOLEAN
  /\ sample \in AllSignals \cup {NoReading}
  /\ at \in [Callers -> {"idle", "check", "signed_in", "pause", "backoff", "line", "call"}]
  /\ line \in Seq(Callers) /\ Len(line) <= Cardinality(Callers)
  /\ leaked \in [Callers -> Nat]

GateInit ==
  /\ config \in AllConfigs
  /\ signals \in AllSignals
  /\ policy = Decide(signals, config)
  /\ signed_out \in BOOLEAN
  /\ sample = NoReading
  /\ at = [c \in Callers |-> "idle"]
  /\ line = <<>>
  /\ leaked = [c \in Callers |-> 0]

-----------------------------------------------------------------------------
(* Writers of the policy.  The sampler measures without the lock and       *)
(* decides under it, with the settings of that moment.                     *)

Measure(s) ==
  /\ sample = NoReading
  /\ sample' = s
  /\ UNCHANGED <<state, signed_out, at, line, leaked>>

\* Mutant: the sampler stores what it measured and keeps the policy.
PolicyAfterSample_Kept(s) == policy

PolicyAfterSample(s) == Decide(s, config)

StoreSample ==
  /\ sample # NoReading
  /\ signals' = sample
  /\ policy' = PolicyAfterSample(sample)
  /\ sample' = NoReading
  /\ UNCHANGED <<config, signed_out, at, line, leaked>>

UpdateConfig(c) ==
  /\ c # config
  /\ config' = c
  /\ policy' = Decide(signals, c)
  /\ UNCHANGED <<signals, signed_out, sample, at, line, leaked>>

\* set_signed_out, from clear_session, a 401 and store_session.
SignOut ==
  /\ ~signed_out
  /\ signed_out' = TRUE
  /\ leaked' = [c \in Callers |-> 0]
  /\ UNCHANGED <<state, sample, at, line>>

SignIn ==
  /\ signed_out
  /\ signed_out' = FALSE
  /\ UNCHANGED <<state, sample, at, line, leaked>>

-----------------------------------------------------------------------------
(* wait_for_capacity.  The session is looked up before the policy is read; *)
(* nothing is looked up again while the caller stands in line.             *)

Goto(c, place) == at' = [at EXCEPT ![c] = place]

Ask(c) ==
  /\ at[c] = "idle"
  /\ Goto(c, "check")
  /\ UNCHANGED <<state, signed_out, sample, line, leaked>>

\* Mutant: the session is not looked up.
MayProceed_Always == TRUE

MayProceed == ~signed_out

CheckSession(c) ==
  /\ at[c] = "check"
  /\ Goto(c, IF MayProceed THEN "signed_in" ELSE "pause")
  /\ UNCHANGED <<state, signed_out, sample, line, leaked>>

ReadPolicy(c) ==
  /\ at[c] = "signed_in"
  /\ CASE policy = "paused"    -> Goto(c, "pause") /\ UNCHANGED line
       [] policy = "throttled" -> Goto(c, "backoff") /\ UNCHANGED line
       [] OTHER                -> Goto(c, "line") /\ line' = Append(line, c)
  /\ UNCHANGED <<state, signed_out, sample, leaked>>

PollAgain(c) ==
  /\ at[c] = "pause"
  /\ Goto(c, "check")
  /\ UNCHANGED <<state, signed_out, sample, line, leaked>>

\* Mutant: after the backoff the caller starts over.
BackoffEnds_StartsOver(c) ==
  /\ at[c] = "backoff"
  /\ Goto(c, "check")
  /\ UNCHANGED <<state, signed_out, sample, line, leaked>>

BackoffEnds(c) ==
  /\ at[c] = "backoff"
  /\ Goto(c, "line")
  /\ line' = Append(line, c)
  /\ UNCHANGED <<state, signed_out, sample, leaked>>

OnCall == {c \in Callers : at[c] = "call"}

\* Mutant: one permit too many.
FreeSlots_OneMore == Slots + 1 - Cardinality(OnCall)

FreeSlots == Slots - Cardinality(OnCall)

Granted(c) ==
  /\ line # <<>> /\ Head(line) = c
  /\ FreeSlots > 0
  /\ Goto(c, "call")
  /\ line' = Tail(line)
  /\ leaked' = IF signed_out THEN [leaked EXCEPT ![c] = @ + 1] ELSE leaked
  /\ UNCHANGED <<state, signed_out, sample>>

Release(c) ==
  /\ at[c] = "call"
  /\ Goto(c, "idle")
  /\ UNCHANGED <<state, signed_out, sample, line, leaked>>

Step(c) == CheckSession(c) \/ ReadPolicy(c) \/ PollAgain(c) \/ BackoffEnds(c) \/ Granted(c)

GateNext ==
  \/ \E s \in AllSignals : Measure(s)
  \/ StoreSample
  \/ \E c \in AllConfigs : UpdateConfig(c)
  \/ SignOut \/ SignIn
  \/ \E c \in Callers : Ask(c) \/ Step(c) \/ Release(c)

GateSpec == GateInit /\ [][GateNext]_gateVars

\* Fairness: timers fire, the semaphore serves its line, model calls return
\* (they have timeouts).  Nobody has to ask, measure or sign in.
FairSpec == GateSpec /\ \A c \in Callers : WF_gateVars(Step(c)) /\ WF_gateVars(Release(c))

-----------------------------------------------------------------------------
(* Properties *)

LineMatches ==
  /\ ToSet(line) = {c \in Callers : at[c] = "line"}
  /\ IsInjective(line)

\* At most one model call at a time, whatever the policy was when each caller
\* passed it (gate.rs: "Process-wide ceiling on concurrent LLM-bound work");
\* the callers that stand in line are those the semaphore knows.
SingleSlot == Cardinality(OnCall) <= Slots /\ LineMatches

\* The gate's books and its permit: callers are where the semaphore thinks they
\* are, and one of them at most is in its model call.
GateInv == GateTypeOK /\ SingleSlot

\* The policy is never out of date with the signals and settings next to it,
\* although the sampler measures without the lock.
PolicyCurrent == policy = Decide(signals, config)

\* Once the session is gone a caller starts at most the one call it had already
\* passed the check for, and then stands down (gate.rs: "the kill switch").
StandDown == signed_out => \A c \in Callers : leaked[c] <= 1

\* The policy never gets stricter as the host gets better off: on mains, with a
\* fuller battery or an idler CPU.
Strictness(p) ==
  CASE p = "aggressive" -> 0 [] p = "normal" -> 1 [] p = "throttled" -> 2 [] OTHER -> 3

BetterOff(s, r) ==
  /\ s.server = r.server
  /\ r.on_ac => s.on_ac
  /\ s.charge # NoReading /\ r.charge # NoReading /\ s.charge >= r.charge
  /\ s.cpu <= r.cpu

PolicyMonotone ==
  \A s, r \in AllSignals :
    BetterOff(s, r) => Strictness(Decide(s, config)) <= Strictness(Decide(r, config))

\* The policy in force is the decision on the signals and settings in force, and
\* a decision that never punishes a host for being better off (policy.rs:82).
PolicySound == PolicyCurrent /\ PolicyMonotone

\* Liveness: once the session is back and the policy no longer pauses, every
\* caller that asks gets its permit ("workers naturally resume").
Open == ~signed_out /\ policy # "paused"

CallersResume ==
  \A c \in Callers : <>[]Open => (at[c] \notin {"idle", "call"} ~> at[c] = "call")
=============================================================================
