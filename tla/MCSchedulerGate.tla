-------------------------- MODULE MCSchedulerGate --------------------------
(* Instances of SchedulerGate for TLC. *)
EXTENDS SchedulerGate, TLC

CONSTANTS c1, c2

Desktop(ac, charge, cpu) == [on_ac |-> ac, charge |-> charge, cpu |-> cpu, server |-> FALSE]

\* Idle on mains, low on battery, busy and low, pegged, pegged and low.
SomeSignals == {Desktop(TRUE, 90, 5), Desktop(FALSE, 30, 5), Desktop(FALSE, 30, 80),
                Desktop(TRUE, 90, 99), Desktop(FALSE, 30, 99)}

Auto(floor, severe, ac) ==
  [mode |-> "auto", battery_floor |-> floor, busy |-> 70, severe |-> severe, require_ac |-> ac]

\* The defaults, mains only with a floor out of range, switched off, always on.
SomeConfigs == {Auto(80, 95, FALSE), Auto(150, 95, TRUE)}
               \cup {[Auto(80, 95, FALSE) EXCEPT !.mode = m] : m \in {"off", "always_on"}}
=============================================================================
