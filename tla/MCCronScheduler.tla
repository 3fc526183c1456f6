------------------------- MODULE MCCronScheduler -------------------------
(* Instances of CronScheduler for TLC. *)
EXTENDS CronScheduler, TLC

CONSTANTS j1, j2, e1

At(t)    == [kind |-> "at", t |-> t]
Every(t) == [kind |-> "every", t |-> t]
Cron(t)  == [kind |-> "cron", t |-> t]

\* An agent job at an instant, deleted after its run or kept, and a recurring shell
\* job that an edit may turn into a kept "at".
MixedTypes     == j1 :> "agent" @@ j2 :> "shell"
MixedSchedules == j1 :> At(1) @@ j2 :> Every(1)
Edited         == {Cron(2), At(2)}
=============================================================================
