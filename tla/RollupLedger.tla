---------------------------- MODULE RollupLedger ----------------------------
(***************************************************************************)
(* What bucket sealing promises for every tree: an item arrives at a level *)
(* once, waits there until it is rolled up, and is rolled up once, with    *)
(* every other item that goes into the same summary, which itself arrives  *)
(* one level above.  Two things are not promised: entries that are caught  *)
(* by a roll-up under way may vanish with it or be taken up by the next    *)
(* one all the same, and what is brought again may arrive again.           *)
(***************************************************************************)
EXTENDS Integers

VARIABLES
  waiting,   \* entries [tree, level, item] not rolled up yet
  rolled,    \* entries rolled up into a summary
  caught,    \* entries that arrived or were read while their level was being
             \* rolled up
  again      \* items that are brought again

ledger == <<waiting, rolled>>

RollupInit == waiting = {} /\ rolled = {}

\* An entry arrives; it was never there before, or its item is brought again.
Arrive ==
  \E entry \in waiting' :
    /\ entry \notin waiting \cup rolled \/ entry.item \in again
    /\ waiting' = waiting \cup {entry}
    /\ rolled' = rolled

\* A group of one tree and level is rolled up into one new entry; what goes without
\* being rolled up, or is rolled up when it has gone, was caught.
RollUp ==
  \E group \in {waiting \ waiting'} : \E read \in SUBSET (group \cup caught) :
    /\ read # {} /\ group \ read \subseteq caught
    /\ rolled' = rolled \cup read
    /\ \E new \in waiting' :
         /\ new \notin waiting \cup rolled
         /\ waiting' = (waiting \ group) \cup {new}
         /\ \A entry \in group \cup read :
              entry.tree = new.tree /\ entry.level + 1 = new.level

RollupSpec == RollupInit /\ [][Arrive \/ RollUp]_ledger
=============================================================================
