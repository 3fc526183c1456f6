------------------------------ MODULE JobLedger ------------------------------
(***************************************************************************)
(* What the job queue promises its producers, whatever its workers,        *)
(* retries, crashes and restarts do: a submitted job stays open until it   *)
(* is settled, it is settled once and for all, and while a job is open no  *)
(* second job with its dedupe key is accepted (the module comment of       *)
(* memory/tree/jobs/store.rs, "Concurrency").                              *)
(***************************************************************************)
CONSTANTS Ids, DedupeKeys

VARIABLES
  open,     \* jobs submitted and not settled
  settled   \* jobs done or failed

ledger == <<open, settled>>

Ticket == [id : Ids, key : DedupeKeys]

TypeInvariant == open \subseteq Ticket /\ settled \subseteq Ticket

LedgerInit == open = {} /\ settled = {}

Submit(ticket) ==
  /\ \A t \in open : t.key # ticket.key
  /\ \A t \in open \cup settled : t.id # ticket.id
  /\ open' = open \cup {ticket}
  /\ UNCHANGED settled

Finish(ticket) ==
  /\ ticket \in open
  /\ open' = open \ {ticket}
  /\ settled' = settled \cup {ticket}

LedgerNext == \E ticket \in Ticket : Submit(ticket) \/ Finish(ticket)

LedgerSpec == LedgerInit /\ [][LedgerNext]_ledger
=============================================================================
