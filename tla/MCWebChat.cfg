SPECIFICATION Spec
CONSTANTS
  Requests = {r1, r2}
  Clients = {c1}
  Threads = {t1}
  NULL = NULL
  MaxUpsets = 1
INVARIANTS
  InFlightInv
  NoStaleSession
  SnapshotInv
PROPERTIES
  EveryTurnAnswered
CHECK_DEADLOCK FALSE
