\* Two processes on one file, one worker each; leases expire, jobs are
\* deferred, retried and recovered.
CONSTANTS
  r1 = r1
  r2 = r2
  seal = seal
  extract = extract
  app = app
  tool = tool
  w1 = w1
  w2 = w2
  NULL = NULL
  RowIds = {r1, r2}
  Keys = {seal, extract}
  Priority <- PriorityDef
  MaxAttempts = 2
  LockDuration = 1
  RetryBase = 1
  RetryCap = 2
  Procs = {app, tool}
  Cores = {app}
  Workers = {w1, w2}
  Home <- HomeTwo
  DeferDelays = {0, 1}
  FaultKinds = {"crash", "busy", "panic"}
  MaxFaults = 1
  MaxStarts = 3
  MaxTime = 4
  DeferHorizon = 4
SPECIFICATION Spec
SYMMETRY RowSymmetry
INVARIANTS
  LeaseSafe
  AttemptBudget
PROPERTIES
  ImplementsLedger
CHECK_DEADLOCK FALSE
