\* One core that crashes once and is relaunched after the locks have run out.
CONSTANTS
  r1 = r1
  r2 = r2
  seal = seal
  extract = extract
  app = app
  tool = tool
  w1 = w1
  w2 = w2
  NULL = NULL
  RowIds = {r1, r2}
  Keys = {seal, extract}
  Priority <- PriorityDef
  MaxAttempts = 2
  LockDuration = 1
  RetryBase = 1
  RetryCap = 1
  Procs = {app}
  Cores = {app}
  Workers = {w1}
  Home <- HomeSolo
  DeferDelays = {1}
  FaultKinds = {"crash"}
  MaxFaults = 1
  MaxStarts = 2
  MaxTime = 30
  DeferHorizon = 2
SPECIFICATION PatientSpec
PROPERTIES
  EveryJobSettles
  OrphansRequeued
CHECK_DEADLOCK FALSE
