SPECIFICATION Spec
CONSTANTS
  Users = {u1, u2}
  Pre = Pre
  Logins = {l1}
  Startup = s
  Found = u1
  Logouts = {}
  Expiries = {e1}
  Calls = {c1}
  NULL = NULL
INVARIANTS
  SettledInv
  EngineOfUser
  OneHeartbeat
PROPERTIES
  EngineLockSound
CHECK_DEADLOCK FALSE
