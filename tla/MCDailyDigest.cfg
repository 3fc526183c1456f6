\* Two workers, two days and a third request, two faults of any kind.
\* The tree comes to rest once no digest is asked for any more.
CONSTANTS
  d1 = d1
  d2 = d2
  i1 = i1
  i2 = i2
  i3 = i3
  i4 = i4
  i5 = i5
  i6 = i6
  w1 = w1
  w2 = w2
  NULL = NULL
  Days = {d1, d2}
  Ids = {i1, i2, i3, i4, i5, i6}
  Threshold <- SmallThresholds
  Workers = {w1, w2}
  MaxAttempts = 2
  FaultKinds = {"error", "busy", "crash"}
  MaxFaults = 2
  MaxTriggers = 3
SPECIFICATION FairSpec
INVARIANTS
  DigestInv
  PeriodsDisjoint
PROPERTIES
  ImplementsRollup
  DayDigested
CHECK_DEADLOCK FALSE
