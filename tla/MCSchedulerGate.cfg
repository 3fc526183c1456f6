\* Two callers, five measurements, four settings.
CONSTANTS
  c1 = c1
  c2 = c2
  NoReading = NoReading
  Callers = {c1, c2}
  AllSignals <- SomeSignals
  AllConfigs <- SomeConfigs
  Slots = 1
SPECIFICATION FairSpec
INVARIANTS
  GateInv
  PolicySound
  StandDown
PROPERTIES
  CallersResume
