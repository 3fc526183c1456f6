\* One task and a model that may fail.
CONSTANTS
  t1 = t1
  t2 = t2
  NULL = NULL
  Tasks = {t1}
  Kinds = {"once", "pending"}
  Interval = 1
  MaxClock = 1
  MaxVerdicts = 2
  MaxUpsets = 1
SPECIFICATION Spec
INVARIANTS
  FailedWindowKept
