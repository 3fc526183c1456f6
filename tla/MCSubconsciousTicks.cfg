\* Two tasks, one-off or unclassified at first, answers with up to two verdicts, one
\* edit, removal, abort or failed write, and two heartbeats.
CONSTANTS
  t1 = t1
  t2 = t2
  NULL = NULL
  Tasks = {t1, t2}
  Kinds = {"once", "pending"}
  Interval = 1
  MaxClock = 1
  MaxVerdicts = 2
  MaxUpsets = 1
SPECIFICATION Spec
INVARIANTS
  
  OnceDone
PROPERTIES
  EditsStand
  WaitingJudged
