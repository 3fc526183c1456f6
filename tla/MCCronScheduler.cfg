\* A one-shot reminder and a recurring command, one edit, one fault.
\* Nothing is left to do when the jobs are gone and the clock has stopped.
CONSTANTS
  j1 = j1
  j2 = j2
  e1 = e1
  NULL = NULL
  Jobs = {j1, j2}
  JobType <- MixedTypes
  AddedAs <- MixedSchedules
  NewSchedules <- Edited
  Editors = {e1}
  MaxTasks = 2
  MaxConcurrent = 1
  MaxTime = 2
  MaxEdits = 1
  MaxFaults = 1
SPECIFICATION FairSpec
INVARIANTS
  PauseSafe
  RunsAccounted
PROPERTIES
  DueJobsRun
CHECK_DEADLOCK FALSE
