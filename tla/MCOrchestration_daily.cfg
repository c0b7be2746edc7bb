SPECIFICATION Spec
CONSTANTS
  Deployed = FALSE
  Leftover <- FormerMerge
  Lines = 2
  BackoffLimit = 1
  MaxDagRuns = 2
  MaxPolls = 1
  Editable = {}
  MaxEvents <- TwoBatchRuns
INVARIANTS
  EveryRunExecutes
CHECK_DEADLOCK FALSE
