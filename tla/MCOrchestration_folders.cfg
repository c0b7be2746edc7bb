SPECIFICATION Spec
CONSTANTS
  Deployed = TRUE
  Leftover = {}
  Lines = 2
  BackoffLimit = 1
  MaxDagRuns = 1
  MaxPolls = 1
  Editable = {}
  MaxEvents <- OneRun
INVARIANTS
  InputsExist
CHECK_DEADLOCK FALSE
