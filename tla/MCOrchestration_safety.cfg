SPECIFICATION FairSpec
CONSTANTS
  Deployed = FALSE
  Leftover <- FormerMerge
  Lines = 2
  BackoffLimit = 1
  MaxDagRuns = 2
  MaxPolls = 1
  Editable <- Edited
  MaxEvents <- Events
INVARIANTS
  OrchestrationTypeOK
  InputsWritten
  StreamingFindsSchema
  OneVersionRead
  IngestedInOrder
PROPERTIES
  EveryDagRunEnds
CHECK_DEADLOCK FALSE
