SPECIFICATION FairSpec
CONSTANTS
  r1 = r1
  r2 = r2
  r3 = r3
  r4 = r4
  h1 = h1
  h2 = h2
  Merged = {r1, r2, r3, r4}
  Undecodable = {r4}
  Historical = {h1, h2}
  MaxFaults <- TwoOfEach
  MaxRuns = 2
INVARIANTS
  TypeOK
  StreamingComplete
  CopiesNeedFailures
  RefinedFollowsStreaming
  RefinedGapsExplained
  NothingPastUndecodable
PROPERTIES
  CommittedIsFinal
  EveryRecordStored
  StreamingCopiesTopic
CHECK_DEADLOCK FALSE
