SPECIFICATION FairSpec
CONSTANTS
  r1 = r1
  r2 = r2
  r3 = r3
  r4 = r4
  h1 = h1
  h2 = h2
  Merged = {r1, r2, r3}
  Undecodable = {}
  Historical = {h1, h2}
  MaxFaults <- NoFaults
  MaxRuns = 1
INVARIANTS
  StoredAlongside
CHECK_DEADLOCK FALSE
