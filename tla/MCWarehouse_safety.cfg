SPECIFICATION WarehouseSpec
CONSTANTS
  r1 = r1
  r2 = r2
  r3 = r3
  h1 = h1
  p1 = p1
  p2 = p2
  Undecodable = {}
  Historical = {h1}
  Products = {p1, p2}
  ProductOf <- MCProductOf
  Merged = {r1, r2, r3}
  MaxFaults <- OneDriverFailure
  MaxRuns = 1
  Ordered = FALSE
  MaxJobs = 2
INVARIANTS
  WarehouseTypeOK
  FactsHaveDimensions
  CompletedIsSnapshot
CHECK_DEADLOCK FALSE
