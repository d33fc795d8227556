CONSTANTS
  MaxTask = 1
  MaxRun = 3
  Permits = {p1, p2}
  Writes = 2
  KeptRuns = 1
  Suspends = TRUE
  p1 = p1
  p2 = p2
SPECIFICATION Spec
INVARIANTS
  NeverOverlaps
