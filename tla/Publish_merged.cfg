SPECIFICATION Spec
CONSTANTS
  r1 = r1
  r2 = r2
  k1 = k1
  Repos <- TwoRepos
  Contracts <- OneContract
  Owner <- OwnedByFirst
  MaxAttempts = 2
  MaxFaults = 1
  MaxRuns = 2
INVARIANT PublishedIsMerged
CHECK_DEADLOCK FALSE
