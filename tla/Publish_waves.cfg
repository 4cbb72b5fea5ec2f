SPECIFICATION Spec
CONSTANTS
  r1 = r1
  r2 = r2
  k1 = k1
  Repos <- TwoRepos
  Contracts <- OneContract
  Owner <- OwnedByFirst
  MaxAttempts = 2
  MaxFaults = 2
  MaxRuns = 2
INVARIANTS
  OneMergePerSource
  ContractKept
  PublishedUnlessFaulted
  WaveSeesPublished
  DomainIsMerged
  OnlyGreenSucceeds
CHECK_DEADLOCK FALSE
