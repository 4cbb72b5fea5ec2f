SPECIFICATION FairSpec
CONSTANTS
  Repos = {}
  MaxAttempts = 2
  NSources = 1
  Targets <- First
  Stubbed = TRUE
  MaxFaults = 1
  MaxLosses = 1
INVARIANTS
  OneCommitPerUnit
PROPERTIES
  LandsEverything
  GreenWorkKept
  FloorIsSound
  ComesToRest
