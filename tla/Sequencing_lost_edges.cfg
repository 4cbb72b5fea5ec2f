SPECIFICATION Spec
CHECK_DEADLOCK FALSE
CONSTANTS
  None = None
  Repos <- AllRepos
  Worlds <- HubWorld
  Fleets <- WholeFleet
  MaxHoists = 2
  MaxBreaks = 1
  Threshold = 3
  HardMax = 2
  MinConsumers = 2
  Cuts = {2, 4}
  MaxScans = 2
  MaxFaults = 1
  MaxSequences = 0
INVARIANTS
  EvidenceKept
