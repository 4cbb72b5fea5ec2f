SPECIFICATION Spec
CONSTANTS
  r1 = r1
  r2 = r2
  Repos = {r1, r2}
  Procs = {p1}
  Edges <- ChainEdges
  WaveOf <- ChainWaves
  Phases = {2, 4}
  Published = {r1}
  StubFlags = {FALSE, TRUE}
  WaveFlags = {}
  MaxAttempts = 1
  MaxTransient = 0
  MaxFaults = 1
  MaxOps = 1
  MaxWave = 2
INVARIANTS
  LadderBounded
  BlockedByDependencies
PROPERTIES
  VerdictIsFinal
  SweepShelters
