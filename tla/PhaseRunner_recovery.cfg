SPECIFICATION FairSpec
CONSTANTS
  r1 = r1
  r2 = r2
  Repos = {r1}
  Procs = {p1, p2}
  Edges = {}
  WaveOf <- OneWave
  Phases = {2}
  Published = {r1}
  StubFlags = {FALSE}
  WaveFlags = {0}
  MaxAttempts = 2
  MaxTransient = 1
  MaxFaults = 1
  MaxOps = 0
  MaxWave = 1
INVARIANTS
  OneFenceHolder
  LadderBounded
PROPERTIES
  ChargedByHolder
  NoRowStranded
  EverybodySettles
