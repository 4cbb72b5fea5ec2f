SPECIFICATION FairSpec
CONSTANTS
  Procs = {p1, p2}
  Repos = {r1}
  Calls = {c1, c2}
  Estimates = {1, 2}
  Actuals = {2}
  RunMax = 2
  RaisedMax = 4
  RepoMax = 3
  WaveMax = 2
  MaxCalls = 2
  MaxPolls = 1
  MaxFaults = 1
  MaxOps = 1
INVARIANTS
  Accounting
  CeilingsHold
PROPERTIES
  CallsEnd
  HoldsReturn
