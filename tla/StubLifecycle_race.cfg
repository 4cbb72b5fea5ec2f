SPECIFICATION Spec
CONSTANTS
  c1 = c1  p1 = p1  p2 = p2  s1 = s1  s2 = s2  a = a  b = b
  Stubs = {s1, s2}
  Consumers = {c1}
  Providers = {p1}
  ConsumerOf <- OneConsumer
  ProviderOf <- OneProvider
  Procs = {a, b}
  Commands = {"verify", "sync", "resume", "abandon", "pr"}
  MaxRounds = 2
  Manual = FALSE
  Gitea = FALSE
  MaxFaults = 1
SYMMETRY ProcSymmetry
INVARIANTS
  SupersededIsQueued
  OneRoundPerTask
PROPERTIES
  TerminalIsFinal
  AwaitingIsSpared
