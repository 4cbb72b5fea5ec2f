SPECIFICATION FairSpec
CONSTANTS
  c1 = c1  p1 = p1  p2 = p2  s1 = s1  s2 = s2  a = a  b = b
  Stubs = {s1, s2}
  Consumers = {c1}
  Providers = {p1, p2}
  ConsumerOf <- OneConsumer
  ProviderOf <- TwoProviders
  Procs = {a}
  Commands = {"verify", "sync", "resume", "resolve", "abandon", "pr"}
  MaxRounds = 2
  Manual = FALSE
  Gitea = TRUE
  MaxFaults = 1
PROPERTIES
  PromotedWhenClosed
  MergeIsTaken
