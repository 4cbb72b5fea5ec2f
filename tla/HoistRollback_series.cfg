SPECIFICATION Spec
CONSTANTS
  Contracts <- OneContract
  Repos = {"lib", "app", "site"}
  Owner <- Both
  Consumers <- Sharing
  Downstream <- Below
  Stubbed = {"app"}
  Verified = {"app"}
  Builds = {b1}
  MaxFaults = 1
PROPERTIES
  TriedIsCommitted
  StrandedIsRebuilt
  RollbackCompletes
