SPECIFICATION Spec
CONSTANTS
    c1 = c1
    c2 = c2
    Callers = {c1, c2}
    Routes <- MCRoutes
    replica_index <- MCReplica
    Scopes = {"first"}
    MaxTargets = 3
    OpenAfter = 1
    MaxRateRetries = 1
    MaxRepairs = 0
    MaxTruncations = 1
    Requested = 2
    InputTokens = 1
    Budget <- MCBudget
    MaxCalls = 3
INVARIANTS
    ProbeHeld
    AnswerIsItsOwn
    OutageFailsOver
    TokensWithinBudget
PROPERTIES
    CallsReturn
CHECK_DEADLOCK FALSE
