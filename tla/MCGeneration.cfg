SPECIFICATION FairSpec
CONSTANTS
    w1 = w1  w2 = w2  w3 = w3   g = g
    Workers = {w1, w2, w3}
    Depth = 2
    RoleOf <- TwoRoles
    Sessions = {g}
    Session = g
    Idle = Idle
    MaxSessions = 1
    MinBatch = 2
    Failures = {"forward"}
    PromptLength = 1
    MaxNewTokens = 2
    MaxRecoveries = 1
    FaultSets <- OneOrNone
    MaxLosses = 3
    MaxLate = 1
    MaxOrphans = 1
CHECK_DEADLOCK FALSE
INVARIANTS TypeOK OutputIsGreedy ErrorsHaveCauses
PROPERTIES GenerationEnds
