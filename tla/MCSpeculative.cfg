SPECIFICATION FairSpec
CONSTANTS
    w1 = w1  w2 = w2  g = g
    Workers = {w1, w2}
    Depth = 2
    RoleOf <- TwoRoles
    Sessions = {g}
    Session = g
    Idle = Idle
    MaxSessions = 1
    MinBatch = 2
    Failures = {"forward"}
    PromptLength = 1
    MaxNewTokens = 4
    K = 2
    MaxRecoveries = 2
    FaultSets <- None
    MaxLosses = 1
    MaxLate = 2
    MaxOrphans = 0
CHECK_DEADLOCK FALSE
INVARIANTS TypeOK OutputIsGreedy DraftFollows
PROPERTIES GenerationEnds
