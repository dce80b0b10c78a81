SPECIFICATION Spec
CONSTANTS
    w1 = w1  w2 = w2  g = g
    Workers = {w1}
    Depth = 1
    RoleOf <- OneRole
    Sessions = {g}
    Session = g
    Idle = Idle
    MaxSessions = 1
    MinBatch = 2
    Failures = {"forward"}
    PromptLength = 1
    MaxNewTokens = 5
    K = 2
    MaxRecoveries = 2
    FaultSets <- None
    MaxLosses = 5
    MaxLate = 0
    MaxOrphans = 1
CHECK_DEADLOCK FALSE
INVARIANTS OutputIsGreedy
