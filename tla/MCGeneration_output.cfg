SPECIFICATION Spec
CONSTANTS
    w1 = w1  w2 = w2  w3 = w3   g = g
    Workers = {w1, w2}
    Depth = 1
    RoleOf <- OneRole
    Sessions = {g}
    Session = g
    Idle = Idle
    MaxSessions = 1
    MinBatch = 2
    Failures = {"forward", "output"}
    PromptLength = 1
    MaxNewTokens = 3
    MaxRecoveries = 2
    FaultSets <- None
    MaxLosses = 5
    MaxLate = 2
    MaxOrphans = 0
CHECK_DEADLOCK FALSE
INVARIANTS OutputIsGreedy
