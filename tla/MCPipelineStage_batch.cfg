SPECIFICATION Spec
CONSTANTS
    s1 = s1  s2 = s2  s3 = s3
    Sessions = {s1, s2, s3}
    MaxSessions = 2
    MinBatch = 2
    Failures = {}
    MaxLength = 3
    MaxNew = 2
    MaxPolled = 3
SYMMETRY SessionSymmetry
CHECK_DEADLOCK TRUE
INVARIANTS MissIsAnswered
