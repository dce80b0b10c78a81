\* Two replicas, a call of a session, a routed one, and one with the wrong key.
SPECIFICATION FairSpec
CONSTANTS
    w1 = w1  w2 = w2  s1 = s1  a = a  c1 = c1  c2 = c2  c3 = c3  c4 = c4
    Workers = {w1, w2}
    Roles = {a}
    Sessions = {s1}
    MayServe <- AllOneRole
    MaxTasks = 4
    MaxSubmits = 2
    BatchSizes <- Batch
    NoWorker = NoWorker  NoRole = NoRole  NoSession = NoSession  NoTask = NoTask
    Calls = {c1, c2, c3, c4}
    RequestOf <- Routes
    Closing = {c2}
    Unreadable = {c4}
    Stable = {w2}
    Batched = {w2}
    Workloads <- AloneOrBatch
    NoCall = NoCall
INVARIANTS
    TypeOK
    OwnAnswers
    FailedForCause
PROPERTIES
    NoSessionStolen
    EveryCallEnds
    WorkersRejoin
    GhostsVanish
CHECK_DEADLOCK FALSE
