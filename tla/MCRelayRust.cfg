\* Two replicas, and a chain whose second step stays queued.
SPECIFICATION Spec
CONSTANTS
    w1 = w1  w2 = w2  s1 = s1  a = a  b = b
    Workers = {w1, w2}
    Roles = {a, b}
    Sessions = {s1}
    MayServe <- AllOneRole
    Requests <- Chain
    MaxTasks = 2
    MaxSubmits = 1
    BatchSizes <- One
    NoWorker = NoWorker  NoRole = NoRole  NoSession = NoSession  NoTask = NoTask
INVARIANTS TypeOK OwnPushWakes PendingIsQueued
PROPERTIES FailureFromAssignee
SYMMETRY Replicas
VIEW Live
