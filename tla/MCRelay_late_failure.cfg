\* A failure checked before the task went to another worker.
SPECIFICATION FleetSpec
CONSTANTS
    w1 = w1  w2 = w2  w3 = w3  s1 = s1  a = a  b = b
    Workers = {w1, w2}
    Roles = {a}
    Sessions = {}
    MayServe <- AllOneRole
    Requests <- NoChain
    MaxTasks = 1
    MaxSubmits = 1
    BatchSizes <- One
    NoWorker = NoWorker  NoRole = NoRole  NoSession = NoSession  NoTask = NoTask
PROPERTY
    FailureFromAssignee
SYMMETRY Replicas
VIEW Live
