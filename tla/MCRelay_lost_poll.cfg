\* A poll that is cancelled while it awaits its getters.
SPECIFICATION FleetSpec
CONSTANTS
    w1 = w1  w2 = w2  w3 = w3  s1 = s1  a = a  b = b
    Workers = {w1, w2}
    Roles = {a}
    Sessions = {}
    MayServe <- AllOneRole
    Requests <- NoChain
    MaxTasks = 1
    MaxSubmits = 1
    BatchSizes <- One
    NoWorker = NoWorker  NoRole = NoRole  NoSession = NoSession  NoTask = NoTask
INVARIANT
    PendingIsQueued
SYMMETRY Replicas
VIEW Live
