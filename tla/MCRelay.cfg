\* Replicas of one role with a session, or a chain of three steps over two roles.
SPECIFICATION FleetSpec
CONSTANTS
    w1 = w1  w2 = w2  w3 = w3  s1 = s1  a = a  b = b
    Workers = {w1, w2, w3}
    Roles = {a, b}
    Sessions = {s1}
    MayServe <- OneRoleEach
    Requests <- SessionOrChain
    MaxTasks = 3
    MaxSubmits = 2
    BatchSizes <- Two
    NoWorker = NoWorker  NoRole = NoRole  NoSession = NoSession  NoTask = NoTask
INVARIANTS
    TypeOK
    QueuedOnce
    AssignedNotQueued
    NoTaskStranded
    ChainAlive
    RouteFollowed
    EndReachesRoot
    OneLiveStep
PROPERTIES
    PendingStaysQueued
    ResultFromAssignee
    ImplementsTaskService
SYMMETRY Replicas
VIEW Live
