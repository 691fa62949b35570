CONSTANTS
    Ops = {o1, o2, o3, o4}
    Signalled = {o1, o2, o3}
    Capacity = 1
    MaxQueued = 2
    NoOp = NoOp
    Shared = {h1}
    Sockets = {s1, s2, s3}
    NoSocket = NoSocket
    MaxActive = 1
    MaxConnections = 2
    Keys = {k1}
    Callers = {c1, c2}
    MaximumEntries = 2
SPECIFICATION AllSpec
SYMMETRY Symmetric
INVARIANTS
    AnswersItsRequest
    NoLostWakeup
    ConnectionsOwned
    CancellationIsPrivate
    ComputationsBounded
PROPERTIES
    ImplementsQueue
CHECK_DEADLOCK FALSE
