CONSTANTS
    Conns = {k1, k2}
    NoSource = NoSource
    MaxListeners = 1
    BackpressureLimit = 2
    MaxContent = 2
    MaxHeartbeats = 0
    MaxFailures = 0
    MaxResets = 1
    MaxHides = 1
    MaxLosses = 0
    MaxReads = 0
SPECIFICATION FairSpec
PROPERTIES
    CatchesUp
CHECK_DEADLOCK FALSE
