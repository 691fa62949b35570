CONSTANTS
    Conns = {k1, k2}
    NoSource = NoSource
    MaxListeners = 1
    BackpressureLimit = 2
    MaxContent = 2
    MaxHeartbeats = 0
    MaxFailures = 1
    MaxResets = 1
    MaxHides = 1
    MaxLosses = 1
    MaxReads = 1
SPECIFICATION Spec
INVARIANTS
    HubIsDriven
    PageIsSupplied
CHECK_DEADLOCK FALSE
