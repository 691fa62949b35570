CONSTANTS
    Runs = {r1, r2, r3}
    Dispatchers = {d1, d2}
    NoRun = NoRun
    Limit = 1
    LeaseTime = 1
    RunDeadline = 1
    MaxAttempts = 1
    RetryDelay = 0
    MaxClaims = 1
    MaxCancels = 1
    MaxStranded = 1
SYMMETRY Symmetry
SPECIFICATION Spec
INVARIANTS
    OpenRunHasOwner
    LimitWithinOverlap
