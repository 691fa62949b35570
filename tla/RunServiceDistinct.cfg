CONSTANTS
    Runs = {r1, r2}
    InlineRuns = {r2}
    Calls = {c1, c2, c3}
    NoRun = NoRun
    NoCall = NoCall
    MaxConcurrent = 1
    Duplicates = FALSE
SYMMETRY CallSymmetry
SPECIFICATION Spec
INVARIANTS
    NoIdleSlot
PROPERTIES
    AbortDelivered
    ImplementsLifecycle
