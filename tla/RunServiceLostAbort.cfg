CONSTANTS
    Runs = {r1}
    InlineRuns = {}
    Calls = {c1, c2}
    NoRun = NoRun
    NoCall = NoCall
    MaxConcurrent = 2
    Duplicates = TRUE
SYMMETRY CallSymmetry
SPECIFICATION Spec
PROPERTIES
    AbortDelivered
