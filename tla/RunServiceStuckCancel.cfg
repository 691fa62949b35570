CONSTANTS
    Runs = {r1}
    InlineRuns = {r1}
    Calls = {c1, c2}
    NoRun = NoRun
    NoCall = NoCall
    MaxConcurrent = 1
    Duplicates = FALSE
SPECIFICATION FairSpec
PROPERTIES
    CancelledRunEnds
