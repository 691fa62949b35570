CONSTANTS
    Runs = {r1, r2}
    InlineRuns = {r2}
    Calls = {c1, c2}
    NoRun = NoRun
    NoCall = NoCall
    MaxConcurrent = 1
    Duplicates = TRUE
SPECIFICATION FairSpec
INVARIANTS
    SettledWhenClosed
PROPERTIES
    CloseCompletes
    OpenRunMoves
