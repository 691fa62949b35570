CONSTANTS
    Runs = {r1}
    Workers = {w1}
    NoRun = NoRun
    LeaseTime = 2
    RunDeadline = 3
    MaxAttempts = 2
    RetryDelay = 1
    Lag = 1
    Horizon = 6
    MaxRetries = 1
    MaxCrashes = 2
SPECIFICATION FairSpec
PROPERTIES EveryRunEnds
