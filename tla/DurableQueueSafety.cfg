CONSTANTS
    Runs = {r1}
    Workers = {w1, w2}
    NoRun = NoRun
    LeaseTime = 2
    RunDeadline = 3
    MaxAttempts = 2
    RetryDelay = 1
    Lag = 1
    Horizon = 4
    MaxRetries = 1
    MaxCrashes = 1
SYMMETRY WorkerSymmetry
SPECIFICATION Spec
INVARIANTS
    RunJobAgreement
    QueuedJobHasAttempt
    OutputOfLastClaim
    AttemptBudget
PROPERTIES
    LeaseRespected
    CancellationHonoured
    ImplementsLifecycle
