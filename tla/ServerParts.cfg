CONSTANTS
    Runs = {r1}
    Watched = r1
    ReplayLimit = 2
    PendingLimit = 3
    HighWater = 1
    MaxData = 2
    MaxHides = 1
    Grants = {g1, g2}
    TokenTtl = 2
    TokenTime = 2
    MaxTokens = 3
    Editors = {e1, e2, e3}
    MaxChanges = 3
    Bars = {b1, b2, b3}
    MaximumEntries = 2
    BatchSize = 1
    MaxUpdates = 2
    Quotes = {"book_ticker"}
    QueueDepth = 3
    Levels = {1, 2}
    FillKeys = {1, 2}
    MaxPushes = 4
    Requests = {q1, q2, q3}
    MaxStreams = 2
    Services = {"run service", "simulation", "market data"}
    Holders = {h1, h2, h3}
    Symbols = {s1, s2}
    MaxGenerations = 6
    MaxControls = 3
SPECIFICATION PartsSpec
INVARIANTS
    PartsTypeOK
    SessionsDriveRuns
    FeedIsOwned
    ClosedLeavesNothing
    OpenStreamIsCurrent
    
    TokensFormAChain
    NoSaveIsLost
    BarsReachTheStore
    NothingCrossesABarrier
    StopsInOrder
    LiveFeedIsDriven
    ControlConverges
PROPERTIES
    ImplementsSource
    CloseCompletes
    PageCatchesUp
CHECK_DEADLOCK FALSE
