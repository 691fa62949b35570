CONSTANTS
    Runs = {r1}
    Watched = r1
    ReplayLimit = 2
    PendingLimit = 3
    HighWater = 1
    MaxData = 3
    MaxHides = 1
SPECIFICATION EventsSpec
PROPERTIES PageLearnsEnd
