SPECIFICATION FairSpec
CONSTANTS
    MarketInterval = 3
    HeartbeatInterval = 4
    CleanupInterval = 5
    SendHeartbeats = TRUE
    StartTime = 2
    MaxTime = 8
    MaxSlack = 1
    MaxRestarts = 1
PROPERTIES
    CyclePace
    HeartbeatSpacing
    ShutdownCompletes
