SPECIFICATION SceneSpec
CONSTANTS
    Modes <- AllModes
    SignalAt <- MainAt
    MaxSignals = 2
    MaxClients = 2
    Faults = {"socket", "bind", "listen", "accept", "stoul"}
    Ids = {1, 2}
    Quotas = {TRUE, FALSE}
    Readable = {TRUE, FALSE}
    MaxUsage = 2
    MaxTime = 2
    MaxTicks = 6
    StatFaults = TRUE
CHECK_DEADLOCK FALSE
INVARIANTS
    Graceful
    QuietAtCleanup
    SocketReleased
    PercentInRange
PROPERTIES
    ShutdownEnds
    
