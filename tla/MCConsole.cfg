SPECIFICATION ConsoleSpec
CONSTANTS
    Programs = {"menu", "monitor"}
    MaxKeys = 5
    Signals = TRUE
    Mbs = {0, 1, 128, 2047}
    Shares = {0, 1, 10, 11, 512, 21474}
    WriteFaults = {"quota", "period", "shares", "memory"}
    MaxContainers = 2
    Half = 4
    Typed = {1, 2, 3, 4, 8, 9, 10}
    Capacity = 3
    Turns = 3
    MaxTests = 2
    RootPaths = {"null"}
    AllocFaults = {"caller", "cgroup", "add", "clone", "name", "info", "config", "id", "root", "array"}
CHECK_DEADLOCK FALSE
INVARIANTS
    TerminalRestored
    CpuProportional
    MemoryAsAsked
    RefusedOnlyAtLimit
    NothingLeaks
PROPERTY
    QuitEndsMonitor
