SPECIFICATION Spec
CONSTANTS
    Names = {n1}
    Pids = {2, 3}
    NewIds = {n1}
    Args = {n1, 1, 2, 3}
    MinimalFs = {TRUE}
    InitialMax = 1
    MaxTable = 2
    MaxId = 2
    MaxSessions = 1
    Faults = {"cgroup", "rootfs", "realloc", "clone", "attach"}
    SignalAt <- Anywhere
    CrashAt <- Anywhere
INVARIANTS
    PidPinned
PROPERTIES
    HostUntouched
    StopAllComplete
