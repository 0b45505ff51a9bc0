SPECIFICATION IsolationSpec
CONSTANTS
    Containers = {c1, c2}
    Busy = {"/sys", "/dev"}
    MountFaults = {"/proc", "/sys", "/tmp", "/dev"}
    Builders = {b1, b2}
    Faults = {"mkdir", "mknod", "copy", "mount"}
    MaxCalls = 4
    Ids = {1, 2}
    Pids = {101}
    Layouts = {"v2", "v1_joint", "v1_split"}
    Limits = {0, 1}
    MkdirFaults = {"cpu", "cpuacct", "memory"}
    WriteFaults = {"memory"}
    AttachFaults = {"cpu", "cpuacct", "memory"}
CHECK_DEADLOCK FALSE
INVARIANTS
    LimitsInForce
    MemoryConfined
    LimitsOwned
    HostMountsUntouched
    CommandIsolated
    ExecReachesContainer
    FailsOnlyOnFault
    RootUsable
PROPERTY
    ImplementsCgroups
