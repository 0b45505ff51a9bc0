SPECIFICATION Spec
CONSTANTS
    Names = {n1}
    Pids = {101, 102}
    NewIds = {n1}
    Args = {n1, 1, 2}
    MinimalFs = {FALSE}
    InitialMax = 1
    MaxTable = 3
    MaxId = 2
    MaxSessions = 1
    Faults = {"clone", "realloc"}
    SignalAt <- Anywhere
    CrashAt <- Anywhere
INVARIANTS
    TypeOK
    Confined
    NoStrayCgroup
PROPERTIES
    StopsOnlyItsOwn
    DestroyComplete
    ImplementsLifecycle
