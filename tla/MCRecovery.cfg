SPECIFICATION Spec
CONSTANTS
    Names = {n1}
    Pids = {101, 102}
    NewIds = {n1}
    Args = {n1, 1, 2}
    MinimalFs = {FALSE}
    InitialMax = 1
    MaxTable = 2
    MaxId = 2
    MaxSessions = 3
    Faults = {}
    SignalAt <- SafeToDie
    CrashAt <- SafeToDie
INVARIANTS
    TableWithinCapacity
    Recoverable
