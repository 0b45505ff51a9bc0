SPECIFICATION Spec
CONSTANTS
    Names = {}
    Pids = {101, 102}
    NewIds = {2}
    Args = {1, 2}
    MinimalFs = {FALSE}
    InitialMax = 1
    MaxTable = 2
    MaxId = 1
    MaxSessions = 2
    Faults = {"save", "realloc"}
    SignalAt <- OutsideSave
    CrashAt <- Anywhere
INVARIANTS
    AliveChildTracked
    UniqueIds
