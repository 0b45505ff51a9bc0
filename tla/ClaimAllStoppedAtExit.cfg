SPECIFICATION Spec
CONSTANTS
    Names = {}
    Pids = {101}
    NewIds = {}
    Args = {1}
    MinimalFs = {FALSE}
    InitialMax = 1
    MaxTable = 1
    MaxId = 2
    MaxSessions = 1
    Faults = {}
    SignalAt <- Anywhere
    CrashAt <- Anywhere
PROPERTY
    AllStoppedAtExit
