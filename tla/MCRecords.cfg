SPECIFICATION RecordsSpec
CONSTANTS
    Entries = {1, 2, 3}
    InitialMax = 1
    MaxArray = 4
    InterruptAt <- SafePoints
    Managers = {m1, m2}
    Crashes = {m1, m2}
    Ids = {1, 2}
    MaxStarts = 3
CHECK_DEADLOCK FALSE
INVARIANTS
    TableSound
    RequestSafe
    HandlerSafe
    LoadedWasSaved
    SavedWhenIdle
PROPERTY
    ImplementsTable
