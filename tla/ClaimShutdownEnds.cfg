SPECIFICATION Spec
CONSTANTS
    Modes = {"command"}
    SignalAt = {"work"}
    MaxSignals = 1
    MaxClients = 1
    Faults = {}
CHECK_DEADLOCK FALSE
PROPERTY
    ShutdownEnds
