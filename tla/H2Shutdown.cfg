SPECIFICATION H2Spec
CONSTANTS
    Caller = {a}
    Keepalive = Keepalive
    MaxClones = 1
    MaxStreams = 1
    MaxCancels = 0
PROPERTIES
    ShutdownDrains
CHECK_DEADLOCK FALSE
