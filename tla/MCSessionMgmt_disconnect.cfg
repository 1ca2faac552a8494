SPECIFICATION FairSpec
CONSTANTS
    Sessions = {a}
    ClientRing = 1
    ServerRing = 1
    SameTransport = TRUE
    Faults = {}
    Retry = TRUE
    ServerStops = FALSE
    Duplicating = FALSE
CHECK_DEADLOCK FALSE
PROPERTY DisconnectsComplete
