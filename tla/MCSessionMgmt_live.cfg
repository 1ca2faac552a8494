SPECIFICATION FairSpec
CONSTANTS
    Sessions = {a, b}
    ClientRing = 2
    ServerRing = 2
    SameTransport = TRUE
    Faults = {"kClientResolve"}
    Retry = TRUE
    ServerStops = FALSE
    Duplicating = FALSE
CHECK_DEADLOCK FALSE
INVARIANT NoOrphanServerSession
PROPERTY ConnectsResolve
