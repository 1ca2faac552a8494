SPECIFICATION Spec
CONSTANTS
    Sessions = {a, b}
    ClientRing = 2
    ServerRing = 1
    SameTransport = TRUE
    Faults = {"kRoutingResolutionFailure", "kOutOfMemory", "kClientResolve"}
    Retry = TRUE
    ServerStops = TRUE
    Duplicating = TRUE
SYMMETRY Symmetry
INVARIANTS
    SmInv
    RingConservation
    OneServerSession
    ConnectedHasPeer
    DisconnectsMatch
    CallbacksMatchState
PROPERTY LifeCycle
