SPECIFICATION Spec
CONSTANTS
    Sslots = {s1, s2}
    Credits = 2
    NumRpcs = 3
    MaxReqPkts = 2
    MaxRespPkts = 3
    Pacing = FALSE
    Duplicating = TRUE
    Foreground = {1, 3}
SYMMETRY Symmetry
INVARIANTS
    DInv
    CreditConservation
    NewRequestFindsServerIdle
    RfrFindsResponse
    RepliesMatchRequests
    PendingRequestIntact
    NoDanglingTx
    NoStrandedSlot
    ResponseIntact
    DisconnectFindsServerIdle
PROPERTIES
    WindowMovesForward
    ServiceSpec
