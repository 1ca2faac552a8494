SPECIFICATION Spec
CONSTANTS
    Sslots = {s1, s2}
    Credits = 2
    NumRpcs = 3
    MaxReqPkts = 2
    MaxRespPkts = 2
    Pacing = TRUE
    Duplicating = TRUE
    Foreground = {1, 3}
SYMMETRY Symmetry
INVARIANTS
    IInv
    WheelIndexUnique
    FreeSlotsUnreferenced
