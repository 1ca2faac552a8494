SPECIFICATION Spec
CONSTANTS
    Sslots = {s1}
    Credits = 2
    NumRpcs = 2
    MaxReqPkts = 2
    MaxRespPkts = 2
    Pacing = TRUE
    Duplicating = TRUE
    Foreground = {1}
INVARIANT NoDanglingTx
