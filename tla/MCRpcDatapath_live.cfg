SPECIFICATION FairSpec
CONSTANTS
    Sslots = {s1}
    Credits = 2
    NumRpcs = 2
    MaxReqPkts = 2
    MaxRespPkts = 2
    Pacing = FALSE
    Duplicating = FALSE
    Foreground = {1}
CHECK_DEADLOCK FALSE
PROPERTY EveryRpcCompletes
