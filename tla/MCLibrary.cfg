CONSTANTS
    kPostlist = 2
    kVerbsRQDepth = 7
    kRecvSlack = 3
    MaxPkts = 22
    kStridesPerWQE = 4
    NumWqeIds = 8
    kDumbRingEntries = 12
    kRecvCQDepth = 2
    kUnsigBatch = 2
    kSQDepth = 4
    InlineCtrl = TRUE
    MaxTxPkts = 7
    Pids = {1, 2}
    Rpcs = {1, 2, 3}
    PidOf <- PidOfMC
    Ports = {0}
    PortOf <- PortOfMC
    NumQps = 2
    kNumRxRingEntries = 1
    kNumMbufs = 6
    kNumTxRingDesc = 1
    kRxBatchSize = 1
    MaxCrashes = 1
    None = nullptr
    NumBg = 2
    Rpc = {r1, r2}
    ReqType = {q1, q2}
    MaxSmPkts = 2
    NoRpc = nullptr
    Request = {r1, r2}
    D = dispatch
    ReqQ = ReqQ
    RespQ = RespQ
    Free = unlocked
    Uri = {u1, u2}
    FailTimeout = 3
    SendDelta = 1
    CheckDelta = 2
    MaxTime = 6
    MaxAdds = 1
    LogEntries = {"a", "b"}
    Nodes = {1, 2}
    MaxTerm = 3
    MaxEntries = 3
    Slots = {1, 2}
    MinSize = 1
    MaxSize = 2
    FileSize = 5
    kNumBuffers = 3
    MaxAppends = 8
SPECIFICATION FairSpec
INVARIANTS PacingAndMemory Rings ThreadsAndPeers LogsSurvive
PROPERTIES Progress
CHECK_DEADLOCK FALSE
