CONSTANTS
    t1 = t1
    t2 = t2
    u1 = u1
    u2 = u2
    NoNode = NoNode
    Server = {s1, s2, s3}
    InitialMembers = {s1, s2, s3}
    SelfBootstrap = FALSE
    CommitStatic = FALSE
    EntryTypes = {"NORMAL"}
    FollowersCompact = FALSE
    MaxTerm = 3
    MaxEntries = 2
    MaxMsgs = 2
    MaxSnapshots = 0
    LogCapacity = 2
    MaxRequests = 2
SPECIFICATION MCSpec
SYMMETRY Symmetry
CONSTRAINT StoreInUse
CHECK_DEADLOCK FALSE
INVARIANTS RaftSafety LeaderBookkeeping AckedIsDurable
PROPERTIES ImplementsReplicatedLog
