CONSTANTS
    NoNode = NoNode
    Server = {s1, s2, s3}
    InitialMembers = {s1, s2, s3}
    CommitStatic = TRUE
    SelfBootstrap = FALSE
    EntryTypes = {"NORMAL"}
    FollowersCompact = FALSE
    MaxTerm = 1
    MaxEntries = 3
    MaxMsgs = 2
    MaxSnapshots = 1
    LogCapacity = 2
SPECIFICATION Spec
CHECK_DEADLOCK FALSE
INVARIANT LogMatching
