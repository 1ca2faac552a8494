SPECIFICATION FairSpec
INVARIANTS Answers SlotsAndSessions
PROPERTIES AppsProgress
CHECK_DEADLOCK FALSE
