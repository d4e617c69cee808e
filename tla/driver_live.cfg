\* Extensions of two bases with a common result, whose searches may not end.
SPECIFICATION FairSpec
CONSTANTS
    e1 = e1
    e2 = e2
    e3 = e3
    e4 = e4
    Threads = 2
    DesiredJobs = 2
    PrefixCount = 3
    Vast = {0, 2}
    Encodings <- SmallEncodings
    Leaves <- Overlapping
    Limit = 2
    PrintLimit = 1
    RandomOrder = FALSE
    Extension = TRUE
    NodeLimited = FALSE
    MayInterrupt = TRUE
    CreateMayFail = TRUE
    AllocMayFail = TRUE
INVARIANTS
    IInv
    NumberedOnce
    LimitRespected
PROPERTIES
    SessionEnds
CHECK_DEADLOCK FALSE
