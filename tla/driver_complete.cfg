\* No limit: extensions, in any order of jobs, and every fault possible.
SPECIFICATION Spec
CONSTANTS
    e1 = e1
    e2 = e2
    e3 = e3
    e4 = e4
    Threads = 2
    DesiredJobs = 3
    PrefixCount = 4
    Vast = {}
    Encodings <- SmallEncodings
    Leaves <- Repeated
    Limit = 0
    PrintLimit = 2
    RandomOrder = TRUE
    Extension = TRUE
    NodeLimited = FALSE
    MayInterrupt = TRUE
    CreateMayFail = TRUE
    AllocMayFail = TRUE
INVARIANTS
    CompleteIsExhaustive
    PrintedExactlyOnce
PROPERTIES
    SessionSpec
CHECK_DEADLOCK FALSE
