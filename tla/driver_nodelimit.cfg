\* --node-limit: one worker and one job of two prefixes.
SPECIFICATION Spec
CONSTANTS
    e1 = e1
    e2 = e2
    e3 = e3
    e4 = e4
    Threads = 1
    DesiredJobs = 1
    PrefixCount = 2
    Vast = {}
    Encodings <- SmallEncodings
    Leaves <- TwoPrefixes
    Limit = 0
    PrintLimit = 2
    RandomOrder = FALSE
    Extension = FALSE
    NodeLimited = TRUE
    MayInterrupt = TRUE
    CreateMayFail = FALSE
    AllocMayFail = FALSE
INVARIANTS
    NoSpuriousFailure
CHECK_DEADLOCK FALSE
