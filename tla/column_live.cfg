\* A limit, a buffer of one place, searches without end, and a failing file.
SPECIFICATION FairSpec
CONSTANTS
    e1 = e1
    e2 = e2
    e3 = e3
    e4 = e4
    Threads = 2
    DesiredJobs = 2
    PrefixCount = 3
    Encodings <- SmallEncodings
    Symmetric <- SomeSymmetric
    SubsetOnly <- SomeSubsetOnly
    Sessions <- UnendingSession
    FullMirror = FALSE
    MayInterrupt = TRUE
    CreateMayFail = TRUE
    FileMayFail = TRUE
INVARIANTS
    IInv
PROPERTIES
    SessionEnds
CHECK_DEADLOCK FALSE
