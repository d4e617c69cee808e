\* With and without a solutions file, Ctrl-C and every failure.
SPECIFICATION Spec
CONSTANTS
    e1 = e1
    e2 = e2
    e3 = e3
    e4 = e4
    Threads = 2
    DesiredJobs = 2
    PrefixCount = 3
    Encodings <- SmallEncodings
    Symmetric <- SomeSymmetric
    SubsetOnly <- SomeSubsetOnly
    Sessions <- EndingSessions
    FullMirror = FALSE
    MayInterrupt = TRUE
    CreateMayFail = TRUE
    FileMayFail = TRUE
INVARIANTS
    NoLostFlush
    FileIsComplete
    PrintedInOrder
    LimitRespected
    StatusIsHonest
PROPERTIES
    SessionSpec
CHECK_DEADLOCK FALSE
