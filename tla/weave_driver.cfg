\* Two sessions, with and without a limit, at a ring of one place, with Ctrl-C and every failure.
SPECIFICATION FairSpec
CONSTANTS
    e1 = e1
    e2 = e2
    e3 = e3
    e4 = e4
    Encodings <- SmallEncodings
    Sessions <- SmallSessions
    Threads = 2
    DesiredJobs = 2
    Capacity = 1
    MayInterrupt = TRUE
    CreateMayFail = TRUE
INVARIANTS
    IInv
    PrintedExactlyOnce
    StatusIsHonest
PROPERTIES
    SessionSpec
    SessionEnds
CHECK_DEADLOCK FALSE
