\* Extensions of one die to two of four sides, and of two dice to three of six.
SPECIFICATION Spec
CONSTANTS
    Sizes <- TwoSizes
    Files <- SmallFiles
    DesiredJobs = 9
    Words <- ComparedWords
INVARIANTS
    CursorIsExact
    ExtensionsAreComplete
CHECK_DEADLOCK FALSE
