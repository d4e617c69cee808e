\* Two dice of eight faces, compared with all words in two letters, and three
\* dice of six faces, compared with the words in groups of three.
SPECIFICATION Spec
CONSTANTS
    Sizes <- TwoSizes
    Builds <- EveryBuild
    DesiredJobs = 7
    Words <- ComparedWords
INVARIANTS
    StateIsExact
    FoundAreFair
    SearchIsExhaustive
CHECK_DEADLOCK FALSE
