\* The weaving search of a worker, and the prefixes its jobs are made of.
SPECIFICATION Spec
CONSTANTS
    Builds <- SmallBuilds
    LookAhead <- SmallLookAhead
    Words <- ReferenceWords
    Complete <- CompleteWords
INVARIANTS
    PrefixesAreExact
    TalliesAreCounts
    PrunedIsHopeless
    SearchIsExhaustive
CHECK_DEADLOCK FALSE
