\* The grid search, whole: small builds against all words, 4d12 against the documented counts.
SPECIFICATION Spec
CONSTANTS
    Builds <- SmallBuilds
    Words <- ReferenceWords
    Counts <- Documented
INVARIANTS
    TalliesAreCounts
    FoundAreFair
    SearchIsExhaustive
CHECK_DEADLOCK FALSE
