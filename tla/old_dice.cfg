SPECIFICATION Spec
CONSTANTS
    low = low
    mid = mid
    high = high
    Builds <- MCBuilds
    MaxFailures = 1
    Grids <- MCGrids
    ScoreOf <- MCScoreOf
    Swaps <- MCSwaps
    StartGrids <- MCStartGrids
    StartScore = 3
    POP_SIZE = 2
    OwnGrids <- MCOwnGrids
    OwnScoreOf <- MCOwnScoreOf
    Unbalanced = {2}
    Uneven = {3, 6}
    OwnStart = 1
    OWN_POP_SIZE = 3
    CLOSESCORE = 3
    MAXTHREADS = 2
    MaxThreadid = 2
INVARIANTS
    EnumerationIsExact
    TotalsAreExact
    PopulationIsSound
PROPERTIES
    BestOnlyImproves
