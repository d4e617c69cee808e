\* Goroutines over small builds, to the totals.
SPECIFICATION Spec
CONSTANTS
    Builds <- SmallBuilds
INVARIANTS
    IndexInBounds
    SearchIsExhaustive
    PlacesAreHeld
