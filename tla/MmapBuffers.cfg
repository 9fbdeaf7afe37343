SPECIFICATION Spec
CONSTANTS
    Counts <- MCCounts
    Length = 3
    Sizes <- MCSizes
INVARIANTS Rotation BuffersOwned
