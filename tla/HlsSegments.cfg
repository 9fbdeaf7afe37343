SPECIFICATION Spec
CONSTANTS
    SliceDuration = 2
    NbSlices = 3
    BufferSize = 1
    Sizes <- MCSizes
    Start = 7
    Steps <- MCSteps
    UIntRange <- MCRange
    Float <- MCFloat
    MaxExact <- MCExact
    MaxFrames = 5
INVARIANTS SlicesTrue ListedSegments PlaylistBounded
CHECK_DEADLOCK FALSE
