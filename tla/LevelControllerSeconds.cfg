INIT Init
NEXT Next
CONSTANTS
  SliceDuration = 2
  Listed = 3
  Variants <- MCVariants
  LiveSync = 3
  MaxRetry = 0
  LoadRetries = 0
  LastSlide = 1
  Faults = 0
  Moves = 0
CHECK_DEADLOCK FALSE
INVARIANT Placed
