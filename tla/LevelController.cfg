SPECIFICATION MCSpec
CONSTANTS
  SliceDuration = 1
  Listed = 3
  Variants <- MCVariants
  LiveSync = 3
  MaxRetry = 1
  LoadRetries = 1
  LastSlide = 2
  Faults = 1
  Moves = 1
CHECK_DEADLOCK FALSE
INVARIANTS Placed Refreshed
PROPERTIES NoSkip Settles
