SPECIFICATION Spec
CONSTANTS
  Levels = {0, 1}
  LastSN = 1
  Keyless = {1}
  Encrypted = {0}
  StartLevels <- MCStartLevels
  LoopThreshold = 3
  MaxRetry = 1
  Lag = 3
  Faults = 2
  Moves = 1
INVARIANTS NeverWedged LoadIsCurrent
PROPERTIES BufferedMeansAppended EosComplete Settles
CHECK_DEADLOCK FALSE
