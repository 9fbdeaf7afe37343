SPECIFICATION Spec
CONSTANTS
  Wrap = 100000
  FrameTicks = 1920
  NearFrames = 2
  NearTicks = 1000
  MAX_SILENT_FRAME_DURATION = 60
  VideoTicks = 3600
  Frames = 4
  AudioFrames = 6
  Fragments = 3
  Moves = 2
  Options <- MCOptions
INVARIANTS UnitsWhole FramesInOrder OnTime InitFirst
CHECK_DEADLOCK FALSE
