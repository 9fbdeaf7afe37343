SPECIFICATION Spec
CONSTANTS
    Pre = 1
    PackSize = 1
    Sizes <- OneSize
    MaxFrames = 4
    MaxRecs = 2
INVARIANTS QueueSound FilesTrue
PROPERTIES RecordersServe
CHECK_DEADLOCK FALSE
