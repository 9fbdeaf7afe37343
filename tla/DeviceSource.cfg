SPECIFICATION MCSpec
CONSTANTS
    QueueSize = 2
    MaxSize = 2
    Packets <- MCPackets
    Outcomes = {"packet", "nodata", "error"}
    Internal = TRUE
    CopyOutput = TRUE
    MaxReads = 3
INVARIANTS WindowTrue NoLostWakeup MemorySafe HandlerCopies
PROPERTIES DeliveredInOrder ImplementsChannel
CHECK_DEADLOCK FALSE
