SPECIFICATION Spec
CONSTANTS
    BufferSize = 4
    MinRead = 2
    Total = 7
INVARIANTS SentInOrder NoStall
PROPERTIES ImplementsStream
CHECK_DEADLOCK FALSE
