SPECIFICATION SplitSpec
CONSTANTS
    Codecs <- MCCodecs
    Packets <- MCPackets
    RepeatConfig = TRUE
    QueueSize = 2
    MaxPackets = 3
INVARIANTS UnitsSplit IdrFollowsConfig
CHECK_DEADLOCK FALSE
