SPECIFICATION FairSpec
CONSTANTS
    Retention = 2
    BufferLimit = 1
    FrameLimit = 1
    SocketLimit = 2
    MaxSeq = 4
    MaxFault = 2
INVARIANTS GapsExplained NeverDeaf
PROPERTIES NeverBack CatchesUp
CHECK_DEADLOCK FALSE
