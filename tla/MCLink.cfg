SPECIFICATION FairSpec
CONSTANTS
    Limit = 3
    Message <- MCMessage
    MaxSent = 3
    Capacity = 9
    Chunk = 16
INVARIANTS
    EncodingFits
PROPERTIES
    ChannelSpec
    AbortsOnBurstOnly
    EverythingArrives
CHECK_DEADLOCK FALSE
