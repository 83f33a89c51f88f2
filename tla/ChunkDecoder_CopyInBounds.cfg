CONSTANTS
    ChunkSize = 2
    ExtTs = 3
    MaxTs = 4
    TsBound = 6
    Lens <- MCLens
    Types <- MCTypes
    MaxMsgs = 2
    RetryOnTimeout = FALSE
SPECIFICATION HostileSpec
INVARIANT CopyInBounds
CHECK_DEADLOCK FALSE
