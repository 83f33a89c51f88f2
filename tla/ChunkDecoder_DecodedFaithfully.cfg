CONSTANTS
    ChunkSize = 2
    ExtTs = 3
    MaxTs = 4
    TsBound = 6
    Lens <- MCLens
    Types <- MCTypes
    MaxMsgs = 3
    RetryOnTimeout = TRUE
SPECIFICATION Spec
INVARIANT DecodedFaithfully
CHECK_DEADLOCK FALSE
