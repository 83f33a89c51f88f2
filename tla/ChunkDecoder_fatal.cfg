\* Timeouts end the connection, as in the handshake, identify and publish
\* paths (recv timeout RSS_SEND/RECV_TIMEOUT_MS, no retry).
CONSTANTS
    ChunkSize = 2
    ExtTs = 3
    MaxTs = 4
    TsBound = 6
    Lens <- MCLens
    Types <- MCTypes
    MaxMsgs = 3
    RetryOnTimeout = FALSE
SPECIFICATION Spec
INVARIANT DecodedFaithfully
INVARIANT NoSpuriousChunkStart
\* Once the peer has sent its last message and the decoder has read it, or
\* the connection is closed, nothing more happens.
CHECK_DEADLOCK FALSE
