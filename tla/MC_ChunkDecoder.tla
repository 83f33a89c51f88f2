--------------------------- MODULE MC_ChunkDecoder ---------------------------
EXTENDS ChunkDecoder, TLC

\* message type ids of the peer's messages (audio 8, video 9)
MCTypes == {8, 9}
MCLens == {0, 1, 3}
==============================================================================
