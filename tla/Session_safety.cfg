\* Four client scripts, up to two out-of-turn messages after connect.
CONSTANTS
    Scripts <- MCScripts
    Noise <- MCNoise
    MaxNoise = 2
    NoiseBeforeConnect = FALSE
SPECIFICATION FairSpec
INVARIANT FollowsSpecScript
PROPERTY SessionsSettle
\* A session ends: closed, unpublished, or a client with nothing left to
\* send in the play loop, which retries its 100 ms timeouts forever.
CHECK_DEADLOCK FALSE
