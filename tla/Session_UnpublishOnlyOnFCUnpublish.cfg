\* One out-of-turn message after connect, which may be releaseStream.
CONSTANTS
    Scripts <- MCScripts
    Noise <- MCNoiseFMLE
    MaxNoise = 1
    NoiseBeforeConnect = FALSE
SPECIFICATION Spec
INVARIANT UnpublishOnlyOnFCUnpublish
CHECK_DEADLOCK FALSE
