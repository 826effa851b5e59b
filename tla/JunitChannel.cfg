\* Frames of three bytes cut from thirty, chunks of at most three cut from ten,
\* and integers of three bits in buffers of up to two with bytes left over.
SPECIFICATION MCSpec
CONSTANTS
    frameLength = 3
    MaxBytes = 30
    maxFrameSize = 3
    MaxChunkBytes = 10
    Half = 4
    MaxInts = 2
    MaxOffered = 3
CHECK_DEADLOCK FALSE
INVARIANTS
    Tiled
    CutIndependent
    FramesAreReads
    EveryMagnitude
