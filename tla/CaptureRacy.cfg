SPECIFICATION Spec
CONSTANTS
    MaxFrames = 2
    MaxStarts = 2
    NaluSplits <- MCNaluSplits
    CodecRefuses = TRUE
    AtomicTriggers = FALSE
INVARIANT CapturesInOrder
