SPECIFICATION Spec
CONSTANTS
    MaxFrames = 1
    MaxStarts = 1
    NaluSplits <- MCNaluSplits
    CodecRefuses = FALSE
    AtomicTriggers = FALSE
INVARIANT ErrorIsSignalled
