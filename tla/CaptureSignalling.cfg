SPECIFICATION FairSpec
CONSTANTS
    MaxFrames = 2
    MaxStarts = 2
    NaluSplits <- MCNaluSplits
    CodecRefuses = FALSE
    AtomicTriggers = TRUE
INVARIANTS NoLostWakeup ErrorIsSignalled
PROPERTIES NeverTerminates StopReturns WaitingIsServed ErrorClosesSource
