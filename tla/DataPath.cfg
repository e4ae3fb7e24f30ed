SPECIFICATION Spec
CONSTANTS
    Packets <- MCPackets
    BufferMax = 8
    MaxOutput = 4
    SeqSpace = 4
    TsSpace = 8
    FirstSeq = 3
    FirstBase = 6
    Frame = 2
    MaxNalus = 4
    MaxTime = 2
    MaxPts = 1
    MaxQueue = 1
    MaxLost = 1
PROPERTIES ImplementsNaluStream FramesAreMarked
