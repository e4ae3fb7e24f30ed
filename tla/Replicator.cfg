SPECIFICATION FairSpec
CONSTANTS
    Replicas = {r1, r2, r3}
    None = None
    Kinds = {"stream", "dummy"}
    SourceMayClose = TRUE
    PrimaryMayLeave = FALSE
    MaxFrames = 2
INVARIANTS FramesInOrder CountersExact NoInternalError NoDanglingReplica ClosureReachesAll
PROPERTIES WaitingIsServed
CHECK_DEADLOCK FALSE
