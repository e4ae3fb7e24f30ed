SPECIFICATION FairSpec
CONSTANTS
    Replicas = {r1, r2, r3}
    None = None
    Kinds = {"stream"}
    SourceMayClose = FALSE
    PrimaryMayLeave = TRUE
    MaxFrames = 2
PROPERTIES WaitingIsServed
CHECK_DEADLOCK FALSE
