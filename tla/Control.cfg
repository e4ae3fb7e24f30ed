SPECIFICATION FairSpec
CONSTANTS
    Clients = {c1, c2}
    PipeCapacity = 2
    ReadMayFail = TRUE
    MaxControls = 3
    MaxStarts = 2
INVARIANTS NeverTerminates CleanAtRest
PROPERTIES OneEventLoop ImplementsChannel CallsReturn AcceptedIsExecuted
CHECK_DEADLOCK FALSE
