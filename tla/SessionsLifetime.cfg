SPECIFICATION FairSpec
CONSTANTS
    Names = {cam, desk}
    Clients = {c1, c2}
    None = None
    MaxSessions = 3
    MaxNesting = 2
INVARIANTS UsesAlive CountsExact ReplicatorsClosed FreshKept
PROPERTY RemovedIsClosed
CHECK_DEADLOCK FALSE
