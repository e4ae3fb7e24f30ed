SPECIFICATION Spec
CONSTANTS
    Names = {cam}
    Clients = {c1}
    None = None
    MaxSessions = 2
    MaxNesting = 1
SYMMETRY Symmetries
INVARIANTS AddedStaysReachable
CHECK_DEADLOCK FALSE
