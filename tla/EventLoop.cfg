SPECIFICATION FairSpec
CONSTANTS
    FD_SETSIZE = 3
    MaxSockets = 3
    Permanent = 1
    MAX_NUM_EVENT_TRIGGERS = 2
    Sources = {o1, o2, o3}
    MaxNesting = 1
    None = None
INVARIANTS SelectCoversAll TriggersOwned
PROPERTIES SocketsServed EventsHandled
