SPECIFICATION FairSpec
CONSTANTS
    c1 = c1
    c2 = c2
    s1 = s1
    s2 = s2
    Subsessions = {s1, s2}
    MaxPolls = 2
    MaxNesting = 4
    Connections = {c1, c2}
    None = None
    Asks <- MCAsks
INVARIANTS SinkOutlivesPolls SdpTellsAll CallsAlive SocketsOwned AnswersInOrder
PROPERTIES EachAnswered LeaversGo
CHECK_DEADLOCK FALSE
