SPECIFICATION FairSpec
CONSTANTS
    Others = {a, b}
    Delays = {0, 3}
    Granularity = 2
    MaxNesting = 1
    MaxLag = 2
    MaxSet = 1
    Idle = Idle
PROPERTIES ImplementsTimers OnTime DueTasksRun
