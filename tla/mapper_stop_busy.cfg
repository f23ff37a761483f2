SPECIFICATION FairSpec
CONSTANTS
    c1 = c1
    c2 = c2
    NoTask = NoTask
    Threads = 2
    Clients <- MCClients
    Args <- MCArgs
    Throwing <- NobodyThrows
    Interruptible <- Nobody
    MaxCloses = 1
    MaxCloserInterrupts = 0
PROPERTY CloseStopsWorkers
CHECK_DEADLOCK FALSE
