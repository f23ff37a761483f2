SPECIFICATION FairSpec
CONSTANTS
    c1 = c1
    c2 = c2
    NoTask = NoTask
    Threads = 2
    Clients <- MCClients
    Args <- MCArgs
    Throwing <- FirstThrows
    Interruptible <- SecondOnly
    MaxCloses = 2
    MaxCloserInterrupts = 1
INVARIANTS TypeOK WakeupInFlight OnePlace ClosedMeansDead
PROPERTIES ImplementsPromise CloseStopsIdleWorkers MapReturns
CHECK_DEADLOCK FALSE
