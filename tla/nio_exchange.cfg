SPECIFICATION FairSpec
CONSTANTS
    Threads = 2
    Requests = 2
    MaxFaults = 2
    Fits = 2
    MaxStarts = 2
    MaxCloses = 1
INVARIANTS TypeOK OneLoop Restartable AnsweredInTurn NoStorm
PROPERTY RunReturns
CHECK_DEADLOCK FALSE
