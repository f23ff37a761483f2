SPECIFICATION FairSpec
CONSTANTS
    Threads = 1
    Requests = 1
    MaxFaults = 1
    Server = Server
    Stranger = Stranger
    NoDatagram = NoDatagram
    Blank = Blank
    Workers = {w1, w2}
    MaxCloses = 1
INVARIANT ServerStops
PROPERTIES RunReturns CloseReturns
CHECK_DEADLOCK FALSE
