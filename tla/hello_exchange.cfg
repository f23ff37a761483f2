SPECIFICATION Spec
CONSTANTS
    Threads = 2
    Requests = 2
    MaxFaults = 1
    Server = Server
    Stranger = Stranger
    NoDatagram = NoDatagram
    Blank = Blank
    Workers = {w1}
    MaxCloses = 0
INVARIANTS TypeOK OwnAnswers RunComplete PrintWakes AnsweredOnce
CHECK_DEADLOCK FALSE
