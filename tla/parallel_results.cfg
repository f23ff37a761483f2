SPECIFICATION FairSpec
CONSTANTS
    MaxThreads = 3
    MaxLength = 3
    MaxRank = 2
    SharedWorkers = 2
INVARIANT ResultRight
PROPERTY CallEnds
CHECK_DEADLOCK FALSE
