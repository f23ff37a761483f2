SPECIFICATION Spec
CONSTANTS
    s = s
    a = a
    b = b
    x = x
    y = y
    d1 = d1
    d2 = d2
    e1 = e1
    e2 = e2
    Urls <- MCUrls
    StartUrl = s
    Links <- SmallLinks
    Outcome <- OneFails
    MaxDepth = 2
    Downloaders = {d1, d2}
    Extractors = {e1, e2}
    MayClose = TRUE
    MayInterrupt = TRUE
INVARIANTS WorkCounts ResultFinal ResultReports WithinDepth
PROPERTY NoStartAfterClose
SYMMETRY PoolSymmetry
CHECK_DEADLOCK FALSE
