SPECIFICATION Spec
CONSTANTS
    s = s
    a = a
    b = b
    x = x
    y = y
    d1 = d1
    d2 = d2
    e1 = e1
    e2 = e2
    Urls <- MCUrls
    StartUrl = s
    Links <- ShortcutLinks
    Outcome <- AllOk
    MaxDepth = 3
    Downloaders = {d1}
    Extractors = {e1, e2}
    MayClose = FALSE
    MayInterrupt = FALSE
INVARIANTS WholeDepth
CHECK_DEADLOCK FALSE
