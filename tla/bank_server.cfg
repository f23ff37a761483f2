SPECIFICATION Spec
CONSTANTS
    k1 = k1
    k2 = k2
    s1 = s1
    s2 = s2
    c1 = c1
    Foreign = Foreign
    Callers = {k1, k2}
    Servers = {s1, s2, c1}
    Clients = {c1}
    Uses <- MCUses
    MaxStarts = 3
    MaxCalls = 4
INVARIANTS StartedServes ClosedFrees ClientHasOwnBank
CHECK_DEADLOCK FALSE
