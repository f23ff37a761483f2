SPECIFICATION Spec
CONSTANTS
    k1 = k1
    k2 = k2
    p1 = p1
    p2 = p2
    anna = anna
    boris = boris
    x = x
    y = y
    NoPerson = NoPerson
    NoRequest = NoRequest
    Callers = {k1, k2}
    Passports <- MCPassports
    FullNames = {anna, boris}
    AccountNames <- MCAccountNames
    Ids <- MCIds
    IdOf <- MCIdOf
    Requests <- SharedRequests
    MaxCalls = 3
    HalfRange = 4
INVARIANTS AccountsAgree RightAccount MoneyAddsUpAlone
CHECK_DEADLOCK FALSE
