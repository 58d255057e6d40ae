SPECIFICATION FairSpec
CONSTANTS
    c1 = c1
    c2 = c2
    a1 = a1
    None = None
    Callers = {c1, c2}
    Admins = {a1}
    Size = 2
    Keepalive = TRUE
    Sdks = {"go", "python"}
    MaxOpens = 1
    MaxCalls = 2
    MaxFaults = 2
CHECK_DEADLOCK FALSE
PROPERTIES
    TxrxReturns
    AdminReturns
