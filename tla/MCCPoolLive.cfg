SPECIFICATION FairSpec
CONSTANTS
    c1 = c1
    c2 = c2
    c3 = c3
    a1 = a1
    a2 = a2
    Nobody = Nobody
    Callers = {c1, c2}
    Admins = {a1}
    Size = 1
    Keepalive = TRUE
    BackoffMin = 2
    BackoffCap = 3
    MaxCalls = 1
    MaxOpens = 2
    MaxFaults = 2
CHECK_DEADLOCK FALSE
PROPERTIES
    TxrxReturns
    AdminReturns
    DeadIsReopened
