SPECIFICATION Spec
CONSTANTS
    c1 = c1
    c2 = c2
    a1 = a1
    a2 = a2
    Nobody = Nobody
    Callers = {c1, c2}
    Admins = {a1, a2}
    Size = 2
    Keepalive = TRUE
    BackoffMin = 2
    BackoffCap = 3
    MaxCalls = 2
    MaxOpens = 2
    MaxFaults = 2
SYMMETRY PoolSymmetry
CHECK_DEADLOCK FALSE
INVARIANTS
    TypeOK
    EntryExclusive
    AcquiredIsOpen
    ClosedIsEmpty
    LeakCostsFault
