SPECIFICATION Spec
CONSTANTS
    t1 = t1
    t2 = t2
    t3 = t3
    h1 = h1
    h2 = h2
    h3 = h3
    s1 = s1
    s2 = s2
    s3 = s3
    s4 = s4
    None = None
    Threads = {t1, t2, t3}
    Handles = {h1, h2, h3}
    PoolHandles = {h1}
    Serials = {s1, s2, s3, s4}
    MaxConns = 2
    Sdks = {"c", "go", "python"}
    MaxOps = 6
    MaxFaults = 2
SYMMETRY ConnSymmetry
CHECK_DEADLOCK FALSE
INVARIANTS
    TypeOK
    OneHolder
    OrphanCostsFault
PROPERTY
    ImplementsConnTable
