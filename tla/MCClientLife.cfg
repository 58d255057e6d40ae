SPECIFICATION Spec
CONSTANTS
    t1 = t1
    t2 = t2
    d1 = d1
    d2 = d2
    d3 = d3
    na = na
    nb = nb
    None = None
    Threads = {t1, t2}
    Dbs = {d1, d2, d3}
    PathOf <- MCPathOf
    Tables <- MCTables
    Names = {na, nb}
    MaxCaches = 1
    MaxHandles = 2
    MaxOps = 5
    MaxFaults = 1
    PoolSlots = {1}
    MaxEpochs = 2
    MaxLife = 2
SYMMETRY LifeSymmetry
CHECK_DEADLOCK FALSE
INVARIANTS
    CacheFresh
    StateOfThisEngine
    LeftBehindCosts
PROPERTY
    NotFoundIsTrue
