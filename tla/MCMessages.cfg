SPECIFICATION Spec
CONSTANTS
    t1 = t1
    t2 = t2
    None = None
    Threads = {t1, t2}
    Calls <- MCCalls
    Structs <- MCStructs
    MaxReq = 52
    ReqBuf = 60
    MaxTag = 4
    MaxSlot = 19
    MinCap = 16
    RespBuf = 17
    MaxRoute = 4
    MaxCalls = 3
    MaxFaults = 1
SYMMETRY MessageSymmetry
CHECK_DEADLOCK FALSE
INVARIANTS
    FieldsFit
    StructTrue
    RouteSound
    ConnsAgree
    RejectionReported
