SPECIFICATION Spec
CONSTANTS
    c1 = c1
    c2 = c2
    a1 = a1
    None = None
    Callers = {c1, c2}
    Admins = {a1}
    Size = 2
    Keepalive = TRUE
    Sdks = {"go", "python"}
    MaxOpens = 2
    MaxCalls = 2
    MaxFaults = 2
SYMMETRY CallerSymmetry
CHECK_DEADLOCK FALSE
INVARIANTS
    IndexConserved
    LiveIsOpen
    ClosedIsEmpty
