SPECIFICATION FairSpec
CONSTANTS
    o1 = o1
    Count = 4
    Args <- MCArgs
    Size = 2
    Others = {o1}
    MaxCalls = 2
CHECK_DEADLOCK FALSE
INVARIANTS
    SentOnce
    BatchReported
PROPERTY
    BatchReturns
