CONSTANTS
    t1 = t1
    t2 = t2
    t3 = t3
    Free = Free
    NoCall = NoCall
    Threads <- MCTwo
    NSlots = 1
    MaxCalls = 2
    Sdk <- SdkMixed
    Interruptible <- T1andT2
    Crashable <- NoThreads
SPECIFICATION FairSpec
PROPERTY CallReturns
CHECK_DEADLOCK FALSE
