CONSTANTS
    t1 = t1
    t2 = t2
    t3 = t3
    Free = Free
    NoCall = NoCall
    Threads <- MCTwo
    NSlots = 2
    MaxCalls = 1
    Sdk <- SdkAllC
    Interruptible <- NoThreads
    Crashable <- NoThreads
SPECIFICATION Spec
INVARIANT OwnReply
CHECK_DEADLOCK FALSE
