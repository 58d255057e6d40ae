CONSTANTS
    t1 = t1
    t2 = t2
    t3 = t3
    Free = Free
    NoCall = NoCall
    Threads <- MCTwo
    NSlots = 2
    MaxCalls = 2
    Sdk <- SdkCGo
    Interruptible <- NoThreads
    Crashable <- OnlyT2
SPECIFICATION Spec
INVARIANTS TypeOK SlotExclusive NoSlotLeak CleanReply CleanOnce
PROPERTY OwnerHandover
CHECK_DEADLOCK FALSE
