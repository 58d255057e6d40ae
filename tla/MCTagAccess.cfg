SPECIFICATION Spec
CONSTANTS
    t1 = t1
    t2 = t2
    None = None
    Threads = {t1, t2}
    Calls <- MCCalls
    Symbols <- MCSymbols
    Memory <- MCMemory
    ByteBits = 2
    MaxBatch = 2
    SlotRoom = 967
    MaxCount = 4
    MaxPayload = 1000000
    MaxCalls = 3
    MaxFaults = 1
SYMMETRY AccessSymmetry
CHECK_DEADLOCK FALSE
INVARIANTS
    BatchFaithful
    ReadTrue
    
    StringWhole

