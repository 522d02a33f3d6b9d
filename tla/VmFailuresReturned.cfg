CONSTANTS
    MIN_ORD = 6
    MAX_ORD = 8
    LOG_BITS = 1
    NBLK = 5
    NULL = NULL
    PT_ORDER = 6
    PTE_SHIFT = 8
    PT_SZ = 256
    NPTE = 2
    NPMD = 2
    RESERVOIR = 7
    s1 = s1
    s2 = s2
    Spaces <- MC_Spaces
    NONE = NONE
    MAXARG = 1
    ArgLens <- MC_ArgLens
    Segs <- MC_AnySegs
    HeapTables = FALSE
    Wild = Wild
SPECIFICATION Spec
INVARIANT
    FailuresReturned
CHECK_DEADLOCK FALSE
