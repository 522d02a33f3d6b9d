CONSTANTS
    MIN_ORD = 6
    MAX_ORD = 8
    LOG_BITS = 1
    NBLK = 3
    NULL = NULL
    PT_ORDER = 6
    PTE_SHIFT = 8
    PT_SZ = 256
    NPTE = 2
    NPMD = 2
    RESERVOIR = 8
    s1 = s1
    s2 = s2
    Spaces <- MC_Spaces
    NONE = NONE
    MAXARG = 1
    ArgLens <- MC_ShortArgs
    Segs <- MC_Segs
    HeapTables = FALSE
    Wild = Wild
SPECIFICATION Spec
VIEW MC_View
INVARIANTS
    TypeOK
    ExclusiveOwnership
    PagesConserved
    SizeMatchesMappings
    SegmentsLoadIntoTheirPages
\* A panic ("oom: kpt_alloc" when the pool and the heap are both empty)
\* halts the kernel, so a panicked state has no successor.
CHECK_DEADLOCK FALSE
