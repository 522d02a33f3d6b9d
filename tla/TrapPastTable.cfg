CONSTANTS
    Sz = 24
    Mem <- MC_Mem
    Pid = 1
    MAXARG = 2
    WordBits = 20
    IntBits = 10
    NULL = NULL
    NONE = NONE
    R0s <- MC_PastTable
    Args <- MC_Regs
    KernelFaults = FALSE
SPECIFICATION Spec
INVARIANT
    SyscallReported
\* exit() ends the one process modelled, after which nothing runs.
CHECK_DEADLOCK FALSE
