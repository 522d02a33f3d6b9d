CONSTANTS
    Sz = 24
    Mem <- MC_Mem
    Pid = 1
    MAXARG = 2
    WordBits = 20
    IntBits = 10
    NULL = NULL
    NONE = NONE
    R0s <- MC_NoExec
    Args <- MC_Regs
    KernelFaults = TRUE
SPECIFICATION Spec
PROPERTY
    KernelFaultPanics
\* exit() ends the one process modelled, and a kernel fault repeats
\* without changing any state; no other state lacks a successor.
CHECK_DEADLOCK FALSE
