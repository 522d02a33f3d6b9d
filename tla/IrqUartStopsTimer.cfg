CONSTANTS
    tickslock = tickslock
    kmemlock = kmemlock
    Locks <- MC_Locks
    TicksLock = tickslock
    NoLock = NoLock
    MaxDepth = 2
    NoPanic = NoPanic
    NONE = NONE
    TimerIds <- MC_Sp804
    Sources <- MC_TimerAndUart
    CpuCounts <- MC_OneCpu
SPECIFICATION Spec
PROPERTY
    TimerServiced
\* A panic (popcli's two checks) halts the kernel, so a panicked state has
\* no successor; no other state lacks one.
CHECK_DEADLOCK FALSE
