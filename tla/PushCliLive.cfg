CONSTANTS
    tickslock = tickslock
    kmemlock = kmemlock
    Locks <- MC_Locks
    TicksLock = tickslock
    NoLock = NoLock
    MaxDepth = 2
    NoPanic = NoPanic
SPECIFICATION Spec
INVARIANT
    TypeOK
PROPERTY
    InterruptServiced
