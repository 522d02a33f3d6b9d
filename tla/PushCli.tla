------------------------------ MODULE PushCli ------------------------------
(***************************************************************************)
(* Interrupt masking and spinlocks on the single CPU (arm.c, spinlock.c),  *)
(* with the timer interrupt (device/timer.c, device/vtimer.c) arriving     *)
(* through irq_handler (trap.c).                                           *)
(*                                                                         *)
(* The kernel thread runs critical sections. Each one is a properly        *)
(* nested series of acquire (or bare pushcli, as in switchuvm) followed by *)
(* the matching releases, which is how every caller in the source uses     *)
(* them. acquire is two steps for the interrupt: pushcli reads DAIF        *)
(* before it masks (arm.c:38-40), so an IRQ may be taken in between. Once  *)
(* DAIF.I is set nothing can interleave, so the rest of acquire, the whole *)
(* of release and the whole ISR (taken with DAIF.I set by the exception    *)
(* entry and restored by eret) are single steps.                           *)
(***************************************************************************)
EXTENDS Integers, Sequences, SequencesExt

CONSTANTS
    Locks,      \* the spinlocks the thread may take (tickslock, kmem.lock, ...)
    TicksLock,  \* tickslock, the one isr_timer takes (timer.c:54)
    NoLock,     \* a bare pushcli/popcli pair, as switchuvm (vm.c:174,185)
    MaxDepth,   \* deepest nesting of a critical section
    NoPanic

ASSUME TicksLock \in Locks /\ NoLock \notin Locks /\ MaxDepth \in Nat \ {0}

VARIABLES
    daifI,     \* PSTATE.I: IRQs masked
    ncli,      \* cpu->ncli
    intena,    \* cpu->intena
    locked,    \* lk->locked for every lock
    phase,     \* "boot" until kmain's sti (main.c:44), then "running"
    tplan,     \* the acquires still to do in the thread's current section
    tstack,    \* what the thread holds, innermost last
    tpc,       \* "run", or "masking" between int_enabled() and cli()
    tenabled,  \* pushcli's local 'enabled' (arm.c:38)
    pending,   \* the timer's interrupt line is asserted
    panic

vars == <<daifI, ncli, intena, locked, phase, tplan, tstack, tpc, tenabled,
          pending, panic>>

LockIds == Locks \cup {NoLock}

\* The shape of a critical section: distinct locks, outermost first.
Plans == {p \in UNION {[1..n -> LockIds] : n \in 1..MaxDepth} : IsInjective(p)}

Init ==
    /\ daifI = TRUE
    /\ ncli = 0
    /\ intena = FALSE
    /\ locked = [l \in Locks |-> FALSE]
    /\ phase = "boot"
    /\ tplan = <<>>
    /\ tstack = <<>>
    /\ tpc = "run"
    /\ tenabled = FALSE
    /\ pending = FALSE
    /\ panic = NoPanic

Alive == panic = NoPanic

\* The thread calls into code that has a critical section.
Begin(p) ==
    /\ Alive /\ tplan = <<>> /\ tstack = <<>> /\ tpc = "run"
    /\ tplan' = p
    /\ UNCHANGED <<daifI, ncli, intena, locked, phase, tstack, tpc, tenabled,
                   pending, panic>>

\* acquire -> pushcli: enabled = int_enabled().
AcqRead ==
    /\ Alive /\ tplan # <<>> /\ tpc = "run"
    /\ tenabled' = ~daifI
    /\ tpc' = "masking"
    /\ UNCHANGED <<daifI, ncli, intena, locked, phase, tplan, tstack, pending,
                   panic>>

\* pushcli's intena update: saved only by the outermost pushcli.
PushIntena == IF ncli = 0 THEN tenabled ELSE intena

\* AcqMask with pushcli's cli() left out (the mutant).
AcqMask_noCli ==
    LET l == Head(tplan) IN
    /\ Alive /\ tpc = "masking"
    /\ ncli' = ncli + 1
    /\ intena' = PushIntena
    /\ locked' = IF l = NoLock THEN locked ELSE [locked EXCEPT ![l] = TRUE]
    /\ tstack' = Append(tstack, l)
    /\ tplan' = Tail(tplan)
    /\ tpc' = "run"
    /\ UNCHANGED <<daifI, phase, tenabled, pending, panic>>

\* pushcli: cli(); if (cpu->ncli++ == 0) cpu->intena = enabled; then
\* acquire's lk->locked = 1.
AcqMask ==
    LET l == Head(tplan) IN
    /\ Alive /\ tpc = "masking"
    /\ daifI' = TRUE
    /\ ncli' = ncli + 1
    /\ intena' = PushIntena
    /\ locked' = IF l = NoLock THEN locked ELSE [locked EXCEPT ![l] = TRUE]
    /\ tstack' = Append(tstack, l)
    /\ tplan' = Tail(tplan)
    /\ tpc' = "run"
    /\ UNCHANGED <<phase, tenabled, pending, panic>>

\* popcli's sti decision; the mutant ignores intena.
PopSti_always == ncli - 1 = 0
PopSti == ncli - 1 = 0 /\ intena

\* release: lk->locked = 0; popcli(), with its two panics.
Release ==
    LET l == Last(tstack) IN
    /\ Alive /\ tplan = <<>> /\ tstack # <<>> /\ tpc = "run"
    /\ locked' = IF l = NoLock THEN locked ELSE [locked EXCEPT ![l] = FALSE]
    /\ tstack' = Front(tstack)
    /\ IF ~daifI
         THEN panic' = "popcli - interruptible"
              /\ UNCHANGED <<daifI, ncli>>
         ELSE IF ncli - 1 < 0
         THEN panic' = "popcli -- ncli < 0" /\ UNCHANGED <<daifI, ncli>>
         ELSE /\ ncli' = ncli - 1
              /\ daifI' = ~PopSti
              /\ UNCHANGED panic
    /\ UNCHANGED <<intena, phase, tplan, tpc, tenabled, pending>>

\* kmain's sti().
Sti ==
    /\ Alive /\ phase = "boot" /\ tplan = <<>> /\ tstack = <<>> /\ tpc = "run"
    /\ phase' = "running"
    /\ daifI' = FALSE
    /\ UNCHANGED <<ncli, intena, locked, tplan, tstack, tpc, tenabled,
                   pending, panic>>

\* The timer asserts its interrupt line.
TimerFires ==
    /\ Alive /\ ~pending
    /\ pending' = TRUE
    /\ UNCHANGED <<daifI, ncli, intena, locked, phase, tplan, tstack, tpc,
                   tenabled, panic>>

\* Exception entry with DAIF.I unmasked, irq_handler -> pic_dispatch ->
\* isr_timer: acquire(&tickslock) (pushcli sees interrupts disabled, so
\* intena = 0 at ncli 0), ticks++, release(&tickslock) (popcli: no sti),
\* the timer's acknowledge/reload; eret restores DAIF.I = 0.
IrqTaken ==
    /\ Alive /\ ~daifI /\ pending
    /\ intena' = IF ncli = 0 THEN FALSE ELSE intena
    /\ locked' = [locked EXCEPT ![TicksLock] = FALSE]
    /\ pending' = FALSE
    /\ UNCHANGED <<daifI, ncli, phase, tplan, tstack, tpc, tenabled, panic>>

ThreadStep == AcqRead \/ AcqMask \/ Release

Next ==
    \/ \E p \in Plans : Begin(p)
    \/ ThreadStep
    \/ Sti
    \/ TimerFires
    \/ IrqTaken

(***************************************************************************)
(* Fairness. A critical section runs to its end (no caller in the source   *)
(* blocks inside one), so the thread's steps are weakly fair. kmain's boot *)
(* sequence before sti() is finite, and a pending IRQ is taken as soon as  *)
(* DAIF.I is clear, so Sti and IrqTaken are strongly fair: each is enabled *)
(* again every time the thread is between critical sections.               *)
(***************************************************************************)
Spec ==
    /\ Init /\ [][Next]_vars
    /\ WF_vars(ThreadStep)
    /\ SF_vars(Sti)
    /\ SF_vars(IrqTaken)

-----------------------------------------------------------------------------
TypeOK ==
    /\ daifI \in BOOLEAN /\ intena \in BOOLEAN /\ tenabled \in BOOLEAN
    /\ ncli \in 0..MaxDepth
    /\ locked \in [Locks -> BOOLEAN]
    /\ phase \in {"boot", "running"}
    /\ tplan \in Seq(LockIds) /\ tstack \in Seq(LockIds)
    /\ tpc \in {"run", "masking"}
    /\ pending \in BOOLEAN

\* Every lock the thread holds is still marked locked: an interrupt never
\* runs isr_timer's release(&tickslock) in the middle of the thread's own
\* tickslock section (acquire, spinlock.c:29-30; isr_timer, timer.c:54-57).
HeldLocksStayLocked ==
    \A i \in 1..Len(tstack) : tstack[i] # NoLock => locked[tstack[i]]

\* Between critical sections the thread runs with interrupts exactly as
\* kmain left them: masked during boot, enabled after main.c:44. So the
\* outermost popcli restores what the outermost pushcli saw (arm.c:42-43,
\* 58-59), however sections nest and interrupts interleave.
OutermostRestores ==
    (Alive /\ tstack = <<>> /\ tpc = "run") => (daifI <=> phase = "boot")

\* A timer interrupt that is raised is eventually serviced by isr_timer.
InterruptServiced == pending ~> ~pending
=============================================================================
