------------------------------ MODULE IrqPath ------------------------------
(***************************************************************************)
(* The interrupt path as a whole: the kernel thread masking and unmasking  *)
(* IRQs around its critical sections (PushCli), the devices raising their  *)
(* lines, and the GIC (Gic) through which irq_handler (trap.c:31-40) takes *)
(* each IRQ, pic_dispatch acknowledges, masks, EOIs, runs the ISR and      *)
(* unmasks it.                                                             *)
(*                                                                         *)
(* The CPU takes an IRQ only while DAIF.I is clear and the GIC signals     *)
(* one; from then until the eret that ends irq_handler the thread is       *)
(* preempted.  isr_timer is PushCli's IrqTaken (acquire and release of     *)
(* tickslock inside the handler); PushCli's pending timer interrupt is    *)
(* the build's timer line, asserted at the GIC until isr_timer acks it.    *)
(***************************************************************************)
EXTENDS Integers

CONSTANTS Locks, TicksLock, NoLock, MaxDepth, NoPanic, TimerIds, Sources,
          CpuCounts, NONE

VARIABLES
    daifI, ncli, intena, locked, phase, tplan, tstack, tpc, tenabled, panic,
    enable, gicdCtlr, giccCtlr, pmr, targets, pending, active, isrs,
    asserted, stage, intid

cpuVars == <<daifI, ncli, intena, locked, phase, tplan, tstack, tpc,
             tenabled, panic>>
gicVars == <<enable, gicdCtlr, giccCtlr, pmr, targets, pending, active, isrs,
             asserted, stage, intid>>
vars == <<cpuVars, gicVars>>

\* pic_dispatch is about to call isr_timer.
InIsrTimer == stage = "eoied" /\ isrs[intid] = "isr_timer"

G == INSTANCE Gic

\* PushCli's pending timer interrupt: the build's timer has its line raised
\* and isr_timer has not yet acknowledged it.
TimerAsserted == \E t \in Sources \cap TimerIds : G!TheTimer(t) /\ asserted[t]

P == INSTANCE PushCli WITH pending <- TimerAsserted
Init == G!Init /\ P!Init

\* The kernel thread runs only while no IRQ is being handled.
Begin(p) == stage = "idle" /\ UNCHANGED gicVars /\ P!Begin(p)
ThreadStep == stage = "idle" /\ UNCHANGED gicVars /\ P!ThreadStep
Sti == stage = "idle" /\ UNCHANGED gicVars /\ P!Sti

\* A device raises its line, whatever the CPU is doing.
Raise(s) == G!Raise(s) /\ UNCHANGED cpuVars

\* The IRQ exception: taken while DAIF.I is clear and the GIC signals.
TakeIrq == P!Alive /\ ~daifI /\ G!Ack /\ UNCHANGED cpuVars

\* pic_dispatch's gd_disable and gic_eoi.
Disable == G!Disable /\ UNCHANGED cpuVars
Eoi == G!Eoi /\ UNCHANGED cpuVars

\* isrs[intid](tp, intid): isr_timer with its tickslock section, or an ISR
\* that takes no lock (isr_uart, default_isr).
IsrTimer == G!Isr /\ P!IrqTaken
IsrOther == G!Isr /\ ~InIsrTimer /\ UNCHANGED cpuVars

\* gd_enable, return from irq_handler and eret.
Enable == G!Enable /\ UNCHANGED cpuVars

Dispatch == Disable \/ Eoi \/ IsrTimer \/ IsrOther \/ Enable

Next ==
  \/ \E p \in P!Plans : Begin(p)
  \/ ThreadStep
  \/ Sti
  \/ \E s \in Sources : Raise(s)
  \/ TakeIrq
  \/ Dispatch

(***************************************************************************)
(* Fairness.  The thread's sections run to their end and pic_dispatch runs *)
(* to its end with IRQs masked: weak fairness.  kmain reaches sti() and    *)
(* the thread clears DAIF.I again after every outermost release, so Sti    *)
(* and TakeIrq are strongly fair, as in PushCli.  Devices need none.       *)
(***************************************************************************)
Spec ==
  /\ Init /\ [][Next]_vars
  /\ WF_vars(ThreadStep)
  /\ SF_vars(Sti)
  /\ SF_vars(TakeIrq)
  /\ WF_vars(Dispatch)

-----------------------------------------------------------------------------
TypeOK == P!TypeOK /\ G!TypeOK

(***************************************************************************)
(* Every interrupt pic_dispatch acknowledges is EOIed before irq_handler   *)
(* returns: when the thread runs, nothing is active at the GIC.  An        *)
(* interrupt left active holds the CPU interface's running priority and    *)
(* blocks every later IRQ of the same priority, which is all of them.      *)
(***************************************************************************)
NoStuckActive == stage = "idle" => active = {}

(***************************************************************************)
(* The ISR's tickslock section never breaks one of the thread's: every     *)
(* lock the thread holds is still locked, with the real dispatch path      *)
(* (pic_dispatch calling isr_timer) between any two of its steps.          *)
(***************************************************************************)
HeldLocksStayLocked == P!HeldLocksStayLocked

(***************************************************************************)
(* Between critical sections the thread runs with IRQs as kmain left them  *)
(* (masked before main.c:44's sti, unmasked after), whatever interrupts    *)
(* were dispatched inside its sections: the outermost popcli restores what *)
(* the outermost pushcli saw (arm.c:38-43, 54-60), and the ISR's own       *)
(* pushcli/popcli, run with DAIF.I set, never records intena.              *)
(***************************************************************************)
OutermostRestores == P!OutermostRestores

(***************************************************************************)
(* The timer keeps ticking (spec 8, scenario 5): a timer interrupt that is *)
(* raised is eventually serviced by isr_timer, whatever the thread and the *)
(* UART do.  It rests on gic_init and pic_enable unmasking the timer       *)
(* (spec 4.6) and on pic_dispatch's gd_disable/gd_enable leaving it        *)
(* unmasked.                                                               *)
(***************************************************************************)
TimerServiced ==
  \A t \in Sources \cap TimerIds : (G!TheTimer(t) /\ asserted[t]) ~> ~asserted[t]
=============================================================================
