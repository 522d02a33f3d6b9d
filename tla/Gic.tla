-------------------------------- MODULE Gic --------------------------------
(***************************************************************************)
(* The GICv2 driver (device/gic.c) with the interrupt sources the kernel   *)
(* registers (uart_enable_rx, timer_init) and the dispatch path            *)
(* irq_handler -> pic_dispatch -> ISR (trap.c, gic.c).                     *)
(*                                                                         *)
(* The distributor's set-enable and clear-enable registers are one array  *)
(* of 32-bit words, each a set of bit positions: reading either register   *)
(* returns the enable bits, writing ones sets (ISENABLER) or clears        *)
(* (ICENABLER) them, and zeros do nothing.  GICD_REG is a uint64 access,   *)
(* so gicd_set_bit reads two words, keeps the low one in a uint, and       *)
(* writes it back with a zero high word.                                   *)
(*                                                                         *)
(* pending and active are the GIC's own per-interrupt state.  The devices  *)
(* raise their lines at any time; the CPU runs pic_dispatch with IRQs      *)
(* masked, so its steps are sequential, but a device may raise between     *)
(* any two of them.  gic_init also points every SPI it configures at     *)
(* CPU 0 (gd_target0); a GIC with one CPU interface ignores that and       *)
(* forwards every SPI to its one CPU, a GIC with several forwards an SPI   *)
(* only to the CPUs of its target byte.  The CPU takes an IRQ whenever the CPU interface       *)
(* signals one and DAIF.I is clear; IrqPath composes these actions with   *)
(* the kernel thread of PushCli, which decides when DAIF.I is clear.       *)
(***************************************************************************)
EXTENDS Integers, FiniteSetsExt, TLC

CONSTANTS
    TimerIds,  \* the timers a build's timer_init may register: timer.c's
               \* PIC_TIMER01, vtimer.c's PIC_VTIMER (both define it)
    Sources,   \* the interrupt ids whose devices raise their line
    CpuCounts, \* the CPU interfaces the GIC may implement: 1 on a virt
               \* machine started without -smp
    NONE

\* device/arm_virt.h
PIC_TIMER01 == 32 + 13
PIC_TIMER23 == 32 + 11
PIC_UART0   == 32 + 1
PIC_VTIMER  == 16 + 11

NUM_INTSRC == 64           \* gic.c:194
Words      == 0..2         \* the enable words the 64-bit accesses reach
SPIs       == 32..NUM_INTSRC - 1
ISRs       == {"default_isr", "isr_timer", "isr_uart"}
Stages     == {"idle", "acked", "disabled", "eoied", "handled"}

ASSUME TimerIds \subseteq {PIC_TIMER01, PIC_VTIMER}
ASSUME Sources \subseteq TimerIds \cup {PIC_UART0}
ASSUME CpuCounts \subseteq 1..8

VARIABLES
    enable,     \* enable[w]: the bits of GICD_ISENABLER/ICENABLER word w
    gicdCtlr,   \* GICD_CTLR bit 0
    giccCtlr,   \* GICC_CTLR bit 0
    pmr,        \* GICC_PMR
    pending,    \* interrupts the GIC holds pending
    active,     \* interrupts acknowledged and not yet EOIed
    isrs,       \* the ISR table
    targets,    \* targets[i]: the CPUs the distributor forwards SPI i to
    asserted,   \* asserted[s]: device s has raised its line, not yet serviced
    stage,      \* where the CPU is in pic_dispatch
    intid       \* pic_dispatch's intid

vars == <<enable, gicdCtlr, giccCtlr, pmr, targets, pending, active, isrs,
          asserted, stage, intid>>

\* The interrupts' priority: GICD_IPRIORITYR is never written, so its reset
\* value.
Priority == 0

\* A register write to word w: ones set bits of ISENABLER, clear bits of
\* ICENABLER; zeros leave them.
RegWrite(en, reg, w, v) ==
  IF reg = "ISENABLE" THEN [en EXCEPT ![w] = @ \cup v]
  ELSE [en EXCEPT ![w] = @ \ v]

\* gicd_set_bit(base, id, 1) with the mask bit position id % 32 of word
\* id / 32 (the mutant masks with 64).
GicdSetBit_wideMask(en, reg, id) ==
  LET offset == id \div 32
      rval   == en[offset] \cup {id % 64}
  IN  RegWrite(RegWrite(en, reg, offset, rval), reg, offset + 1, {})

GicdSetBit(en, reg, id) ==
  LET offset == id \div 32
      rval   == en[offset] \cup {id % 32}
  IN  RegWrite(RegWrite(en, reg, offset, rval), reg, offset + 1, {})

GdEnable(en, id)  == GicdSetBit(en, "ISENABLE", id)
GdDisable(en, id) == GicdSetBit(en, "ICENABLE", id)

IsEnabled(en, id) == (id % 32) \in en[id \div 32]

\* pic_enable(intid, isr): record the ISR; nothing else.
PicEnable(tbl, id, isr) ==
  IF id < NUM_INTSRC THEN [tbl EXCEPT ![id] = isr] ELSE tbl

\* gd_target0(id): OR CPU 0 into byte id % 4 of GICD_ITARGETSR word id / 4.
\* The uint64 store writes a zero word over the next four ids' targets.
GdTarget0(tg, id) ==
  [j \in {k \in SPIs : k \div 4 = id \div 4 + 1} |-> {}]
    @@ (id :> (tg[id] \cup {0})) @@ tg

\* gic_dist_configure(SPI_TYPE, id): gd_setcfg (the trigger mode, which the
\* model leaves to Raise's edge), gd_enable, gd_target0 (ignored by a GIC
\* with one CPU interface, whose target registers are RAZ/WI).
GicDistConfigure(d, id) ==
  [d EXCEPT !.en = GdEnable(@, id),
            !.tg = IF d.cpus = 1 THEN @ ELSE GdTarget0(@, id)]

\* gic_init: gic_cpu_init (PMR 0x0f), isr_init, gic_configure of the three
\* SPIs in this order, gic_enable.  The targets start as QEMU resets them
\* (0), or as CPU 0 for every SPI on a GIC with one CPU interface.
InitDist(cpus) ==
  LET d0 == [cpus |-> cpus, en |-> [w \in Words |-> {}],
             tg |-> [j \in SPIs |-> IF cpus = 1 THEN {0} ELSE {}]]
  IN  GicDistConfigure(GicDistConfigure(GicDistConfigure(d0, PIC_TIMER01),
                                        PIC_TIMER23), PIC_UART0)

\* kmain from gic_init to sti: gic_init, uart_enable_rx, timer_init of
\* the timer the kernel was built with.
Init ==
  /\ \E cpus \in CpuCounts :
       /\ enable = InitDist(cpus).en
       /\ targets = InitDist(cpus).tg
  /\ gicdCtlr = TRUE /\ giccCtlr = TRUE
  /\ pmr = 15
  /\ pending = {} /\ active = {}
  /\ \E t \in TimerIds :
       isrs = PicEnable(PicEnable([i \in 0..NUM_INTSRC - 1 |-> "default_isr"],
                                  PIC_UART0, "isr_uart"), t, "isr_timer")
  /\ asserted = [s \in Sources |-> FALSE]
  /\ stage = "idle" /\ intid = NONE

\* What the CPU interface of CPU 0 forwards: enabled pending interrupts
\* (a PPI is its own CPU's, an SPI must target CPU 0) of a priority above
\* the mask, while none is active (all share one priority, so an active
\* one blocks the rest until its EOI).
Deliverable ==
  {i \in pending : IsEnabled(enable, i) /\ (i \notin SPIs \/ 0 \in targets[i])}
Signalled ==
  gicdCtlr /\ giccCtlr /\ Priority < pmr /\ active = {} /\ Deliverable # {}

\* The timer the build registered.
TheTimer(t) == isrs[t] = "isr_timer"

\* A device of the build raises its line; the edge makes the interrupt
\* pending.
Raise(s) ==
  /\ s = PIC_UART0 \/ TheTimer(s)
  /\ ~asserted[s]
  /\ asserted' = [asserted EXCEPT ![s] = TRUE]
  /\ pending' = pending \cup {s}
  /\ UNCHANGED <<enable, gicdCtlr, giccCtlr, pmr, targets, active, isrs, stage, intid>>

\* The IRQ exception, irq_handler, and pic_dispatch's gic_getack: the GIC
\* hands out the lowest-numbered deliverable interrupt and makes it active.
\* The CPU takes the exception only while an interrupt is signalled, and
\* nothing else touches the GIC in between, so the spurious 0x3ff that goes
\* to out cannot be read on this single CPU.
Ack ==
  /\ stage = "idle" /\ Signalled
  /\ LET i == Min(Deliverable) IN
       /\ pending' = pending \ {i}
       /\ active' = active \cup {i}
       /\ intid' = i
  /\ stage' = "acked"
  /\ UNCHANGED <<enable, gicdCtlr, giccCtlr, pmr, targets, isrs, asserted>>

\* gd_disable(intid).
Disable ==
  /\ stage = "acked"
  /\ enable' = GdDisable(enable, intid)
  /\ stage' = "disabled"
  /\ UNCHANGED <<gicdCtlr, giccCtlr, pmr, targets, pending, active, isrs, asserted,
                 intid>>

\* gic_eoi(intid); the mutant leaves it out.
Eoi_skipped ==
  /\ stage = "disabled"
  /\ stage' = "eoied"
  /\ UNCHANGED <<enable, gicdCtlr, giccCtlr, pmr, targets, pending, active, isrs,
                 asserted, intid>>

Eoi ==
  /\ stage = "disabled"
  /\ active' = active \ {intid}
  /\ stage' = "eoied"
  /\ UNCHANGED <<enable, gicdCtlr, giccCtlr, pmr, targets, pending, isrs, asserted,
                 intid>>

\* isrs[intid](tp, intid): isr_timer acknowledges and reloads the timer,
\* isr_uart drains the receive FIFO; default_isr only prints.
Isr ==
  /\ stage = "eoied"
  /\ asserted' = IF isrs[intid] = "default_isr" THEN asserted
                 ELSE [asserted EXCEPT ![intid] = FALSE]
  /\ stage' = "handled"
  /\ UNCHANGED <<enable, gicdCtlr, giccCtlr, pmr, targets, pending, active, isrs,
                 intid>>

\* gd_enable(intid), and the return to irq_handler and eret; the mutant
\* returns without re-enabling.
Enable_skipped ==
  /\ stage = "handled"
  /\ stage' = "idle"
  /\ intid' = NONE
  /\ UNCHANGED <<enable, gicdCtlr, giccCtlr, pmr, targets, pending, active, isrs,
                 asserted>>

Enable ==
  /\ stage = "handled"
  /\ enable' = GdEnable(enable, intid)
  /\ stage' = "idle"
  /\ intid' = NONE
  /\ UNCHANGED <<gicdCtlr, giccCtlr, pmr, targets, pending, active, isrs, asserted>>

-----------------------------------------------------------------------------
TypeOK ==
  /\ enable \in [Words -> SUBSET (0..31)]
  /\ pending \subseteq Sources /\ active \subseteq Sources
  /\ isrs \in [0..NUM_INTSRC - 1 -> ISRs]
  /\ targets \in [SPIs -> SUBSET (0..7)]
  /\ asserted \in [Sources -> BOOLEAN]
  /\ stage \in Stages
  /\ (stage = "idle") <=> (intid = NONE)
=============================================================================
