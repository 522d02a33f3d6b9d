----------------------------- MODULE MCIrqPath -----------------------------
(***************************************************************************)
(* Model-checking instances of IrqPath: tickslock and one other lock,      *)
(* sections nested two deep, and as interrupt sources the tick timer (the  *)
(* SP804's PIC_TIMER01 or the generic timer's PIC_VTIMER) with or without  *)
(* the UART's receive interrupt, on a GIC with one or two CPU interfaces.  *)
(***************************************************************************)
EXTENDS IrqPath

CONSTANTS tickslock, kmemlock

MC_Locks == {tickslock, kmemlock}
MC_Sp804         == {45}
MC_Vtimer        == {27}
MC_EitherTimer   == {45, 27}
MC_TimerOnly     == {45}
MC_TimerAndUart  == {45, 33}
MC_VtimerAndUart == {27, 33}
MC_AllSources    == {45, 27, 33}
\* The CPU interfaces of the GIC: one on QEMU's default virt machine,
\* two with -smp 2 (the kernel still runs on CPU 0 only).
MC_OneCpu        == {1}
MC_TwoCpus       == {2}
MC_AnyCpus       == {1, 2}
=============================================================================
