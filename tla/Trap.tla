------------------------------- MODULE Trap -------------------------------
(***************************************************************************)
(* The exception handlers of trap.c for one user process: system calls     *)
(* (swi_handler -> syscall), aborts and undefined instructions from EL0    *)
(* and EL1, the other vectors, and the return to user space through        *)
(* handle_user_events.  The vector assembly that calls the handlers and    *)
(* handle_user_events is not under src/; its contract is spec.md 4.5 and   *)
(* 4.8: every EL0 exception returns through handle_user_events, which      *)
(* exits a killed process.  Another process may kill this one at any time  *)
(* (sys_kill, outside src/).                                               *)
(***************************************************************************)
EXTENDS Syscall

CONSTANTS
    R0s,           \* the values user code puts in x0 before svc
    Args,          \* the values it puts in x1..x3
    KernelFaults,  \* whether kernel code may touch a bad address
    NONE

VARIABLES
    mode,     \* "user", "kernel" (in a system call), "eret" (returning),
              \* "kfault" (an EL1 abort handler has returned), "exited",
              \* "panicked"
    killed,   \* proc->killed
    tf,       \* proc->tf: r0, x[1..4], and the saved PSTATE's EL bits
    reads,    \* the user addresses the current system call has read
    call      \* the last system call: the x0 it was given and its return

vars == <<mode, killed, tf, reads, call>>

UserKinds   == {"dabort", "iabort", "und"}
OtherKinds  == {"irq", "fiq", "error", "bad", "na", "default", "reset"}
KnownNums   == {i \in 1..NELEM - 1 : Table[i] # NULL}

Init ==
  /\ mode = "user"
  /\ killed = FALSE
  /\ tf = [r0 |-> 0, x |-> [i \in 1..4 |-> 0], spsr |-> 0]
  /\ reads = {}
  /\ call = NONE

\* svc from EL0: the vector saves the frame (SPSR.EL = 0) and calls
\* swi_handler, which sets proc->tf.
Svc(r0, x1, x2, x3) ==
  /\ mode = "user"
  /\ tf' = [r0 |-> r0, x |-> <<x1, x2, x3, 0>>, spsr |-> 0]
  /\ mode' = "kernel"
  /\ reads' = {}
  /\ call' = NONE
  /\ UNCHANGED killed

\* syscall() and the handler it calls, up to the return.
SyscallStep ==
  /\ mode = "kernel"
  /\ \E o \in Syscall(tf) :
       /\ tf' = o.tf
       /\ reads' = o.reads
       /\ call' = [r0 |-> tf.r0, ret |-> o.ret]
       /\ mode' = IF o.exits THEN "exited" ELSE "eret"
  /\ UNCHANGED killed

\* dabort_handler, iabort_handler, und_handler from EL0 (spsr & 0xf = 0):
\* kill(proc->pid), then return.
UserAbort(kind) ==
  /\ mode = "user"
  /\ killed' = TRUE
  /\ mode' = "eret"
  /\ call' = NONE
  /\ UNCHANGED <<tf, reads>>

\* irq_handler and the print-only handlers (fiq, error, bad, na, default,
\* reset) from EL0: cli, print or dispatch, return.
UserTrap(kind) ==
  /\ mode = "user"
  /\ mode' = "eret"
  /\ call' = NONE
  /\ UNCHANGED <<killed, tf, reads>>

\* handle_user_events before the eret to EL0: panic on a frame whose
\* saved EL is not 0; exit() a killed process.  The mutant never exits.
HandleUserEvents_noExit ==
  /\ mode = "eret"
  /\ mode' = IF tf.spsr # 0 THEN "panicked" ELSE "user"
  /\ UNCHANGED <<killed, tf, reads, call>>

HandleUserEvents ==
  /\ mode = "eret"
  /\ mode' = CASE tf.spsr # 0 -> "panicked"
               [] killed      -> "exited"
               [] OTHER       -> "user"
  /\ UNCHANGED <<killed, tf, reads, call>>

\* Another process's kill(pid) sets proc->killed.
Kill ==
  /\ mode \notin {"exited", "panicked"}
  /\ ~killed
  /\ killed' = TRUE
  /\ UNCHANGED <<mode, tf, reads, call>>

\* A data abort, instruction abort or undefined instruction at EL1 (spsr
\* & 0xf # 0) during a system call: the handler prints (and dumps the
\* frame) and returns to the faulting instruction, which faults again.
KernelAbort(kind) ==
  /\ KernelFaults
  /\ mode = "kernel"
  /\ mode' = "kfault"
  /\ UNCHANGED <<killed, tf, reads, call>>

Next ==
  \/ \E r0 \in R0s, x1, x2, x3 \in Args : Svc(r0, x1, x2, x3)
  \/ SyscallStep
  \/ \E k \in UserKinds : UserAbort(k)
  \/ \E k \in OtherKinds : UserTrap(k)
  \/ HandleUserEvents
  \/ Kill
  \/ \E k \in UserKinds : KernelAbort(k)

(***************************************************************************)
(* Fairness: the kernel finishes a system call and returns to user space   *)
(* (weak fairness of SyscallStep and HandleUserEvents): neither waits on   *)
(* anything outside the kernel thread.  Nothing is assumed of user code or *)
(* of timer ticks: a process at EL0 may run forever without trapping, and  *)
(* irq_timer_stops shows builds in which the tick never arrives.           *)
(***************************************************************************)
Spec ==
  /\ Init /\ [][Next]_vars
  /\ WF_vars(SyscallStep) /\ WF_vars(HandleUserEvents)

-----------------------------------------------------------------------------
TypeOK ==
  /\ mode \in {"user", "kernel", "eret", "kfault", "exited", "panicked"}
  /\ killed \in BOOLEAN
  /\ tf.r0 \in 0..WORD - 1 /\ tf.spsr = 0
  /\ reads \subseteq Nat
  /\ call \in {NONE} \cup [r0 : 0..WORD - 1, ret : Int]

(***************************************************************************)
(* Every byte a system call reads on the user's behalf lies inside the     *)
(* process, [0, proc->sz): fetchint, fetchstr and argptr's bounds tests    *)
(* hold under 64-bit wrap-around of addr + 8 and i + size.                 *)
(***************************************************************************)
ArgAccessInBounds == reads \subseteq 0..Sz - 1

(***************************************************************************)
(* What the user sees in x0 when a system call returns (spec.md 4.7, 7):   *)
(* -1 for a number that is not a system call; -1 for a call that failed,   *)
(* exec included; the handler's return value otherwise, except after a     *)
(* successful exec.                                                        *)
(***************************************************************************)
SyscallReported ==
  (mode = "eret" /\ call # NONE) =>
    IF call.r0 \notin KnownNums THEN tf.r0 = U64(-1)
    ELSE IF call.ret = -1 THEN tf.r0 = U64(-1)
    ELSE Table[call.r0] = "exec" \/ tf.r0 = U64(call.ret)

(***************************************************************************)
(* A killed process never runs user code again (spec.md 4.8): on its way  *)
(* back to EL0, handle_user_events (trap.c:14) exits it, whether it was    *)
(* killed by its own fault at EL0, by another process while it ran, or     *)
(* inside a system call; and once it is in the kernel or on that way back, *)
(* it does exit.  A process killed while it spins at EL0 reaches the check *)
(* only at its next trap, which this property does not assume.            *)
(***************************************************************************)
KilledNeverResumes ==
  /\ [][(mode = "eret" /\ killed) => mode' # "user"]_vars
  /\ (killed /\ mode \in {"kernel", "eret"}) ~> (mode = "exited")

(***************************************************************************)
(* A fault in kernel code ends in a panic (spec.md 7.5: dump the trapframe *)
(* and panic).                                                             *)
(***************************************************************************)
KernelFaultPanics == (mode = "kfault") ~> (mode = "panicked")
=============================================================================
