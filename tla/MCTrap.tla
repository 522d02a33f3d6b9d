------------------------------- MODULE MCTrap -------------------------------
(***************************************************************************)
(* Model-checking instances of Trap.  The process is 24 bytes: the string  *)
(* "ab" at 0, an argv array at 8 = {1, NULL} (1 points at "b"), a NULL at  *)
(* 16 and an unterminated tail.  The register values are the addresses of  *)
(* those objects, the end of the process, and a value near 2^WordBits      *)
(* that makes addr + 8 and i + size wrap; as a count it is the int -8.     *)
(***************************************************************************)
EXTENDS Trap

MC_Mem == [a \in 0..23 |-> IF a \in {2, 16} THEN 0 ELSE 1]
MC_Regs == {0, 8, 16, 20, 2^WordBits - 8}

SYS_exit == 2
SYS_getpid == 11
SYS_write == 16

\* Every kind of call: unknown (0 and -1), exit, exec, getpid, write.
MC_AllCalls == {0, SYS_exit, SYS_exec, SYS_getpid, SYS_write, 2^WordBits - 1}
\* The same without exec.
MC_NoExec == MC_AllCalls \ {SYS_exec}
\* The calls whose result the user may not see: syscalls[NELEM], one past
\* the table; a number whose low 32 bits are SYS_getpid; and exec.
MC_PastTable == {NELEM}
MC_Truncated == {2^IntBits + SYS_getpid}
MC_Exec == {SYS_exec}
MC_UnreportedCalls == MC_PastTable \cup MC_Truncated \cup MC_Exec
=============================================================================
