------------------------------ MODULE Syscall ------------------------------
(***************************************************************************)
(* System-call dispatch and argument fetch (syscall.c), with the handlers  *)
(* it calls reduced to how they fetch their arguments and what they        *)
(* return (sys_getpid, sys_write, sys_exec, sys_exit; the handlers live    *)
(* outside src/ and follow spec.md 4.7 and xv6), and exec's effect on the  *)
(* trapframe (exec.c).                                                     *)
(*                                                                         *)
(* Registers and user addresses are unsigned WordBits-bit values and int  *)
(* is IntBits wide: 64 and 32 in the code, scaled down for TLC, whose      *)
(* integers are 32-bit; every conversion wraps at its width.  User memory  *)
(* below proc->sz is a                                                     *)
(* function from byte addresses to values: 0 is a NUL byte, and the long   *)
(* fetchint reads at an address is the value stored there.                 *)
(***************************************************************************)
EXTENDS Integers, Sequences, FiniteSets

CONSTANTS
    Sz,        \* proc->sz
    Mem,       \* user memory: [0..Sz-1 -> values]
    Pid,       \* proc->pid
    MAXARG,    \* param.h MAXARG: sys_exec's argv bound
    WordBits,  \* width of a register, uint64 and long (64)
    IntBits,   \* width of int (32)
    NULL

ASSUME IntBits < WordBits

WORD == 2^WordBits
U64(x) == x % WORD                       \* conversion to uint64 / register
ToInt(v) ==                              \* (int) of a register value
  LET t == v % 2^IntBits IN IF t >= 2^(IntBits - 1) THEN t - 2^IntBits ELSE t

\* The table's designated initializers, numbered densely from 1
\* (spec.md 9: fork, exit, ..., close); syscalls[0] is left NULL.
SyscallNames ==
  <<"fork", "exit", "wait", "pipe", "read", "kill", "exec", "fstat", "chdir",
    "dup", "getpid", "sbrk", "sleep", "uptime", "open", "write", "mknod",
    "unlink", "link", "mkdir", "close">>
NELEM == Len(SyscallNames) + 1
Table == [i \in 0..NELEM - 1 |-> IF i = 0 THEN NULL ELSE SyscallNames[i]]
SYS_exec == 7

\* What syscalls[num] can be.  Index NELEM is one past the array: the
\* word after it in .data, NULL or not, so either the unknown-call path
\* or a call through whatever it holds.
EntryAt(num) == IF num < NELEM THEN {Table[num]} ELSE {NULL, "wild"}

Addrs(a, n) == {a + k : k \in 0..n - 1}

\* fetchint(addr, ip): reads the long at addr.
FetchInt(addr) ==
  IF addr >= Sz \/ U64(addr + 8) > Sz
    THEN [ret |-> -1, val |-> 0, reads |-> {}]
    ELSE [ret |-> 0, val |-> Mem[addr], reads |-> Addrs(addr, 8)]

\* fetchstr(addr, pp): the length of the string at addr, bounded by sz.
FetchStr(addr) ==
  IF addr >= Sz THEN [ret |-> -1, reads |-> {}]
  ELSE LET nul == {s \in addr..Sz - 1 : Mem[s] = 0}
       IN  IF nul = {} THEN [ret |-> -1, reads |-> addr..Sz - 1]
           ELSE LET e == CHOOSE s \in nul : \A s2 \in nul : s <= s2
                IN  [ret |-> e - addr, reads |-> addr..e]

\* argint(n, ip): *(&tf->r1 + n).  Its panic for n > 3 cannot happen:
\* every caller passes a constant n <= 2.
ArgInt(tf, n) == tf.x[n + 1]

\* argptr(n, pp, size): the (uint64) bounds test, size as an int.  The
\* mutant keeps only the test of the end.
ArgPtr_endOnly(tf, n, size) ==
  LET i == ArgInt(tf, n) IN
  IF U64(i + U64(size)) > Sz THEN -1 ELSE 0

ArgPtr(tf, n, size) ==
  LET i == ArgInt(tf, n) IN
  IF i >= Sz \/ U64(i + U64(size)) > Sz THEN -1 ELSE 0

\* argstr(n, pp).
ArgStr(tf, n) == FetchStr(ArgInt(tf, n))

(***************************************************************************)
(* The handlers, as sets of outcomes: the value they return, the user      *)
(* addresses they read, the trapframe they leave, and whether the process  *)
(* exits.                                                                  *)
(***************************************************************************)
Outcome(ret, reads, tf) == [ret |-> ret, reads |-> reads, tf |-> tf, exits |-> FALSE]

\* sys_write(fd, p, n): argint(2, &n), argptr(1, &p, n); filewrite reads
\* the n bytes and returns n.
SysWrite(tf) ==
  LET n == ToInt(ArgInt(tf, 2)) IN
  IF ArgPtr(tf, 1, n) < 0 THEN {Outcome(-1, {}, tf)}
  ELSE {Outcome(n, Addrs(ArgInt(tf, 1), n), tf)}

\* exec(path, argv) from the point where the argument strings are
\* copied: it fails before exec.c:106 (bad ELF, no memory, arguments
\* beyond the stack page), fails at exec.c:111 after writing r0 = argc
\* (the argv array does not fit below the strings), or commits with
\* r0 = argc.  (r1, the user stack pointer of argv, is left out.)
ExecOutcomes(tf, argc, reads) ==
  LET framed == [tf EXCEPT !.r0 = argc]
  IN  { Outcome(-1, reads, tf), Outcome(-1, reads, framed),
        Outcome(0, reads, framed) }

\* sys_exec: argstr(0, &path), argint(1, &uargv), then fetchint of
\* uargv[i] and fetchstr of each until a 0 entry; MAXARG entries fail.
RECURSIVE ExecArgs(_, _, _, _)
ExecArgs(tf, uargv, i, reads) ==
  IF i >= MAXARG THEN {Outcome(-1, reads, tf)}
  ELSE LET f == FetchInt(U64(uargv + 8 * i)) IN
       IF f.ret < 0 THEN {Outcome(-1, reads \cup f.reads, tf)}
       ELSE IF f.val = 0 THEN ExecOutcomes(tf, i, reads \cup f.reads)
       ELSE LET s == FetchStr(f.val) IN
            IF s.ret < 0 THEN {Outcome(-1, reads \cup f.reads \cup s.reads, tf)}
            ELSE ExecArgs(tf, uargv, i + 1, reads \cup f.reads \cup s.reads)

SysExec(tf) ==
  LET path == ArgStr(tf, 0) IN
  IF path.ret < 0 THEN {Outcome(-1, path.reads, tf)}
  ELSE ExecArgs(tf, ArgInt(tf, 1), 0, path.reads)

\* The handler behind a table entry.  exit never returns; the others
\* whose work lies outside src/ return 0 or -1 and read nothing here.
Handler(name, tf) ==
  CASE name = "getpid" -> {Outcome(Pid, {}, tf)}
    [] name = "write"  -> SysWrite(tf)
    [] name = "exec"   -> SysExec(tf)
    [] name = "exit"   -> {[Outcome(0, {}, tf) EXCEPT !.exits = TRUE]}
    [] name = "wild"   -> {Outcome(0, {}, tf)}
    [] OTHER           -> {Outcome(0, {}, tf), Outcome(-1, {}, tf)}

\* syscall(): the mutant forgets to write -1 for an unknown call.
Syscall_unknownKeepsR0(tf) ==
  LET num == ToInt(tf.r0) IN
  IF num > 0 /\ num <= NELEM
    THEN UNION {IF e = NULL THEN {Outcome(-1, {}, tf)}
                ELSE {[o EXCEPT !.tf = IF num # SYS_exec
                                         THEN [o.tf EXCEPT !.r0 = U64(o.ret)]
                                         ELSE o.tf]
                        : o \in Handler(e, tf)}
                : e \in EntryAt(num)}
    ELSE {Outcome(-1, {}, tf)}

\* syscall(): num = (int) r0; the table test; r0 = ret except for
\* SYS_exec; -1 for an unknown call.
Syscall(tf) ==
  LET num == ToInt(tf.r0) IN
  IF num > 0 /\ num <= NELEM
    THEN UNION {IF e = NULL THEN {Outcome(-1, {}, [tf EXCEPT !.r0 = U64(-1)])}
                ELSE {[o EXCEPT !.tf = IF num # SYS_exec
                                         THEN [o.tf EXCEPT !.r0 = U64(o.ret)]
                                         ELSE o.tf]
                        : o \in Handler(e, tf)}
                : e \in EntryAt(num)}
    ELSE {Outcome(-1, {}, [tf EXCEPT !.r0 = U64(-1)])}
=============================================================================
