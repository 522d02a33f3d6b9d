------------------------- MODULE MCBuddyDoubleFree -------------------------
(***************************************************************************)
(* The Buddy model with a kernel that may call kfree(p, order) a second    *)
(* time on a block it has already freed (and that no later kmalloc has     *)
(* handed out again): the scenario of spec.md 4.1 "double-free triggers    *)
(* fatal panic" and 8 "calling kfree(p, k) twice panics".                  *)
(***************************************************************************)
EXTENDS MCBuddy

VARIABLES
  released,     \* blocks freed once and not overlapping any owned block
  doubleFreed   \* a second kfree of a released block has been made

dfVars == <<vars, released, doubleFreed>>

Disjoint(b, c) == b.addr + 2^b.order <= c.addr \/ c.addr + 2^c.order <= b.addr

DFInit == Init /\ released = {} /\ doubleFreed = FALSE

\* A kernel step of the Buddy model; the blocks it freed become released.
KernelStep ==
  /\ Next
  /\ released' = {r \in released \cup (owned \ owned') :
                    \A o \in owned' : Disjoint(r, o)}
  /\ UNCHANGED doubleFreed

\* kfree(p, order) again on a block already freed.
DoubleFree(b) ==
  /\ panic = NoPanic
  /\ SetState(KFreeCall(State, b.addr, b.order))
  /\ released' = released \ {b}
  /\ doubleFreed' = TRUE
  /\ UNCHANGED <<owned, ret>>

DFNext == KernelStep \/ \E b \in released : DoubleFree(b)

DFSpec == DFInit /\ [][DFNext]_dfVars

(***************************************************************************)
(* spec.md: a second kfree of the same block panics.  The check in _kfree  *)
(* (buddy.c:268) and mark_blk only looks at the block's own bit at its own *)
(* order; once the first kfree merged the block with its buddy that bit is *)
(* clear again and the second kfree marks the memory free a second time.   *)
(***************************************************************************)
DoubleFreePanics == doubleFreed => panic # NoPanic
=============================================================================
