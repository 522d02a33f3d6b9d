-------------------------- MODULE KmallocContract --------------------------
(***************************************************************************)
(* What kmalloc and kfree promise their callers (spec.md 4.1), whatever    *)
(* data structure implements them: kmalloc(order) returns a block of       *)
(* 2^order bytes, aligned to its size, inside [start_heap, end), that      *)
(* overlaps no block still outstanding; it returns NULL only when no such  *)
(* block exists.  kfree(p, order) takes back an outstanding block.         *)
(***************************************************************************)
EXTENDS Integers

CONSTANTS
  MIN_ORD, MAX_ORD,   \* the orders kmalloc accepts
  HEAP_LEN,           \* end - start_heap, a multiple of 2^MAX_ORD
  NULL                \* the null pointer

VARIABLES
  allocated,   \* the outstanding blocks, [addr, order] records
  ret          \* the result of the last kmalloc, [order, up]

Orders == MIN_ORD..MAX_ORD

\* The blocks of order o: aligned to 2^o and inside the heap.
Blocks(o) == {[addr |-> k * 2^o, order |-> o] : k \in 0..(HEAP_LEN \div 2^o) - 1}

Disjoint(b, c) == b.addr + 2^b.order <= c.addr \/ c.addr + 2^c.order <= b.addr

Fits(b) == \A c \in allocated : Disjoint(b, c)

Init ==
  /\ allocated = {}
  /\ ret = [order |-> 0, up |-> NULL]

Alloc(o) ==
  \/ \E b \in Blocks(o) :
       /\ Fits(b)
       /\ allocated' = allocated \cup {b}
       /\ ret' = [order |-> o, up |-> b.addr]
  \/ /\ \A b \in Blocks(o) : ~Fits(b)
     /\ ret' = [order |-> o, up |-> NULL]
     /\ UNCHANGED allocated

Free(b) ==
  /\ b \in allocated
  /\ allocated' = allocated \ {b}
  /\ UNCHANGED ret

Next ==
  \/ \E o \in Orders : Alloc(o)
  \/ \E b \in allocated : Free(b)

Spec == Init /\ [][Next]_<<allocated, ret>>
=============================================================================
