------------------------------- MODULE Buddy -------------------------------
(***************************************************************************)
(* The buddy allocator of src/xv6-armv8/buddy.c.                           *)
(*                                                                         *)
(* Every order MIN_ORD..MAX_ORD has an array of marks; a mark covers BITS  *)
(* blocks of its order with a bitmap (1 = block available) and a pair of   *)
(* 16-bit links (pre, next) that chain the marks whose bitmap is non-zero  *)
(* into a doubly linked list starting at head[order].  The code fixes      *)
(* BITS at 32 (blk_id >> 5, blk_id & 0x1F); the model keeps it a constant  *)
(* 2^LOG_BITS so that a small heap still spreads over several marks and    *)
(* the list code runs with more than one element.                          *)
(*                                                                         *)
(* Addresses are byte offsets from kmem.start_heap, which kmem_init2       *)
(* aligns to 2^MAX_ORD, so alignment of an offset equals alignment of the  *)
(* pointer.  kmalloc and kfree hold kmem.lock (pushcli: interrupts off)    *)
(* for their whole run and no interrupt handler allocates, so on the one   *)
(* CPU each public call is one atomic step; the internal recursion         *)
(* (_kmalloc, _kfree, mark_blk, unmark_blk, get_blk) is computed by the    *)
(* operators below on a record holding the allocator state.                *)
(*                                                                         *)
(* The client is the rest of the kernel: it calls kmalloc(order) for any   *)
(* order and kfree(p, order) for a block it owns.                          *)
(***************************************************************************)
EXTENDS Integers, Sequences, SequencesExt

CONSTANTS
  MIN_ORD,    \* smallest order (6 in the code)
  MAX_ORD,    \* largest order (12 in the code)
  LOG_BITS,   \* log2 of the blocks per mark (5 in the code)
  NBLK,       \* number of MAX_ORD blocks between start_heap and end
  NULL        \* the null pointer kmalloc returns when out of memory

ASSUME MIN_ORD \in Nat /\ MAX_ORD \in Nat /\ MIN_ORD < MAX_ORD
ASSUME LOG_BITS \in Nat \ {0} /\ NBLK \in Nat \ {0}

VARIABLES
  bitmap,   \* bitmap[o][m]: the bits set in mark m of order o
  lnks,     \* lnks[o][m]: [pre, next] links of mark m of order o
  head,     \* head[o]: kmem.orders[o].head, the first mark on the list
  panic,    \* the message of the panic the kernel stopped on, or NoPanic
  owned,    \* blocks the kernel holds from kmalloc: [addr, order] records
  ret       \* the result of the last kmalloc: [order, up], or NoCall

vars == <<bitmap, lnks, head, panic, owned, ret>>

NIL == 65535                   \* (uint16)0xFFFF
BITS == 2^LOG_BITS
NoPanic == "none"
NoCall == [order |-> 0, up |-> NULL]
Orders == MIN_ORD..MAX_ORD
HEAP_LEN == NBLK * 2^MAX_ORD   \* end - start_heap

\* kmem_init2: n = (len >> (MAX_ORD + 5)) + 1 marks at MAX_ORD, doubling at
\* each smaller order.
NMarks(o) == ((HEAP_LEN \div 2^(MAX_ORD + LOG_BITS)) + 1) * 2^(MAX_ORD - o)
Marks(o) == 0..NMarks(o) - 1
NBlocks(o) == HEAP_LEN \div 2^o
Unlinked == [pre |-> NIL, next |-> NIL]        \* LNKS(NIL, NIL)

\* get_mark, available, blkid2mem, mem2blkid.
MarkOf(blk_id) == blk_id \div BITS             \* blk_id >> 5
BitOf_fixedMask(blk_id) == blk_id % 32
BitOf(blk_id) == blk_id % BITS                 \* blk_id & 0x1F
Available(bm, blk_id) == BitOf(blk_id) \in bm
Blkid2mem(order, blk_id) == blk_id * 2^order
Mem2blkid(order, mem) == mem \div 2^order
BuddyOf(blk_id) == IF blk_id % 2 = 0 THEN blk_id + 1 ELSE blk_id - 1  \* ^ 1
PairBase(blk_id) == blk_id - (blk_id % 2)                            \* & ~1

\* The allocator state the internal functions read and write.
State == [bitmap |-> bitmap, lnks |-> lnks, head |-> head, panic |-> panic]

Panic(s, msg) == [s EXCEPT !.panic = msg]

\* F applied to the value of x, with x evaluated once. The internal
\* functions thread one state through many calls; binding each
\* intermediate state as a value keeps TLC from evaluating it again at
\* every use when it profiles the specification.
Bind(x, F(_)) == CHOOSE y \in {F(v) : v \in {x}} : TRUE

(***************************************************************************)
(* unmark_blk(order, blk_id): clear the block's bit; when the mark's       *)
(* bitmap becomes empty, unlink the mark from the order's list.            *)
(***************************************************************************)
UnmarkBlk_keepHead(s, order, blk_id) ==
  LET m    == MarkOf(blk_id)
      bm   == s.bitmap[order][m] \ {BitOf(blk_id)}
      prev == s.lnks[order][m].pre
      next == s.lnks[order][m].next
      l1   == IF prev # NIL THEN [s.lnks EXCEPT ![order][prev].next = next]
                            ELSE s.lnks
      l2   == IF next # NIL THEN [l1 EXCEPT ![order][next].pre = prev] ELSE l1
  IN  IF ~Available(s.bitmap[order][m], blk_id) THEN Panic(s, "double alloc")
      ELSE IF bm # {} THEN [s EXCEPT !.bitmap[order][m] = bm]
      ELSE [s EXCEPT !.bitmap[order][m] = bm,
                     !.lnks = [l2 EXCEPT ![order][m] = Unlinked]]

UnmarkBlk(s, order, blk_id) ==
  LET m    == MarkOf(blk_id)
      bm   == s.bitmap[order][m] \ {BitOf(blk_id)}
      prev == s.lnks[order][m].pre
      next == s.lnks[order][m].next
      l1   == IF prev # NIL THEN [s.lnks EXCEPT ![order][prev].next = next]
                            ELSE s.lnks
      h1   == IF prev = NIL /\ s.head[order] = m
                THEN [s.head EXCEPT ![order] = next] ELSE s.head
      l2   == IF next # NIL THEN [l1 EXCEPT ![order][next].pre = prev] ELSE l1
  IN  IF ~Available(s.bitmap[order][m], blk_id) THEN Panic(s, "double alloc")
      ELSE IF bm # {} THEN [s EXCEPT !.bitmap[order][m] = bm]
      ELSE [s EXCEPT !.bitmap[order][m] = bm,
                     !.lnks = [l2 EXCEPT ![order][m] = Unlinked],
                     !.head = h1]

(***************************************************************************)
(* mark_blk(order, blk_id): set the block's bit; a mark whose bitmap was   *)
(* empty is pushed at the head of the order's list.                        *)
(***************************************************************************)
MarkBlk(s, order, blk_id) ==
  LET m  == MarkOf(blk_id)
      hd == s.head[order]
      l1 == [s.lnks EXCEPT ![order][m] = [pre |-> NIL, next |-> hd]]
  IN  IF Available(s.bitmap[order][m], blk_id) THEN Panic(s, "double free")
      ELSE IF s.bitmap[order][m] # {}
        THEN [s EXCEPT !.bitmap[order][m] = @ \cup {BitOf(blk_id)}]
      ELSE [s EXCEPT !.bitmap[order][m] = @ \cup {BitOf(blk_id)},
                     !.lnks = IF hd # NIL THEN [l1 EXCEPT ![order][hd].pre = m]
                                          ELSE l1,
                     !.head[order] = m]

(***************************************************************************)
(* get_blk(order): take the lowest available block of the head mark.       *)
(* Returns [st |-> state, up |-> address].                                 *)
(***************************************************************************)
LowestBit(bm) == CHOOSE i \in bm : \A j \in bm : i <= j

GetBlk(s, order) ==
  LET bm     == s.bitmap[order][s.head[order]]
      blk_id == s.head[order] * BITS + LowestBit(bm)
  IN  IF bm = {} THEN [st |-> Panic(s, "empty mark in the list"), up |-> NULL]
      ELSE [st |-> UnmarkBlk(s, order, blk_id), up |-> Blkid2mem(order, blk_id)]

(***************************************************************************)
(* _kfree(mem, order): when the buddy is available (and order < MAX_ORD),  *)
(* take the buddy off its bitmap and free the merged block one order up;   *)
(* otherwise mark the block available.                                     *)
(***************************************************************************)
RECURSIVE KFreeRec(_, _, _)

KFreeRec_noMerge(s, mem, order) ==
  LET blk_id == Mem2blkid(order, mem)
      bm     == s.bitmap[order][MarkOf(blk_id)]
  IN  IF s.panic # NoPanic THEN s
      ELSE IF Available(bm, blk_id) THEN Panic(s, "kfree: double free")
      ELSE MarkBlk(s, order, blk_id)

KFreeRec(s, mem, order) ==
  LET blk_id == Mem2blkid(order, mem)
      bm     == s.bitmap[order][MarkOf(blk_id)]
  IN  IF s.panic # NoPanic THEN s
      ELSE IF Available(bm, blk_id) THEN Panic(s, "kfree: double free")
      ELSE IF ~Available(bm, BuddyOf(blk_id)) \/ order = MAX_ORD
        THEN MarkBlk(s, order, blk_id)
      ELSE Bind(UnmarkBlk(s, order, BuddyOf(blk_id)),
                LAMBDA u : KFreeRec(u, Blkid2mem(order, PairBase(blk_id)),
                                    order + 1))

(***************************************************************************)
(* _kmalloc(order): take a block from the order's list; if the list is     *)
(* empty, allocate one order up, free its upper half at this order and     *)
(* return the lower half.  Returns [st |-> state, up |-> address or NULL]. *)
(***************************************************************************)
RECURSIVE KMallocRec(_, _)

KMallocRec_noSplit(s, order) ==
  IF s.head[order] # NIL THEN GetBlk(s, order)
  ELSE [st |-> s, up |-> NULL]

KMallocRec_freeLower(s, order) ==
  IF s.head[order] # NIL THEN GetBlk(s, order)
  ELSE IF order < MAX_ORD
    THEN Bind(KMallocRec(s, order + 1),
              LAMBDA r : IF r.up # NULL
                           THEN [st |-> KFreeRec(r.st, r.up, order), up |-> r.up]
                           ELSE r)
  ELSE [st |-> s, up |-> NULL]

KMallocRec(s, order) ==
  IF s.head[order] # NIL THEN GetBlk(s, order)
  ELSE IF order < MAX_ORD
    THEN Bind(KMallocRec(s, order + 1),
              LAMBDA r : IF r.up # NULL
                           THEN [st |-> KFreeRec(r.st, r.up + 2^order, order), up |-> r.up]
                           ELSE r)
  ELSE [st |-> s, up |-> NULL]

SetState(s) ==
  /\ bitmap' = s.bitmap
  /\ lnks'   = s.lnks
  /\ head'   = s.head
  /\ panic'  = s.panic

(***************************************************************************)
(* kmem_init2: every mark empty and unlinked, every head NIL, then         *)
(* kfree(i, MAX_ORD) for each MAX_ORD block from start_heap up to end.     *)
(***************************************************************************)
EmptyState ==
  [bitmap |-> [o \in Orders |-> [m \in Marks(o) |-> {}]],
   lnks   |-> [o \in Orders |-> [m \in Marks(o) |-> Unlinked]],
   head   |-> [o \in Orders |-> NIL],
   panic  |-> NoPanic]

RECURSIVE FreeHeap(_, _)
FreeHeap(s, i) ==
  IF i >= HEAP_LEN THEN s
  ELSE Bind(KFreeRec(s, i, MAX_ORD), LAMBDA u : FreeHeap(u, i + 2^MAX_ORD))

InitState == FreeHeap(EmptyState, 0)

Init ==
  /\ bitmap = InitState.bitmap
  /\ lnks = InitState.lnks
  /\ head = InitState.head
  /\ panic = InitState.panic
  /\ owned = {}
  /\ ret = NoCall

(***************************************************************************)
(* kmalloc(order): panics on an order out of range, else _kmalloc under    *)
(* kmem.lock.                                                              *)
(***************************************************************************)
KMalloc(order) ==
  /\ panic = NoPanic
  /\ IF order \notin Orders
       THEN /\ panic' = "kmalloc: order out of range"
            /\ UNCHANGED <<bitmap, lnks, head, owned, ret>>
       ELSE LET r == KMallocRec(State, order)
            IN  /\ SetState(r.st)
                /\ ret' = [order |-> order, up |-> r.up]
                /\ owned' = IF r.up = NULL THEN owned
                            ELSE owned \cup {[addr |-> r.up, order |-> order]}

(***************************************************************************)
(* kfree(mem, order): panics on an order out of range or an unaligned      *)
(* pointer, else _kfree under kmem.lock.  The kernel frees what it owns.   *)
(***************************************************************************)
KFreeCall_alignMask(s, mem, order) ==
  IF order \notin Orders \/ mem % 2^(order + 1) # 0
    THEN Panic(s, "kfree: order out of range or memory unaligned")
    ELSE KFreeRec(s, mem, order)

KFreeCall(s, mem, order) ==
  IF order \notin Orders \/ mem % 2^order # 0
    THEN Panic(s, "kfree: order out of range or memory unaligned")
    ELSE KFreeRec(s, mem, order)

KFree(b) ==
  /\ panic = NoPanic
  /\ b \in owned
  /\ SetState(KFreeCall(State, b.addr, b.order))
  /\ owned' = owned \ {b}
  /\ UNCHANGED ret

Next ==
  \/ \E o \in Orders : KMalloc(o)
  \/ \E b \in owned : KFree(b)

Spec == Init /\ [][Next]_vars

(***************************************************************************)
(* Properties.                                                             *)
(***************************************************************************)
Link(o) == Marks(o) \cup {NIL}
Block == [addr : 0..HEAP_LEN - 1, order : Orders]

TypeOK ==
  /\ \A o \in Orders :
       /\ bitmap[o] \in [Marks(o) -> SUBSET (0..BITS - 1)]
       /\ lnks[o] \in [Marks(o) -> [pre : Link(o), next : Link(o)]]
       /\ head[o] \in Link(o)
  /\ panic \in STRING
  /\ owned \subseteq Block
  /\ ret \in [order : Orders \cup {0}, up : (0..HEAP_LEN - 1) \cup {NULL}]

\* The ids of the available blocks of order o, and the free blocks.
FreeIds(o) == {b \in 0..NMarks(o) * BITS - 1 : Available(bitmap[o][MarkOf(b)], b)}
FreeBlocks ==
  UNION {{[addr |-> Blkid2mem(o, b), order |-> o] : b \in FreeIds(o)} : o \in Orders}

\* The marks met walking the next links from mark m, at most n of them.
RECURSIVE Walk(_, _, _)
Walk(o, m, n) ==
  IF m = NIL \/ n = 0 THEN <<>> ELSE <<m>> \o Walk(o, lnks[o][m].next, n - 1)

(***************************************************************************)
(* mark_blk and unmark_blk keep, at every order, the list from head        *)
(* through the next links a NIL-terminated, duplicate-free chain of        *)
(* exactly the marks whose bitmap is non-zero, with every pre link the     *)
(* reverse of a next link and every unlisted mark unlinked.  _kmalloc      *)
(* trusts head = NIL to mean "nothing free at this order", and get_blk     *)
(* panics on an empty head mark, so a list that drifts from the bitmaps    *)
(* loses memory or stops the kernel.                                       *)
(***************************************************************************)
FreeListsWellFormed ==
  \A o \in Orders :
    LET L == Walk(o, head[o], NMarks(o) + 1)
    IN  /\ Len(L) <= NMarks(o)
        /\ IsInjective(L)
        /\ ToSet(L) = {m \in Marks(o) : bitmap[o][m] # {}}
        /\ \A i \in 1..Len(L) : lnks[o][L[i]].pre = IF i = 1 THEN NIL ELSE L[i - 1]
        /\ \A m \in Marks(o) \ ToSet(L) : lnks[o][m] = Unlinked

(***************************************************************************)
(* Conservation and non-overlap: the available blocks of all orders and    *)
(* the blocks kmalloc has handed out and kfree has not taken back tile     *)
(* [start_heap, end) exactly; no block is both free and owned, no two      *)
(* overlap and no free block reaches past end.                             *)
(***************************************************************************)
Covers(blk, a) == blk.addr <= a /\ a < blk.addr + 2^blk.order

HeapPartition ==
  /\ FreeBlocks \cap owned = {}
  /\ \A b \in FreeBlocks : b.addr + 2^b.order <= HEAP_LEN
  /\ \A u \in 0..NBlocks(MIN_ORD) - 1 :
       Cardinality({b \in FreeBlocks \cup owned : Covers(b, u * 2^MIN_ORD)}) = 1

(***************************************************************************)
(* _kfree merges a freed block with its free buddy all the way up, so no   *)
(* two buddies below MAX_ORD are ever both available: memory freed in any  *)
(* order coalesces back into MAX_ORD blocks and a later kmalloc of a large *)
(* order is never refused for fragmentation the code could have undone.    *)
(***************************************************************************)
BuddiesCoalesced ==
  \A o \in Orders \ {MAX_ORD} : \A b \in FreeIds(o) : BuddyOf(b) \notin FreeIds(o)

(***************************************************************************)
(* The consistency panics of buddy.c ("double alloc" in unmark_blk,        *)
(* "empty mark in the list" in get_blk, "double free" in mark_blk and      *)
(* _kfree) are never reached while the kernel frees only what it owns.     *)
(***************************************************************************)
AllocatorNeverPanics == panic = NoPanic

(***************************************************************************)
(* Refinement: the buddy allocator implements KmallocContract with the     *)
(* blocks the kernel owns as the outstanding blocks.  In particular        *)
(* kmalloc never returns NULL while an aligned free region of the size     *)
(* asked for exists: the split path of _kmalloc and the merges of _kfree   *)
(* together never strand free memory in pieces too small to use.          *)
(***************************************************************************)
Contract == INSTANCE KmallocContract WITH allocated <- owned

KmallocContractSpec == Contract!Spec
=============================================================================
