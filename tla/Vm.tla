-------------------------------- MODULE Vm ---------------------------------
(***************************************************************************)
(* The page-table-page pool and the user virtual-memory runtime (vm.c,     *)
(* exec.c) on top of the buddy allocator (Buddy).                          *)
(*                                                                         *)
(* The world is the allocator state of Buddy, the pool's free list and the *)
(* user page-table trees. A tree ("space") is a PGD page, the PMD page of  *)
(* PGD slot 0 (user addresses are below UADDR_SZ < PGD_SZ, so PGD_IDX is   *)
(* always 0), the PT pages of the PMD slots and the leaf entries.          *)
(* Addresses are byte offsets from start_heap. The boot reservoir below    *)
(* INIT_KERNMAP holds negative addresses, so kpt_free's test               *)
(* v >= P2V(INIT_KERNMAP) becomes v >= 0. Each vm.c function is an         *)
(* operator from a world to a world, and each kernel call that uses them   *)
(* is one step. The kernel runs one thread at a time and none of these     *)
(* functions sleeps; exec sleeps in readi between its segments, so exec    *)
(* is several steps and other processes run in between.                   *)
(***************************************************************************)
EXTENDS Integers, Sequences, SequencesExt, FiniteSets

CONSTANTS
    MIN_ORD, MAX_ORD, LOG_BITS, NBLK, NULL,  \* the buddy allocator's
    PT_ORDER,    \* PT_ORDER: the buddy order kpt_alloc asks for
    PTE_SHIFT,   \* the order of a user page (alloc_page = kmalloc(PTE_SHIFT))
    PT_SZ,       \* PT_SZ: the bytes a page table occupies (PTRS_PER_PTE << 3)
    NPTE,        \* PTE slots per PT page that user addresses reach
    NPMD,        \* PMD slots that user addresses (< UADDR_SZ) reach
    RESERVOIR,   \* page-table pages kpt_freerange puts on the free list
    Spaces,      \* identities of user page-table trees
    NONE,        \* an absent table or entry
    MAXARG,      \* MAXARG: exec's bound on argc
    ArgLens,     \* the strlen of the argument strings a caller may pass
    Segs,        \* the program headers [vaddr, memsz, filesz] a file may hold
    HeapTables,  \* FALSE: explore only steps whose tables come from the reservoir
    Wild         \* a physical page named by bytes that are not a page entry

VARIABLES
    bitmap, lnks, head, panic,  \* the buddy allocator (Buddy)
    freelist,   \* kpt_mem.freelist, head first
    sp,         \* sp[t]: the tree t, or NONE
    building,   \* building[t]: the space whose exec is building t, or NONE
    copied,     \* the pages the latest exec's copyouts wrote (history)
    loaded      \* the entries the latest step's loaduvm read into (history)

vars == <<bitmap, lnks, head, panic, freelist, sp, building, copied, loaded>>

PTE_SZ == 2^PTE_SHIFT
PMD_SZ == NPTE * PTE_SZ
UADDR_SZ == NPMD * PMD_SZ
Pages == 0..NPMD * NPTE - 1      \* user page numbers
PmdSlots == 0..NPMD - 1
APs == {"RW_1", "RW_1_0"}         \* AP_RW_1 (kernel only), AP_RW_1_0 (user)

AlignUp(x, n) == ((x + n - 1) \div n) * n
\* align_dn: \div floors, as & ~(n - 1) does on a two's-complement value.
AlignDn(x, n) == (x \div n) * n
PageOf(a) == a \div PTE_SZ
PmdSlot(a) == PageOf(a) \div NPTE

\* Every page-table page and user page held by some tree, by slot.
Slots ==
  UNION {{<<t, "pgdir", 0>>}
         \cup (IF sp[t].pmd # NONE THEN {<<t, "pmd", 0>>} ELSE {})
         \cup {<<t, "pt", i>> : i \in {x \in PmdSlots : sp[t].pt[x] # NONE}}
         \cup {<<t, "pg", v>> : v \in {x \in Pages : sp[t].pte[x] # NONE}}
           : t \in {u \in Spaces : sp[u] # NONE}}

AddrOf(s) ==
  CASE s[2] = "pgdir" -> sp[s[1]].pgdir
    [] s[2] = "pmd"   -> sp[s[1]].pmd
    [] s[2] = "pt"    -> sp[s[1]].pt[s[3]]
    [] s[2] = "pg"    -> sp[s[1]].pte[s[3]].pa

HeapRefs ==
  {[addr |-> AddrOf(s), order |-> IF s[2] = "pg" THEN PTE_SHIFT ELSE PT_ORDER] :
     s \in Slots}

B == INSTANCE Buddy WITH owned <- {r \in HeapRefs : r.addr >= 0},
                         ret <- [order |-> 0, up |-> NULL]

World == [bitmap |-> bitmap, lnks |-> lnks, head |-> head, panic |-> panic,
          freelist |-> freelist, sp |-> sp]

(***************************************************************************)
(* The code reads a table address back from its entry through             *)
(* PG_ADDR_MASK or PT_ADDR, 4 KiB masks (vm.c:99, 113, 323, 327).  The    *)
(* reservoir's tables are PT_SZ-aligned (kpt_freerange steps by PT_SZ from *)
(* align_up(&end, PT_SZ)), so the mask gives the table back and the model  *)
(* keeps the address itself.  A table from kmalloc(PT_ORDER) is a 1 KiB    *)
(* block the mask moves to the start of its page, which the model does not *)
(* follow.  With HeapTables = FALSE an instance takes only the steps in   *)
(* which kpt_alloc finds the free list non-empty or kmalloc fails.         *)
(***************************************************************************)
TookHeapTable(w) == "heapTable" \in DOMAIN w

SetWorld(w) ==
  \E v \in {w} :
    /\ HeapTables \/ ~TookHeapTable(v)
    /\ bitmap' = v.bitmap /\ lnks' = v.lnks /\ head' = v.head
    /\ panic' = v.panic /\ freelist' = v.freelist /\ sp' = v.sp

Halted(w) == w.panic # B!NoPanic

EmptySpace(pg) ==
  [pgdir |-> pg, pmd |-> NONE, pt |-> [i \in PmdSlots |-> NONE],
   pte |-> [v \in Pages |-> NONE], sz |-> 0]

(***************************************************************************)
(* kpt_alloc: pop the free list; if it is empty, kmalloc(PT_ORDER); panic  *)
(* when that fails too.  Returns [st |-> world, r |-> address].            *)
(***************************************************************************)
KptAlloc(w) ==
  IF w.freelist # <<>>
    THEN [st |-> [w EXCEPT !.freelist = Tail(@)], r |-> Head(w.freelist)]
  ELSE B!Bind(B!KMallocRec(w, PT_ORDER), LAMBDA m :
         IF m.up = NULL THEN [st |-> B!Panic(m.st, "oom: kpt_alloc"), r |-> NULL]
         ELSE [st |-> ("heapTable" :> TRUE) @@ m.st, r |-> m.up])

\* kpt_free: heap addresses go back to the buddy allocator at PT_ORDER,
\* reservoir addresses to the head of the free list.
KptFree(w, v) ==
  IF v >= 0 THEN B!KFreeCall(w, v, PT_ORDER)
  ELSE [w EXCEPT !.freelist = <<v>> \o @]

(***************************************************************************)
(* walkpgdir(pgdir, va, alloc): find, or with alloc create, the PMD page   *)
(* and the PT page on the way to va's entry.  Returns [st, ok]; ok is      *)
(* FALSE where the code returns 0.                                         *)
(***************************************************************************)
WalkPmd(w, t, a, alloc) ==
  LET i == PmdSlot(a) IN
  IF w.sp[t].pt[i] # NONE THEN [st |-> w, ok |-> TRUE]
  ELSE IF ~alloc THEN [st |-> w, ok |-> FALSE]
  ELSE B!Bind(KptAlloc(w), LAMBDA r :
         IF Halted(r.st) THEN [st |-> r.st, ok |-> FALSE]
         ELSE [st |-> [r.st EXCEPT !.sp[t].pt[i] = r.r], ok |-> TRUE])

WalkPgdir(w, t, a, alloc) ==
  IF w.sp[t].pmd # NONE THEN WalkPmd(w, t, a, alloc)
  ELSE IF ~alloc THEN [st |-> w, ok |-> FALSE]
  ELSE B!Bind(KptAlloc(w), LAMBDA r :
         IF Halted(r.st) THEN [st |-> r.st, ok |-> FALSE]
         ELSE WalkPmd([r.st EXCEPT !.sp[t].pmd = r.r], t, a, alloc))

\* mappages(pgdir, a, PTE_SZ, pa, ap): every caller maps one aligned page.
MapPage(w, t, a, pa, ap) ==
  B!Bind(WalkPgdir(w, t, a, TRUE), LAMBDA r :
    IF Halted(r.st) THEN r.st
    ELSE IF r.st.sp[t].pte[PageOf(a)] # NONE THEN B!Panic(r.st, "remap")
    ELSE [r.st EXCEPT !.sp[t].pte[PageOf(a)] = [pa |-> pa, ap |-> ap]])

(***************************************************************************)
(* deallocuvm(pgdir, oldsz, newsz): free and clear every present page in   *)
(* [align_up(newsz), oldsz); where the PMD or PT page is absent, jump to   *)
(* align_up(a, PMD_SZ) before the loop's own a += PTE_SZ.                  *)
(***************************************************************************)
RECURSIVE DeallocLoop(_, _, _, _)
DeallocLoop(w, t, a, oldsz) ==
  IF Halted(w) \/ a >= oldsz THEN w
  ELSE IF ~WalkPgdir(w, t, a, FALSE).ok
    THEN DeallocLoop(w, t, AlignUp(a, PMD_SZ) + PTE_SZ, oldsz)
  ELSE LET e == w.sp[t].pte[PageOf(a)]
       IN  IF e = NONE THEN DeallocLoop(w, t, a + PTE_SZ, oldsz)
           ELSE B!Bind([B!KFreeCall(w, e.pa, PTE_SHIFT)
                          EXCEPT !.sp[t].pte[PageOf(a)] = NONE],
                       LAMBDA u : DeallocLoop(u, t, a + PTE_SZ, oldsz))

Deallocuvm(w, t, oldsz, newsz) ==
  IF newsz >= oldsz THEN w ELSE DeallocLoop(w, t, AlignUp(newsz, PTE_SZ), oldsz)

(***************************************************************************)
(* allocuvm(pgdir, oldsz, newsz): map a fresh page at every a in           *)
(* [align_up(oldsz), newsz); when alloc_page fails, deallocuvm(pgdir,      *)
(* newsz, oldsz) and return 0.  Returns [st, ret].                         *)
(***************************************************************************)
RECURSIVE AllocLoop(_, _, _, _, _)
AllocLoop_rollbackSwapped(w, t, a, oldsz, newsz) ==
  IF Halted(w) \/ a >= newsz THEN [st |-> w, ret |-> newsz]
  ELSE B!Bind(B!KMallocRec(w, PTE_SHIFT), LAMBDA m :
         IF m.up = NULL
           THEN [st |-> Deallocuvm(m.st, t, oldsz, newsz), ret |-> 0]
         ELSE B!Bind(MapPage(m.st, t, a, m.up, "RW_1_0"), LAMBDA u :
                AllocLoop(u, t, a + PTE_SZ, oldsz, newsz)))

AllocLoop(w, t, a, oldsz, newsz) ==
  IF Halted(w) \/ a >= newsz THEN [st |-> w, ret |-> newsz]
  ELSE B!Bind(B!KMallocRec(w, PTE_SHIFT), LAMBDA m :
         IF m.up = NULL
           THEN [st |-> Deallocuvm(m.st, t, newsz, oldsz), ret |-> 0]
         ELSE B!Bind(MapPage(m.st, t, a, m.up, "RW_1_0"), LAMBDA u :
                AllocLoop(u, t, a + PTE_SZ, oldsz, newsz)))

Allocuvm(w, t, oldsz, newsz) ==
  IF newsz >= UADDR_SZ THEN [st |-> w, ret |-> 0]
  ELSE IF newsz < oldsz THEN [st |-> w, ret |-> oldsz]
  ELSE AllocLoop(w, t, AlignUp(oldsz, PTE_SZ), oldsz, newsz)

(***************************************************************************)
(* freevm(pgdir): deallocuvm(pgdir, UADDR_SZ, 0), then kpt_free every PT   *)
(* page of the PMD, the PMD page and the PGD page.                         *)
(***************************************************************************)
RECURSIVE FreePts(_, _, _)
FreePts(w, pts, i) ==
  IF i >= NPMD THEN w
  ELSE B!Bind(IF pts[i] # NONE THEN KptFree(w, pts[i]) ELSE w,
              LAMBDA u : FreePts(u, pts, i + 1))

Freevm_keepPmd(w, t) ==
  B!Bind(Deallocuvm(w, t, UADDR_SZ, 0), LAMBDA w1 :
  B!Bind(FreePts(w1, w1.sp[t].pt, 0), LAMBDA w2 :
    [KptFree(w2, w1.sp[t].pgdir) EXCEPT !.sp[t] = NONE]))

Freevm(w, t) ==
  B!Bind(Deallocuvm(w, t, UADDR_SZ, 0), LAMBDA w1 :
  B!Bind(FreePts(w1, w1.sp[t].pt, 0), LAMBDA w2 :
  B!Bind(IF w1.sp[t].pmd # NONE THEN KptFree(w2, w1.sp[t].pmd) ELSE w2,
         LAMBDA w3 : [KptFree(w3, w1.sp[t].pgdir) EXCEPT !.sp[t] = NONE])))

(***************************************************************************)
(* copyuvm(pgdir, sz) into the tree d of space c: for every page below sz  *)
(* (each must be present), alloc_page, copy and map it with the same AP;   *)
(* on alloc_page failure freevm(d).  Returns [st, ok].                     *)
(***************************************************************************)
RECURSIVE CopyLoop(_, _, _, _, _)
CopyLoop_sharePage(w, t, c, i, sz) ==
  IF Halted(w) \/ i >= sz THEN [st |-> w, ok |-> TRUE]
  ELSE IF ~WalkPgdir(w, t, i, FALSE).ok
    THEN [st |-> B!Panic(w, "copyuvm: pte should exist"), ok |-> FALSE]
  ELSE IF w.sp[t].pte[PageOf(i)] = NONE
    THEN [st |-> B!Panic(w, "copyuvm: page not present"), ok |-> FALSE]
  ELSE B!Bind(B!KMallocRec(w, PTE_SHIFT), LAMBDA m :
         IF m.up = NULL THEN [st |-> Freevm(m.st, c), ok |-> FALSE]
         ELSE B!Bind(MapPage(m.st, c, i, w.sp[t].pte[PageOf(i)].pa,
                                   w.sp[t].pte[PageOf(i)].ap), LAMBDA u :
                CopyLoop(u, t, c, i + PTE_SZ, sz)))

CopyLoop(w, t, c, i, sz) ==
  IF Halted(w) \/ i >= sz THEN [st |-> w, ok |-> TRUE]
  ELSE IF ~WalkPgdir(w, t, i, FALSE).ok
    THEN [st |-> B!Panic(w, "copyuvm: pte should exist"), ok |-> FALSE]
  ELSE IF w.sp[t].pte[PageOf(i)] = NONE
    THEN [st |-> B!Panic(w, "copyuvm: page not present"), ok |-> FALSE]
  ELSE B!Bind(B!KMallocRec(w, PTE_SHIFT), LAMBDA m :
         IF m.up = NULL THEN [st |-> Freevm(m.st, c), ok |-> FALSE]
         ELSE B!Bind(MapPage(m.st, c, i, m.up, w.sp[t].pte[PageOf(i)].ap), LAMBDA u :
                CopyLoop(u, t, c, i + PTE_SZ, sz)))

Copyuvm(w, t, c) ==
  B!Bind(KptAlloc(w), LAMBDA r :
    IF Halted(r.st) THEN [st |-> r.st, ok |-> FALSE]
    ELSE CopyLoop([r.st EXCEPT !.sp[c] = EmptySpace(r.r)], t, c, 0, w.sp[t].sz))

Clearpteu_readOnly(w, t, uva) ==
  IF ~WalkPgdir(w, t, uva, FALSE).ok THEN B!Panic(w, "clearpteu")
  ELSE IF w.sp[t].pte[PageOf(uva)] = NONE THEN w
  ELSE [w EXCEPT !.sp[t].pte[PageOf(uva)].ap = "RO_1"]

\* clearpteu(pgdir, uva): the entry's AP becomes AP_RW_1 (kernel only).
Clearpteu(w, t, uva) ==
  IF ~WalkPgdir(w, t, uva, FALSE).ok THEN B!Panic(w, "clearpteu")
  ELSE IF w.sp[t].pte[PageOf(uva)] = NONE THEN w
  ELSE [w EXCEPT !.sp[t].pte[PageOf(uva)].ap = "RW_1"]

\* The entry of t that maps the page at va, if any.
EntryAt(w, t, va) ==
  IF va \in 0..UADDR_SZ - 1 THEN w.sp[t].pte[PageOf(va)] ELSE NONE

(***************************************************************************)
(* loaduvm(pgdir, addr, ip, offset, sz): the outcomes [st, ret, loaded].  *)
(* It panics on an unaligned addr; then page by page it panics where      *)
(* walkpgdir finds no table, and readi fills the page the entry names,    *)
(* returning -1 if the file ends early.  loaded gains [va, e]: the page   *)
(* and the entry readi wrote through (NONE: PTE_ADDR(0), physical 0).     *)
(***************************************************************************)
RECURSIVE LoadLoop(_, _, _, _, _)
LoadLoop(w, t, va, n, ld) ==
  IF n <= 0 THEN {[st |-> w, ret |-> 0, loaded |-> ld]}
  ELSE IF ~WalkPgdir(w, t, va, FALSE).ok
    THEN {[st |-> B!Panic(w, "loaduvm: address should exist"), ret |-> 0, loaded |-> ld]}
  ELSE LET ld2 == ld \cup {[va |-> va, e |-> EntryAt(w, t, va)]}
       IN  {[st |-> w, ret |-> -1, loaded |-> ld2]}
             \cup LoadLoop(w, t, va + PTE_SZ, n - PTE_SZ, ld2)

Loaduvm(w, t, addr, sz) ==
  IF addr % PTE_SZ # 0
    THEN {[st |-> B!Panic(w, "loaduvm: addr must be page aligned"), ret |-> 0,
           loaded |-> {}]}
  ELSE LoadLoop(w, t, addr, sz, {})

(***************************************************************************)
(* uva2ka(pgdir, uva): the values it may return, NULL for 0.  When         *)
(* walkpgdir finds no table for uva (a va wrapped below 0 lies in PGD slot *)
(* 3, one at or above UADDR_SZ in a PMD slot no allocuvm fills) it returns *)
(* 0, and *pte reads address 0 through the current TTBR0: the caller's     *)
(* page 0, user data, mapped because the caller's argument strings lie     *)
(* below its sz.  Those eight bytes either fail the valid and AP tests, or *)
(* pass them and name some page, Wild.                                     *)
(***************************************************************************)
Uva2ka(w, t, uva) ==
  IF uva < 0 \/ uva >= UADDR_SZ \/ ~WalkPgdir(w, t, uva, FALSE).ok
    THEN {NULL, Wild}
  ELSE LET e == w.sp[t].pte[PageOf(uva)] IN
       IF e = NONE \/ e.ap # "RW_1_0" THEN {NULL} ELSE {e.pa}

(***************************************************************************)
(* copyout(pgdir, va, p, len): the outcomes [ret, wrote] it may end with.  *)
(* Page by page from align_dn(va), memmove into what uva2ka returns, and   *)
(* -1 at the first page it refuses, after the earlier ones were written.   *)
(* wrote gains [va, pa, e] per page: the page va0, the page written and    *)
(* the entry of pgdir that maps va0.  va is a uint: exec's uint64 sp below *)
(* 0 truncates to 2^32 - x, kept here as the negative -x.                  *)
(***************************************************************************)
RECURSIVE CopyoutLoop(_, _, _, _, _)
CopyoutLoop(w, t, va, len, wr) ==
  IF len <= 0 THEN {[ret |-> 0, wrote |-> wr]}
  ELSE LET va0 == AlignDn(va, PTE_SZ)
           n == IF PTE_SZ - (va - va0) > len THEN len ELSE PTE_SZ - (va - va0)
       IN  UNION {IF pa = NULL THEN {[ret |-> -1, wrote |-> wr]}
                  ELSE CopyoutLoop(w, t, va0 + PTE_SZ, len - n,
                         wr \cup {[va |-> va0, pa |-> pa, e |-> EntryAt(w, t, va0)]})
                    : pa \in Uva2ka(w, t, va0)}

(***************************************************************************)
(* exec's argument loop from argv[argc] on: goto bad past MAXARG, sp =     *)
(* (sp - (strlen + 1)) & ~7, copyout of the string, goto bad on -1.        *)
(* argv holds the strings' lengths.  The outcomes are [ok, sp, wrote].     *)
(***************************************************************************)
RECURSIVE PushArgs(_, _, _, _, _, _)
PushArgs(w, c, sp0, argv, argc, wr) ==
  IF argc = Len(argv) THEN {[ok |-> TRUE, sp |-> sp0, wrote |-> wr]}
  ELSE IF argc >= MAXARG THEN {[ok |-> FALSE, sp |-> sp0, wrote |-> wr]}
  ELSE LET nsp == AlignDn(sp0 - (argv[argc + 1] + 1), 8) IN
       UNION {IF r.ret < 0 THEN {[ok |-> FALSE, sp |-> nsp, wrote |-> r.wrote]}
              ELSE PushArgs(w, c, nsp, argv, argc + 1, r.wrote)
                : r \in CopyoutLoop(w, c, nsp, argv[argc + 1] + 1, wr)}

\* The ustack push: sp -= (argc + 1) * 8 and copyout of ustack.
PushUstack(w, c, a, argc) ==
  IF ~a.ok THEN {[ret |-> -1, wrote |-> a.wrote]}
  ELSE CopyoutLoop(w, c, a.sp - (argc + 1) * 8, (argc + 1) * 8, a.wrote)

(***************************************************************************)
(* Boot (kmain): init_vmm; kpt_freerange over the reservoir, pushing each  *)
(* PT_SZ step at the head; kmem_init2; then userinit's first tree: a PGD   *)
(* page from kpt_alloc and inituvm mapping one page at 0, sz = PTE_SZ.     *)
(***************************************************************************)
RECURSIVE KptFreerange(_, _, _)
KptFreerange(fl, low, hi) ==
  IF low < hi THEN KptFreerange(<<low>> \o fl, low + PT_SZ, hi) ELSE fl

\* inituvm(pgdir, init, sz): one fresh page mapped user-RW at address 0.
Inituvm(w, t) ==
  LET m == B!KMallocRec(w, PTE_SHIFT) IN MapPage(m.st, t, 0, m.up, "RW_1_0")

InitSpace == CHOOSE t \in Spaces : TRUE

BootWorld ==
  LET w0 == [bitmap |-> B!InitState.bitmap, lnks |-> B!InitState.lnks,
             head |-> B!InitState.head, panic |-> B!InitState.panic,
             freelist |-> KptFreerange(<<>>, -RESERVOIR * PT_SZ, 0),
             sp |-> [t \in Spaces |-> NONE]]
      r  == KptAlloc(w0)
      w1 == Inituvm([r.st EXCEPT !.sp[InitSpace] = EmptySpace(r.r)], InitSpace)
  IN  [w1 EXCEPT !.sp[InitSpace].sz = PTE_SZ]

Init ==
  /\ bitmap = BootWorld.bitmap /\ lnks = BootWorld.lnks
  /\ head = BootWorld.head /\ panic = BootWorld.panic
  /\ freelist = BootWorld.freelist /\ sp = BootWorld.sp
  /\ building = [t \in Spaces |-> NONE]
  /\ copied = {}
  /\ loaded = {}

Alive == panic = B!NoPanic
Live(t) == sp[t] # NONE /\ building[t] = NONE
Unused(t) == sp[t] = NONE
\* The sizes a caller asks for: every half page up to UADDR_SZ.
Sizes == {k * (PTE_SZ \div 2) : k \in 0..2 * Cardinality(Pages)}

\* growproc(n > 0): sz = allocuvm(pgdir, sz, sz + n); a 0 leaves sz alone.
Grow(t, n) ==
  /\ Alive /\ Live(t) /\ n > sp[t].sz
  /\ \E r \in {Allocuvm(World, t, sp[t].sz, n)} : SetWorld(IF r.ret = 0 THEN r.st ELSE [r.st EXCEPT !.sp[t].sz = r.ret])
  /\ UNCHANGED <<building, copied>> /\ loaded' = {}

\* growproc(n < 0): sz = deallocuvm(pgdir, sz, sz + n).
Shrink(t, n) ==
  /\ Alive /\ Live(t) /\ n < sp[t].sz
  /\ SetWorld([Deallocuvm(World, t, sp[t].sz, n) EXCEPT !.sp[t].sz = n])
  /\ UNCHANGED <<building, copied>> /\ loaded' = {}

\* fork: the child's tree c = copyuvm(pgdir, sz), with the parent's sz.
Fork(t, c) ==
  /\ Alive /\ Live(t) /\ Unused(c)
  /\ \E r \in {Copyuvm(World, t, c)} : SetWorld(IF r.ok THEN [r.st EXCEPT !.sp[c].sz = sp[t].sz] ELSE r.st)
  /\ UNCHANGED <<building, copied>> /\ loaded' = {}

\* wait reaps a dead child: freevm(p->pgdir).  init never exits.
Reap(t) ==
  /\ Alive /\ Live(t) /\ \E u \in Spaces \ {t} : Live(u)
  /\ SetWorld(Freevm(World, t))
  /\ UNCHANGED <<building, copied>> /\ loaded' = {}

\* exec(path, argv) of the process on tree t: pgdir = kpt_alloc() for c.
ExecStart(t, c) ==
  /\ Alive /\ Live(t) /\ Unused(c) /\ \A u \in Spaces : building[u] # t
  /\ \E r \in {KptAlloc(World)} :
       IF Halted(r.st) THEN SetWorld(r.st) /\ UNCHANGED building
       ELSE /\ SetWorld([r.st EXCEPT !.sp[c] = EmptySpace(r.r)])
            /\ building' = [building EXCEPT ![c] = t]
  /\ UNCHANGED copied /\ loaded' = {}

\* exec's goto bad: freevm(pgdir).
Bad(w, c) == SetWorld(Freevm(w, c)) /\ building' = [building EXCEPT ![c] = NONE]

(***************************************************************************)
(* exec, one loadable program header (exec sleeps in readi, so one step    *)
(* each): goto bad on memsz < filesz; sz = allocuvm(pgdir, sz, vaddr +     *)
(* memsz), goto bad on 0; loaduvm(pgdir, vaddr, ip, off, filesz), goto bad *)
(* on -1.  exec does not test vaddr's alignment.                           *)
(***************************************************************************)
ExecLoad_noSizeCheck(c, ph) ==
  /\ Alive /\ building[c] # NONE
  /\ \E r \in {Allocuvm(World, c, sp[c].sz, ph.vaddr + ph.memsz)} :
       CASE Halted(r.st) -> SetWorld(r.st) /\ loaded' = {} /\ UNCHANGED building
         [] r.ret = 0 -> Bad(r.st, c) /\ loaded' = {}
         [] OTHER ->
              \E l \in Loaduvm([r.st EXCEPT !.sp[c].sz = r.ret], c, ph.vaddr, ph.filesz) :
                /\ loaded' = l.loaded
                /\ IF l.ret < 0 THEN Bad(l.st, c)
                   ELSE SetWorld(l.st) /\ UNCHANGED building
  /\ UNCHANGED copied

ExecLoad(c, ph) ==
  /\ Alive /\ building[c] # NONE
  /\ IF ph.memsz < ph.filesz THEN Bad(World, c) /\ loaded' = {}
     ELSE \E r \in {Allocuvm(World, c, sp[c].sz, ph.vaddr + ph.memsz)} :
       CASE Halted(r.st) -> SetWorld(r.st) /\ loaded' = {} /\ UNCHANGED building
         [] r.ret = 0 -> Bad(r.st, c) /\ loaded' = {}
         [] OTHER ->
              \E l \in Loaduvm([r.st EXCEPT !.sp[c].sz = r.ret], c, ph.vaddr, ph.filesz) :
                /\ loaded' = l.loaded
                /\ IF l.ret < 0 THEN Bad(l.st, c)
                   ELSE SetWorld(l.st) /\ UNCHANGED building
  /\ UNCHANGED copied

\* exec's other goto bad exit between segments: a short readi of a
\* program header.
ExecFail(c) ==
  /\ Alive /\ building[c] # NONE
  /\ Bad(World, c)
  /\ UNCHANGED copied /\ loaded' = {}

(***************************************************************************)
(* exec's end: two pages at the next page boundary (goto bad on 0),        *)
(* clearpteu on the lower one and sp = sz; the argument strings and ustack *)
(* pushed with copyout (goto bad on -1 or past MAXARG); then commit:       *)
(* proc->pgdir = pgdir, proc->sz = sz, switchuvm, freevm(oldpgdir).  The   *)
(* caller's strings, fetched by fetchstr, lie below its sz.                *)
(***************************************************************************)
ExecCommit(c, argv) ==
  LET sz0 == AlignUp(sp[c].sz, PTE_SZ) IN
  /\ Alive /\ building[c] # NONE
  /\ \A i \in DOMAIN argv : argv[i] < sp[building[c]].sz
  /\ \E r \in {Allocuvm(World, c, sz0, sz0 + 2 * PTE_SZ)} :
       CASE Halted(r.st) -> SetWorld(r.st) /\ copied' = {}
         [] r.ret = 0 -> SetWorld(Freevm(r.st, c)) /\ copied' = {}
         [] OTHER -> \E w \in {[Clearpteu(r.st, c, r.ret - 2 * PTE_SZ)
                        EXCEPT !.sp[c].sz = r.ret]} :
            \E a \in PushArgs(w, c, r.ret, argv, 0, {}) :
            \E u \in PushUstack(w, c, a, Len(argv)) :
              /\ copied' = u.wrote
              /\ SetWorld(IF u.ret < 0 THEN Freevm(w, c)
                          ELSE Freevm(w, building[c]))
  /\ building' = [building EXCEPT ![c] = NONE]
  /\ loaded' = {}

\* The argument lists a caller may pass: one more string than MAXARG
\* reaches exec's own bound.
Argvs == SeqOf(ArgLens, MAXARG + 1)

Next ==
  \/ \E t \in Spaces, n \in Sizes : Grow(t, n) \/ Shrink(t, n)
  \/ \E t, c \in Spaces : Fork(t, c) \/ ExecStart(t, c)
  \/ \E t \in Spaces : Reap(t)
  \/ \E c \in Spaces, ph \in Segs : ExecLoad(c, ph)
  \/ \E c \in Spaces : ExecFail(c)
  \/ \E c \in Spaces, argv \in Argvs : ExecCommit(c, argv)

Spec == Init /\ [][Next]_vars

-----------------------------------------------------------------------------
Entry == [pa : 0..B!HEAP_LEN - 1, ap : APs] \cup {NONE}
Table == (-RESERVOIR * PT_SZ..B!HEAP_LEN - 1) \cup {NONE}
Space == [pgdir : Table, pmd : Table, pt : [PmdSlots -> Table],
          pte : [Pages -> Entry], sz : 0..UADDR_SZ]

ReservoirAddrs == {-k * PT_SZ : k \in 1..RESERVOIR}

\* The types; the pool's list only ever holds reservoir pages.
TypeOK ==
  /\ sp \in [Spaces -> Space \cup {NONE}]
  /\ freelist \in Seq(ReservoirAddrs)
  /\ building \in [Spaces -> Spaces \cup {NONE}]
  /\ \A c \in Spaces : building[c] # NONE => sp[c] # NONE
  /\ copied \subseteq [va : -UADDR_SZ..UADDR_SZ - 1,
                       pa : (0..B!HEAP_LEN - 1) \cup {Wild}, e : Entry]
  /\ loaded \subseteq [va : Nat, e : Entry]

(***************************************************************************)
(* No page is ever held twice: no two slots of any trees (a process's PGD, *)
(* PMD, PT pages and its user pages) and no free-list entry name the same  *)
(* address.  A page held twice is memory two processes, or a process and   *)
(* the allocator, write at once; it takes a wrong free or a missed unmap   *)
(* in allocuvm's rollback, copyuvm's bad path, deallocuvm's skips or       *)
(* freevm to get there.                                                    *)
(***************************************************************************)
ExclusiveOwnership ==
  Alive =>
    /\ IsInjective(freelist)
    /\ \A x, y \in Slots : AddrOf(x) = AddrOf(y) => x = y
    /\ \A x \in Slots : AddrOf(x) \notin Range(freelist)

(***************************************************************************)
(* Nothing leaks: the free buddy blocks and the blocks the trees hold      *)
(* tile the heap exactly, and every reservoir page is on the pool's list   *)
(* or in a tree.  This is the round trip of spec section 8: what allocuvm, *)
(* copyuvm and exec take, deallocuvm and freevm (and their rollbacks)      *)
(* give back.                                                              *)
(***************************************************************************)
PagesConserved ==
  Alive =>
    /\ B!HeapPartition
    /\ \A a \in ReservoirAddrs :
         a \in Range(freelist) \/ \E x \in Slots : AddrOf(x) = a

(***************************************************************************)
(* A tree maps exactly the pages below its size, each under present PMD   *)
(* and PT pages.  copyuvm panics on a missing page below sz, and a page    *)
(* left mapped above sz is never freed by a later deallocuvm(sz, ...), so  *)
(* allocuvm's rollback, deallocuvm's page rounding and its PMD skips must  *)
(* keep the two in step.                                                   *)
(***************************************************************************)
SizeMatchesMappings ==
  Alive =>
  \A t \in {u \in Spaces : sp[u] # NONE} : \A v \in Pages :
    /\ (sp[t].pte[v] # NONE) <=> (v * PTE_SZ < sp[t].sz)
    /\ sp[t].pte[v] # NONE => sp[t].pmd # NONE /\ sp[t].pt[v \div NPTE] # NONE

(***************************************************************************)
(* Out-of-memory is not fatal: spec sections 4.4 and 7 have allocuvm and   *)
(* copyuvm return 0 and undo their partial work when memory runs out.     *)
(* Their page-table allocations go through kpt_alloc, which panics         *)
(* instead of returning 0 (vm.c:79-80).                                    *)
(***************************************************************************)
OomIsRecoverable == panic # "oom: kpt_alloc"

(***************************************************************************)
(* copyout writes a page only through the user entry that maps it (spec    *)
(* 4.4: -1 if any page is missing or not user-accessible; vm.c:419 "uva2ka *)
(* ensures this only works for user pages").  It rests on walkpgdir        *)
(* finding a table for every va exec hands copyout: sp = (sz - (strlen +   *)
(* 1)) & ~7 (exec.c:94) goes below 0 when an argument is longer than the   *)
(* new image, and uva2ka dereferences walkpgdir's 0 (vm.c:404-406).        *)
(***************************************************************************)
CopyoutOnlyUserPages ==
  \A x \in copied : x.e # NONE /\ x.e.ap = "RW_1_0" /\ x.pa = x.e.pa

(***************************************************************************)
(* A program header whose vaddr is not page aligned is a bad ELF, which   *)
(* exec returns as -1 (spec section 9, user errors); loaduvm's alignment   *)
(* test is a kernel panic (vm.c:211), reached only if exec checks nothing. *)
(***************************************************************************)
UnalignedSegmentReturned == panic # "loaduvm: addr must be page aligned"

(***************************************************************************)
(* The vm layer returns its failures to the caller (spec 4.4, 7 and 6):    *)
(* allocuvm and copyuvm return 0 when memory runs out, copyout returns -1  *)
(* at a page it may not write, exec returns -1 for a bad ELF.  Neither a   *)
(* panic in kpt_alloc or loaduvm nor a write through a page that is not    *)
(* the user's stands in for the error return.                              *)
(***************************************************************************)
FailuresReturned ==
  /\ OomIsRecoverable
  /\ CopyoutOnlyUserPages
  /\ UnalignedSegmentReturned

(***************************************************************************)
(* exec loads a segment only into the pages allocuvm has just mapped for   *)
(* it: loaduvm's walkpgdir finds a table for every page of [vaddr, vaddr + *)
(* filesz) ("loaduvm: address should exist" is not reached), and readi    *)
(* writes each page through its user entry, never through the address of *)
(* an empty entry (vm.c:219 uses the entry untested).  It rests on exec's  *)
(* memsz >= filesz test (exec.c:60) and on allocuvm's result.              *)
(***************************************************************************)
SegmentsLoadIntoTheirPages ==
  /\ panic # "loaduvm: address should exist"
  /\ \A x \in loaded : x.e # NONE /\ x.e.ap = "RW_1_0"

(***************************************************************************)
(* A page table owns the PT_SZ bytes at its address: kpt_alloc and         *)
(* walkpgdir memset PT_SZ bytes and the hardware walks PTRS_PER_PTE        *)
(* eight-byte entries there.  So no free block and no other allocation    *)
(* may overlap [a, a + PT_SZ) of a table taken from the heap, whose block  *)
(* is 2^PT_ORDER bytes (vm.c:79, kmalloc(PT_ORDER)).                       *)
(***************************************************************************)
Overlaps(a, n, b) == a < b.addr + 2^b.order /\ b.addr < a + n

PageTablesFit ==
  Alive =>
    \A x \in Slots :
      (x[2] # "pg" /\ AddrOf(x) >= 0) =>
        \A b \in (B!FreeBlocks \cup HeapRefs) \ {[addr |-> AddrOf(x), order |-> PT_ORDER]} :
          ~Overlaps(AddrOf(x), PT_SZ, b)
=============================================================================
