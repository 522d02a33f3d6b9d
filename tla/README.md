# TLA+ models of xv6 for ARMv8

These are TLA+ models of the kernel in `src/xv6-armv8`, checked with TLC. The
kernel is a single-CPU teaching kernel for AArch64 under QEMU `virt`. Each
module is translated from the C source, and `PROJECT.json` maps every
definition to the lines it models.

## 1. Inventory

### Components, their state and operations

| Component | Source | State | Operations |
|---|---|---|---|
| Buddy allocator | `buddy.c` | `kmem`: `start`, `start_heap`, `end`, per-order `head`/`offset`; the mark array (32-bit bitmap + 16-bit `pre`/`next` links per mark); `kmem.lock` | `kmem_init`, `kmem_init2`, `kmalloc`, `kfree`, `alloc_page`, `free_page`, `get_order`; internal `_kmalloc`, `_kfree`, `get_blk`, `mark_blk`, `unmark_blk` |
| Page-table-page pool | `vm.c` 20-85 | `kpt_mem.freelist` (an intrusive list of 1 KiB pages), `kpt_mem.lock` | `init_vmm`, `kpt_freerange`, `kpt_alloc`, `kpt_free` |
| VM runtime | `vm.c` 87-462, `exec.c` | per-process PGD → PMD → PT trees and their leaf pages; `TTBR0_EL1` | `walkpgdir`, `mappages`, `switchuvm`, `inituvm`, `loaduvm`, `allocuvm`, `deallocuvm`, `freevm`, `clearpteu`, `copyuvm`, `uva2ka`, `copyout`, `paging_init`; `exec` uses them |
| Interrupt masking and spinlocks | `arm.c`, `spinlock.c` | `cpu->ncli`, `cpu->intena`, DAIF.I, `lk->locked` | `cli`, `sti`, `pushcli`, `popcli`, `acquire`, `release`, `holding` |
| Timer | `device/timer.c` (SP804), `device/vtimer.c` (generic timer) | `ticks`, `tickslock`, timer registers | `timer_init`, `isr_timer`, `micro_delay` |
| GICv2 | `device/gic.c` | distributor enable/config/target registers, `isrs[64]` | `gic_init`, `pic_enable`, `pic_dispatch` |
| PL190 (alternative) | `device/picirq.c` | `isrs[32]`, enable register | `pic_init`, `pic_enable`, `pic_disable`, `pic_dispatch` |
| Trap handlers | `trap.c` | `proc->tf`, `proc->killed` | `swi_handler`, `irq_handler`, `dabort_handler`, `iabort_handler`, `und_handler` and the others |
| System calls | `syscall.c` | the trapframe's `r0..r4`, `proc->sz` | `syscall`, `fetchint`, `fetchstr`, `argint`, `argptr`, `argstr` |
| Boot paging | `start.c` | the static kernel and user boot tables | `start`, `set_bootpgtbl`, `load_pgtlb` |
| Boot sequence | `main.c` | `cpu` | `kmain` |
| UART, string library, `usr/info.c`, headers | | device registers | I/O and byte copying |
| Legacy `kalloc.c` | `kalloc.c` | freelist | not used: `defs.h` declares the buddy `kfree(void*, int)` |

### How the components interact

- `kmain` hands the memory below `INIT_KERNMAP` to the page-table pool
  (`kpt_freerange`). It then gives `[INIT_KERNMAP, PHYSTOP)` to the buddy
  allocator (`kmem_init2`).
- The VM runtime takes data pages from the buddy allocator (`alloc_page`,
  which is `kmalloc(12)`). It takes page-table pages from the pool. When the
  pool's list is empty, the pool takes `kmalloc(PT_ORDER)` blocks from the
  buddy allocator. `kpt_free` sends a page back to the buddy allocator or to
  its own list, depending on the page's address.
- Every allocator entry point holds a spinlock. On one CPU, a spinlock is
  `pushcli` (interrupts masked) plus a flag. So a call runs without
  interruption once it holds the lock.
- The exception vectors save a trapframe. They call `swi_handler`, which
  leads to `syscall`, or `irq_handler`, which leads to `pic_dispatch` and
  then an ISR. They also call the abort handlers. The timer ISR takes
  `tickslock` and increments `ticks`.

### What is hard

- **Long sequences of legal calls.** The buddy allocator's bitmaps, lists
  and merges are correct only if every sequence of `kmalloc` and `kfree`
  keeps them consistent. Unit tests try a handful of sequences. TLC tries
  all of them, up to the size of the heap.
- **Partial failure.** `allocuvm`, `copyuvm` and `exec` must undo work when
  they run out of memory halfway.
- **Interrupts.** The spinlocks give mutual exclusion only because
  interrupts are masked. Restoring the interrupt state after nested
  `pushcli` calls depends on `ncli` and `intena`.
- **Read-modify-write of device registers** in the GIC driver.

### Properties that make each component correct

- Buddy allocator:
  - every mark list holds exactly the marks with a non-zero bitmap;
  - free and outstanding blocks tile the heap;
  - free buddies are always merged;
  - NULL is returned only when memory is really exhausted;
  - a double free panics.
- Page-table pool: every page is on the list, owned by a page table, or back
  in the buddy allocator, and never in two of these.
- VM runtime:
  - `deallocuvm` and `freevm` return every page;
  - `allocuvm` and `copyuvm` undo partial work on failure;
  - `exec` frees the old tree only after switching away from it.
- Interrupt masking:
  - interrupts are off whenever `ncli > 0`;
  - the outermost `popcli` restores the state saved by the outermost
    `pushcli`;
  - an ISR never runs while a lock it takes is held.
- GIC: dispatching one interrupt leaves every other configured interrupt
  enabled.
- System calls: no dispatch through an index outside the table, and no
  fetch outside `[0, proc->sz)`.

## 2. Plan

The modules are listed in the order they are built. The most important and
the hardest behaviour comes first.

1. **Buddy** (done). `Buddy.tla` is the allocator. `KmallocContract.tla` is
   its abstract contract, refined by `Buddy`. `MCBuddy.tla` and
   `MCBuddyDoubleFree.tla` instantiate it for TLC.
2. **KptPool and Uvm** (done, merged into `Vm.tla`). The page-table pool
   and the user address spaces share one world record with the buddy
   state, because every `vm.c` function moves pages between them. Done:
   conservation and exclusive ownership of every page, size/mapping
   agreement, and two violations (`kpt_alloc` panics on out-of-memory;
   page tables are larger than the blocks they get). `uva2ka`, `copyout`
   and `exec`'s argument push were added later, with a third violation:
   an argument longer than the new image makes `copyout` write through
   an unchecked null `walkpgdir` result.
3. (merged into 2.)
4. **PushCli** (done). `pushcli`/`popcli`/`acquire`/`release` in a kernel
   thread, with the timer IRQ running `isr_timer` whenever DAIF.I is clear.
   A later step: a second violation run of `Buddy` for `kfree` of a pointer
   outside the heap (spec.md 4.1).
5. **Gic and IrqPath** (done). The distributor's enable bits, `gic_init`,
   `pic_enable` and `pic_dispatch`, composed with `PushCli`'s thread.
   Two violations: dispatching one SPI disables the others in its group,
   and the vtimer is never enabled.
6. **Trap and Syscall** (done). The exception handlers for one user
   process, `handle_user_events` and the `killed` flag, the system-call
   table bound and the argument fetch bounds against `proc->sz`. Four
   disagreements with spec.md (one of them a code bug).
7. **Boot paging and get_order**: dropped, for the reasons in section 4.

## 3. Modules

### Buddy.tla: `buddy.c`

The variables hold the allocator state:

| Variable | Code |
|---|---|
| `bitmap[o][m]` (a set of bit indices) | `mark.bitmap` |
| `lnks[o][m]` (`[pre, next]`) | `mark.lnks` |
| `head[o]` | `orders[o].head` |
| `panic` | the message of `panic()` the kernel stopped on |

The client is the rest of the kernel. `owned` is the set of blocks it holds
from `kmalloc`. `ret` is the last result `kmalloc` returned.

Addresses are byte offsets from `start_heap`. `kmem_init2` aligns
`start_heap` to `2^MAX_ORD`, so the alignment tests are unchanged.

A mark holds `BITS = 2^LOG_BITS` blocks. The code fixes this at 32. The
model keeps it a constant so that a heap of a few blocks still spreads over
several marks per order. With several marks, the linked-list code runs with
lists of more than one element.

- **Init** is `kmem_init2`: it empties and unlinks every mark, then runs
  `kfree(i, MAX_ORD)` for every top-order block.
- **KMalloc(order)** is `kmalloc`. Under `kmem.lock` it is one atomic step
  (interrupts are masked and no ISR allocates). The step evaluates the
  recursion of `_kmalloc` → `get_blk`/`unmark_blk` and the split's
  `_kfree` → `mark_blk`/`unmark_blk`.
- **KFree(b)** is `kfree`: the order and alignment check, then `_kfree`'s
  merge recursion.
- A panic stops the kernel, so no action is enabled after one.

`KmallocContract.tla` is the abstract specification of `kmalloc` and
`kfree`. A block `kmalloc` returns is size-aligned, lies inside the heap and
is disjoint from every outstanding block. `kmalloc` returns NULL only if no
such block exists. `Buddy` maps `owned` to `allocated` and checks
`Contract!Spec`.

### Runs

| Run | Module / cfg | Result | What it shows |
|---|---|---|---|
| buddy_safety | MCBuddy / Buddy.cfg | pass | Four invariants hold after every sequence of `kmalloc`/`kfree` at every order (see below), and the buddy allocator implements the kmalloc/kfree contract (`KmallocContractSpec`). |
| buddy_double_free | MCBuddyDoubleFree / BuddyDoubleFree.cfg | violation | A second `kfree` of a block is not caught when the first one merged it. |

The four invariants of `buddy_safety`:

- The lists match the bitmaps (`FreeListsWellFormed`).
- Free and owned blocks tile the heap (`HeapPartition`).
- No two free buddies exist below `MAX_ORD` (`BuddiesCoalesced`).
- No consistency panic fires (`AllocatorNeverPanics`).

**Bounds.**

- The orders are 6..8. That gives three levels of split and merge, the
  same code paths as 6..12.
- There are two blocks per mark.
- There are two `MAX_ORD` blocks, so the lower orders have 2 and 4
  non-empty-able marks. List removal at the head, middle and tail all
  happen.
- The client may call `kmalloc` at any order and free any block it holds.
  The state space (about 20,000 states) is explored completely in about
  15 s.
- A heap of three top blocks was also checked once (3.4 million states,
  25 minutes, no violation). That is too slow for the regular runs.

**Finding (buddy_double_free).**

- spec.md (4.1 and 8) says a second `kfree(p, k)` panics.
- `_kfree` (buddy.c:268) and `mark_blk` test only `p`'s own bit at order
  `k`. When the first `kfree` merged `p` with its buddy, that bit is clear
  again. The second `kfree` then marks `p` free while the merged block is
  free too.
- TLC's trace is `kmalloc(6)` → 0, `kfree(0, 6)`, `kfree(0, 6)`, with no
  panic. Afterwards `kmalloc(8)` and `kmalloc(6)` can return overlapping
  memory.

### PushCli.tla: `arm.c`, `spinlock.c`, `device/timer.c`

The kernel runs on one CPU. A kernel thread runs critical sections, and the
timer interrupt can arrive whenever PSTATE.I (DAIF.I) is clear.

| Variable | Code |
|---|---|
| `daifI` | PSTATE.I, set by `cli`, cleared by `sti` |
| `ncli`, `intena` | `cpu->ncli`, `cpu->intena` |
| `locked[l]` | `lk->locked` |
| `phase` | before or after `kmain`'s `sti()` (main.c:44) |
| `tplan`, `tstack` | the locks the thread's section will take, and those it holds |
| `tpc`, `tenabled` | inside `pushcli` between `int_enabled()` and `cli()`, with its local `enabled` |
| `pending` | the timer's interrupt line |

- A section is a nested series of `acquire` calls followed by the matching
  `release` calls. Every caller in the source uses them that way. A
  `NoLock` entry stands for a bare `pushcli`/`popcli` pair, as in
  `switchuvm`.
- `acquire` is two steps: `AcqRead` (`int_enabled()`) and `AcqMask`
  (`cli()`, the `ncli`/`intena` update and `locked = 1`). An IRQ can be
  taken only between these two. Once DAIF.I is set nothing can interleave,
  so `Release` (the whole of `release` and `popcli`, with both panics) is
  one step.
- `IrqTaken` is the exception entry, `irq_handler` and `isr_timer`:
  `acquire(&tickslock)`, `release(&tickslock)` and the acknowledge. Its
  `pushcli` sees DAIF.I set by the exception entry, so at `ncli = 0` it
  records `intena = 0`.

### Vm.tla: `vm.c`, `exec.c`, on top of `Buddy`

- The world is one record: the buddy state, the pool's `freelist` and a
  tree `sp[t]` per address space. A tree is PGD page, PMD page, PT pages
  per PMD slot, leaf entries `[pa, ap]` and `sz`.
- `Buddy` is reached by `INSTANCE`, so `kpt_alloc`'s `kmalloc(PT_ORDER)`,
  `alloc_page`, `free_page` and `kpt_free`'s `kfree` are the very
  operators checked in `Buddy`.
- Each `vm.c` function is an operator from world to world (`KptAlloc`,
  `KptFree`, `WalkPgdir`, `MapPage`, `Allocuvm`, `Deallocuvm`, `Freevm`,
  `Copyuvm`, `Clearpteu`, `Inituvm`, `KptFreerange`, `Loaduvm`). The loops are
  `RECURSIVE` operators with the code's own early exits and panics.
- `Uva2ka`, `CopyoutLoop`, `PushArgs` and `PushUstack` return the set of
  outcomes a call may have, because `uva2ka` can read memory the model
  does not hold:
  - When `walkpgdir` finds no table, it returns 0 and `uva2ka` reads
    `*pte` at address 0 through the current TTBR0. That is the caller's
    user page 0, which is mapped because the caller's argument strings lie
    below its `sz`.
  - Those eight bytes either fail the valid and AP tests (return 0), or
    pass them and name some page, the model value `Wild`.
- `copyout`'s `uint va` keeps exec's `uint64 sp` modulo 2^32. A negative
  `sp` in the model stands for 2^32 - x, which lies in PGD slot 3.
  `AlignDn` floors, as `& ~(n - 1)` does on a two's-complement value.
- `copied` is a history variable: the pages the latest `exec`'s copyouts
  wrote. Each is recorded as the page va, the page written, and the
  entry of the new tree that maps that va.
- `loaded` is a history variable of the same kind: the pages the latest
  step's `loaduvm` had `readi` fill, each with the entry it used.
  `Loaduvm` returns every outcome of the file read: it may end short
  (`-1`) at any page. An entry that is not valid stands for a write to
  physical 0, since the code takes `PTE_ADDR(*pte)` untested.
- The boot reservoir (`kpt_freerange` below `INIT_KERNMAP`) holds negative
  addresses. `kpt_free`'s test `v >= P2V(INIT_KERNMAP)` therefore becomes
  `v >= 0`.
- The actions are the kernel calls that use these functions:
  - `Grow` and `Shrink` are `growproc`;
  - `Fork` is `copyuvm`;
  - `Reap` is `wait`'s `freevm`;
  - `ExecStart`, `ExecLoad`, `ExecFail` and `ExecCommit` are `exec`.
    `ExecLoad(c, ph)` is one program header of `Segs`: `goto bad` on
    `memsz < filesz`, `allocuvm` to `vaddr + memsz` (`goto bad` on 0),
    `loaduvm` of `filesz` bytes at `vaddr` (`goto bad` on -1). `ExecFail`
    is the short `readi` of a header. `Bad` is the `bad:` label's `freevm`.
    `ExecCommit(c, argv)` is its end: the two stack pages, `clearpteu`,
    the argument and `ustack` pushes through `copyout` (with `goto bad`
    on -1 and past `MAXARG`), then the commit. `argv` is a list of string
    lengths from `ArgLens`, at most `MAXARG + 1` long. Each string is
    shorter than the caller's `sz`, as `fetchstr` requires.
- `exec` is several steps because it sleeps in `readi` between segments,
  so other processes run in between.
- `growproc`, `fork`, `wait` and `userinit` are not under `src/`. Those
  callers are modelled from spec.md and marked so in `PROJECT.json`.
- Each intermediate world is bound once with `Bind` (in `Buddy.tla`), so
  that TLC evaluates it only once even when it profiles the specification.

**Bounds (MCVm).**

- Orders 6..8 stand for 10..12. `PT_ORDER` (10) is the smallest order, a
  user page (12) is the largest, and `PT_SZ` is one page, that is four
  `PT_ORDER` blocks, as in the code.
- The heap has three pages. vm_safety's reservoir has eight page-table
  pages: two trees of a PGD, a PMD and two PTs each, so `kpt_alloc` never
  falls back to `kmalloc(PT_ORDER)` there. The violation runs keep three
  (VmFailuresReturned.cfg and VmCopyoutWild.cfg seven). `init` uses
  three at boot.
- Table addresses are exact in the model. The code reads a table's
  address back from its entry through `PG_ADDR_MASK` or `PT_ADDR`, 4 KiB
  masks (vm.c:99, 113, 323, 327). A reservoir table is `PT_SZ`-aligned
  (`kpt_freerange` steps by `PT_SZ` from `align_up(&end, PT_SZ)`), so the
  mask gives it back. A heap table is a 1 KiB block at a 0-3 KiB offset,
  which the mask moves to the start of its page. The model does not
  follow that aliasing. The constant `HeapTables = FALSE` makes an
  instance take no step in which `kpt_alloc` hands out a heap table
  (`TookHeapTable`); every run but vm_page_tables_fit sets it. That run
  reports the heap tables' overlap at the step that creates them.
- vm_safety uses the view `MC_View` (MCVm.tla), which renames reservoir
  pages canonically: by the table slot that holds them, then by their
  place on the free list. The code tells reservoir pages apart only by
  equality and by `kpt_free`'s test against `P2V(INIT_KERNMAP)`, which
  they all fail, so renaming them maps behaviours to behaviours and every
  property is preserved. Without the view the run did not finish in 10
  minutes. With it and four reservoir pages it reaches 394 states, where
  the plain run reaches 4,728; both pass.
- Two PMD slots of two entries give four user pages. That is enough for:
  - a tree with a second PT;
  - `deallocuvm` to meet an absent PT;
  - `exec`'s stack to cross a PMD slot;
  - `fork` to fail part way through.
- There are two address spaces. Any sizes in half-page steps can be asked
  for.
- `Segs` (MC_Segs) holds six headers: a part page, a two-page text with a
  bss tail, one at the second page, a bss-only one in the second PT, one
  with `filesz > memsz`, and one ending past `UADDR_SZ`. MC_AnySegs adds
  one at vaddr 128. Segments may overlap, as consecutive headers of one
  file may.
- `MAXARG` is 1, so an `argv` of two strings reaches `exec`'s own bound.
- vm_safety passes 8-byte arguments only. Its full state space (19,294
  states under the view) is explored in about 35 s.
- A caller holding a string longer than a two-page image needs three
  pages and four tables, and the image needs two more pages and three
  tables. So vm_failures_returned runs with five heap pages and seven
  reservoir tables, and argument lengths 8, 240 and 600. That state space
  is too large to finish, but TLC finds the violation at depth 4.
  vm_safety's invariants did not finish in 10 minutes with four heap
  pages.

### Runs of Vm

`PushCli`'s properties are checked on the composition `IrqPath` (runs
irq_safety and irq_timer_liveness, below). `MCPushCli` and `PushCli.cfg`
still check `PushCli` alone, with its abstract timer.

| Run | Module / cfg | Result | What it shows |
|---|---|---|---|
| vm_safety | MCVm / Vm.cfg | pass | With every table from the reservoir: `ExclusiveOwnership`, `PagesConserved` and `SizeMatchesMappings` hold across `growproc`, `fork`, `wait` and `exec`, including every failure path. `SegmentsLoadIntoTheirPages`: `loaduvm` finds every page of a segment mapped by `allocuvm`, so it neither panics nor writes through an empty entry. |
| vm_failures_returned | MCVm / VmFailuresReturned.cfg | violation | `FailuresReturned` fails three ways. TLC shows a segment with an unaligned `vaddr` panicking in `loaduvm`. `VmCopyoutWild.cfg` (aligned segments) shows `exec`'s `copyout` writing a page through bytes that are not a page entry. `VmOomIsRecoverable.cfg` (short arguments) shows running out of page-table pages panicking instead of failing the call. |
| vm_page_tables_fit | MCVm / VmPageTablesFit.cfg | violation | A page table from the heap overlaps the blocks after it. |

**Finding (vm_page_tables_fit), vm.c:79.**

- `kpt_alloc` refills from `kmalloc(PT_ORDER)`, which returns 1 KiB blocks.
  The comments at vm.c:14-16 and mmu.h:105 and spec.md also say 1 KiB.
- But `PT_SZ = PTRS_PER_PTE << 3` is 4 KiB. `kpt_alloc` and `walkpgdir`
  `memset` `PT_SZ` bytes, and the MMU walks 512 eight-byte entries.
- So every heap-sourced table covers the three blocks after it. TLC: a
  `fork` whose reservoir is empty gets PGD, PMD and PT at 0, 1 KiB and
  2 KiB, whose 4 KiB extents overlap.
- Worse follows: `walkpgdir` and `freevm` read a table's address back
  through 4 KiB masks (vm.c:99, 113, 323, 327). The PMD at 1 KiB is then
  found at 0, the PGD itself, so entries land in the wrong table and
  `freevm` frees the wrong blocks. The model stops at the overlap and
  does not follow this (`HeapTables`).

**Finding (vm_failures_returned), vm.c:80.**

- spec.md 4.4 and 7.2 say `allocuvm`/`copyuvm` return 0 on out-of-memory,
  and the caller unwinds.
- `kpt_alloc` instead panics `"oom: kpt_alloc"`, and `walkpgdir` calls it
  from `mappages`. TLC: `init` grows across a PMD slot after the reservoir
  and the heap are used up, and the kernel stops.

**Finding (vm_failures_returned), vm.c:406.**

- spec.md says `copyout` returns -1 at a missing or non-user page. The
  comment at vm.c:419 says `uva2ka` makes it work only on user pages.
- `exec` computes `sp = (sz - (strlen + 1)) & ~7` in `uint64`. An
  argument longer than the new image wraps `sp` below 0.
- `copyout`'s va then lies in PGD slot 3, and `walkpgdir` returns 0.
  `uva2ka` does not check for that, and reads `*pte` through address 0,
  which is the caller's own user page 0.
- A process that stores a valid user page entry at its address 0 makes
  `copyout` write the argument into the page that entry names.
- TLC: init grows to 640 bytes, then execs an image with no segments and
  a 600-byte argument. `copyout` writes va -256 through no entry of the
  new tree. `VmCopyoutWild.cfg` reproduces this trace.

**Finding (vm_failures_returned), exec.c:68.**

- spec.md's error taxonomy puts a bad ELF among the user errors: `exec`
  returns -1. `loaduvm`'s precondition is a page-aligned `addr`.
- `exec` tests `memsz >= filesz` and `allocuvm`'s result, but never the
  alignment of `ph.vaddr`, which it passes to `loaduvm`. `loaduvm` panics
  `"loaduvm: addr must be page aligned"` (vm.c:211).
- TLC: `exec` of a file whose one loadable header has vaddr 128 stops the
  kernel. Any user who can write an executable can do this.

### Gic.tla: `device/gic.c`, and IrqPath.tla, its composition with PushCli

`Gic` is the GICv2 driver and the controller's own state. `IrqPath` puts it
together with the kernel thread of `PushCli`, the way `irq_handler`
(trap.c:31-40) connects them.

| Variable | Code |
|---|---|
| `enable[w]` | the bit positions set in `GICD_ISENABLER`/`GICD_ICENABLER` word `w` (both read as the enable bits) |
| `gicdCtlr`, `giccCtlr`, `pmr` | `GICD_CTLR`, `GICC_CTLR`, `GICC_PMR` |
| `pending`, `active` | the GIC's pending and active state of each interrupt id |
| `isrs` | `isrs[NUM_INTSRC]` |
| `targets[i]` | the CPUs SPI `i` is forwarded to: its `GICD_ITARGETSR` byte, or CPU 0 alone on a GIC with one CPU interface |
| `asserted[s]` | device `s` has raised its line and its ISR has not yet cleared it |
| `stage`, `intid` | where the CPU is in `pic_dispatch`, and its `intid` |

- `GicdSetBit` is `gicd_set_bit` with its 64-bit `GICD_REG` access. It
  reads word `id / 32`, ORs in bit `id % 32` and writes the word back,
  followed by a zero high word into the next register.
- `Init` is `gic_init` (PMR 0x0f, `isr_init`, `gic_configure` of
  PIC_TIMER01, PIC_TIMER23 and PIC_UART0 in that order, `gic_enable`).
  `GicDistConfigure` is `gic_dist_configure`: `gd_enable` and then
  `GdTarget0`, which is `gd_target0`. That call ORs CPU 0 into the id's
  target byte and writes the word back through the 64-bit `GICD_REG`, so
  the next word's four target bytes become zero. `Init` is followed by
  `uart_enable_rx`'s and `timer_init`'s `pic_enable`. `pic_enable` only
  stores the ISR.
- `pic_dispatch` is five steps:
  - `Ack` is the exception entry and `gic_getack`: the lowest enabled
    pending id becomes active.
  - `Disable` is `gd_disable`.
  - `Eoi` is `gic_eoi`.
  - `Isr` is the ISR.
  - `Enable` is `gd_enable` and the return.
- The spurious id 0x3ff cannot be read here. The CPU takes the exception
  only while an interrupt is signalled, and on one CPU nothing changes the
  GIC before `gic_getack` runs.
- In `IrqPath`, the thread's steps need `stage = "idle"`: it is preempted
  while an IRQ is handled. `TakeIrq` needs DAIF.I clear.
  - `IsrTimer` is `PushCli`'s `IrqTaken`. `PushCli`'s `pending` timer
    interrupt is mapped to `TimerAsserted`: the build's timer has its line
    asserted at the GIC, and `isr_timer` has not yet acknowledged it.
  - `IsrOther` is `isr_uart`, which takes no lock.
- `TimerIds` are the timers a build's `timer_init` may register: 45 for
  the SP804 driver (`timer.c`) or 27 for the generic-timer driver
  (`vtimer.c`). Both files define `timer_init` and there is no build file
  that picks one, so `Init` chooses the build. `TheTimer(t)` says `t`
  carries `isr_timer`; only the build's timer raises its line.
- Hardware choice: `CpuCounts` holds the GIC's possible numbers of CPU
  interfaces, and `Init` picks one. With one interface the target
  registers are RAZ/WI and every SPI goes to CPU 0 (GICv2 architecture,
  `GICD_ITARGETSR`). With more, an SPI reaches CPU 0, the kernel's only
  CPU, only if bit 0 of its target byte is set. `Ack` delivers only such
  SPIs; PPIs such as the vtimer's 27 always go to their own CPU.
- Left out: `gd_setcfg`. It configures every source as edge-triggered,
  which is how `Raise` behaves. The zero word it writes lands in ICFGR
  word 3, ids 48-63, where no source lies.

**Bounds (MCIrqPath).** The bounds are:

- tickslock and one other lock;
- sections nested two deep;
- the timer alone, the timer with the UART, the vtimer with the UART, or
  either build with all three sources;
- a GIC with one CPU interface (QEMU's default virt machine) in the
  passing runs, and one or two in irq_timer_stops. Two are enough to make
  the target registers writable.

Every interleaving of the thread, both devices and the five dispatch steps
is explored: 2,200 states with both sources.

| Run | Module / cfg | Result | What it shows |
|---|---|---|---|
| irq_safety | MCIrqPath / IrqPath.cfg | pass | `pic_dispatch` EOIs every interrupt it acknowledged (`NoStuckActive`). `PushCli`'s `TypeOK`, `HeldLocksStayLocked` and `OutermostRestores` still hold with the real dispatch path. |
| irq_timer_liveness | MCIrqPath / IrqTimer.cfg | pass | With the SP804 as the only source on a one-CPU GIC, every timer interrupt is serviced (`TimerServiced`). |
| irq_timer_stops | MCIrqPath / IrqTimerStops.cfg | violation | In either build, and on a GIC with one or two CPU interfaces, the timer stops being serviced. `IrqUartStopsTimer.cfg` (SP804 and UART), `IrqVtimer.cfg` (vtimer and UART) and `IrqTargets.cfg` (SP804 alone, two CPU interfaces) reproduce each finding alone. |

**Finding (irq_timer_stops, SP804 build), gic.c:61.**

- Reading `GICD_ICENABLER1` returns every enabled interrupt in ids 32-63,
  that is 33, 43 and 45. `gd_disable(33)` ORs in bit 1 and writes the
  whole word back, so it disables all three.
- `gd_enable(33)` then re-enables only 33.
- spec.md 4.6 says dispatch disables *the* IRQ and re-enables it.
- TLC: the UART interrupt is dispatched once. The timer's interrupt then
  stays pending and masked for ever, and `ticks` stops.

**Finding (irq_timer_stops, vtimer build), gic.c:206.**

- spec.md 4.6 says `pic_enable(irq, isr)` registers the ISR and unmasks
  the IRQ. The code only stores the ISR.
- `gic_init` enables only the three SPIs, so `vtimer.c`'s PIC_VTIMER (27)
  is never enabled.

**Finding (irq_timer_stops, two CPU interfaces), gic.c:113.**

- spec.md 4.6 says `gic_init` sets each IRQ's target to CPU 0.
- `gd_target0(45)` sets PIC_TIMER01's byte in ITARGETSR word 11. Then
  `gd_target0(43)` writes word 10 through the uint64 `GICD_REG`, and the
  zero high half lands on word 11, the targets of ids 44-47.
- On a GIC with more than one CPU interface (virt with `-smp 2`) the SP804
  interrupt then targets no CPU, is never delivered, and `ticks` stops.
  `IrqTargets.cfg`: the timer is the only source, and `TimerServiced`
  fails. On the default machine the GIC has one interface, ignores the
  targets, and `irq_timer_liveness` passes.

### Syscall.tla and Trap.tla: `syscall.c`, `trap.c`, `exec.c`

`Syscall.tla` holds operators only: `syscall`, `fetchint`, `fetchstr`,
`argint`, `argptr` and `argstr`. The handlers behind the table are reduced
to how they fetch their arguments and what they return. Each handler is a
set of outcomes `[ret, reads, tf, exits]`.

`Trap.tla` is the process that calls them:

| Variable | Code |
|---|---|
| `mode` | where the process is: at EL0, in a system call, returning through `handle_user_events`, stuck in a returned EL1 abort, exited, or panicked |
| `killed` | `proc->killed` |
| `tf` | `proc->tf`: `r0`, `r1..r3` (as `x`) and the saved EL bits of SPSR |
| `reads` | the user addresses the current system call has read |
| `call` | the last call: the `x0` it was given and its handler's return value |

- Registers are `WordBits` wide and `int` is `IntBits` wide: 64 and 32 in
  the code, 20 and 10 in the runs, because TLC's integers are 32-bit.
  `U64` (the conversion to a register) and `ToInt` (`(int) r0`) wrap at
  these widths, so the wrap-around cases keep their shape.
- The table is numbered densely from 1, as spec.md 9 lists the calls:
  `exec` is 7, `getpid` 11, `write` 16, and `NELEM` is 22. The test
  `num <= NELEM(syscalls)` admits 22. The word after the array is either
  NULL or a wild pointer, so `EntryAt` gives both.
- `ExecOutcomes` follows `exec.c`. `exec` fails before line 106, or fails
  at line 111 after writing `r0 = argc`, or commits. `syscall` never
  writes `r0` for `SYS_exec`.
- `Svc`, `UserAbort` (kill the process and return), `UserTrap` (irq and
  the print-only vectors), `HandleUserEvents`, `Kill` (another process's
  `kill`) and `KernelAbort` are the actions. An EL1 abort handler returns
  to the faulting instruction, so `KernelAbort` ends in a state with no
  change.

**Bounds (MCTrap).**

- The process is 24 bytes. It holds the string `"ab"` at 0, an `argv`
  array `{1, NULL}` at 8, a NUL at 16 and an unterminated tail.
- The register values are 0, 8, 16 and 20, the end of the process, and
  `2^WordBits - 8`. The last one makes `addr + 8` and `i + size` wrap;
  as a count it is the int -8.
- `MAXARG` is 2, so an `argv` of two entries fails.
- `x0` is an unknown number (0 or -1), `exit`, `exec`, `getpid` or `write`.
  The violation run adds `NELEM` and `2^IntBits + SYS_getpid`.

| Run | Module / cfg | Result | What it shows |
|---|---|---|---|
| trap_safety | MCTrap / TrapSafety.cfg | pass | Every byte a call reads lies in `[0, sz)` (`ArgAccessInBounds`), with wrapping pointers and counts, kills and kernel faults interleaved. |
| trap_syscall_return | MCTrap / TrapSyscallReturn.cfg | pass | For every call but `exec`, `x0` holds the result or -1 (`SyscallReported`), and a killed process never returns to EL0; one killed in the kernel or on its way back exits (`KilledNeverResumes`). |
| trap_unreported_results | MCTrap / TrapCallResults.cfg | violation | `SyscallReported` fails for three inputs. TLC reports the shortest trace; each input alone gives its own. |
| trap_kernel_fault | MCTrap / TrapKernelFault.cfg | violation | A kernel abort never leads to a panic. |

**Finding (trap_unreported_results), syscall.c:151.** `num <= NELEM`
lets number 22 index one past the 22-entry table. The kernel calls
through whatever word follows it. spec.md 4.7 says an unknown number
returns -1.

**Finding (trap_unreported_results), syscall.c:147.** `num` is
`(int) r0`, so `x0 = 2^32 + 11` runs `getpid`. spec.md calls the
number `x0`. (In the model: `2^10 + 11` returns the pid.)

**Finding (trap_unreported_results), syscall.c:157 and exec.c:106.**
`syscall` does not write `r0` for `exec`. A failed `exec` therefore
returns 7, its own number, or `argc` if it failed after exec.c:106.
spec.md 7 says -1. TLC: an `argv` of `MAXARG` entries returns with
`x0 = 7`.

**Finding (trap_kernel_fault), trap.c:56.** spec.md 4.5 and 7.5 say an
EL1 abort panics. `dabort_handler` prints and returns, and so do
`iabort_handler` and `und_handler`. The faulting instruction runs again
for ever.

### Fairness

- The buddy and Vm runs check only safety. They assume no fairness.
- `PushCli.Spec` assumes weak fairness of the thread's steps. No caller
  blocks inside a critical section.
- It assumes strong fairness of `Sti`. `kmain`'s boot is finite, and `Sti`
  is enabled whenever the thread is between sections.
- It assumes strong fairness of `IrqTaken`. The CPU takes a pending IRQ as
  soon as DAIF.I is clear, which happens again after every outermost
  release.
- Weak fairness would not be justified for `IrqTaken`: the thread's next
  section can mask interrupts before it is taken.
- `IrqPath.Spec` assumes the same of the thread and of `Sti`. It assumes
  strong fairness of `TakeIrq`, for the same reason as `IrqTaken`.
- It assumes weak fairness of the dispatch steps. `pic_dispatch` runs to
  its end with IRQs masked.
- The devices get no fairness. An interrupt need never be raised.
- `Trap.Spec` assumes weak fairness of `SyscallStep` and
  `HandleUserEvents`: once the kernel is entered it runs the handler to
  its end. It assumes nothing of user code or of the timer: irq_timer_stops
  shows builds in which ticks stop. So `KilledNeverResumes` says only
  that a killed process never returns to EL0 and exits once it is in the
  kernel. A killed process spinning at EL0 exits at its next trap, which
  needs a tick; that is left unclaimed.

## 4. Not modelled, and why

- The aliasing of heap page tables through `PG_ADDR_MASK` (see Bounds
  (MCVm)). It follows from the 1 KiB tables that vm_page_tables_fit
  reports. Past that report the code writes entries into the wrong
  tables, and modelling that needs a memory of table words.
- `switchuvm`: it writes TTBR0 and flushes the TLB. So the order of
  `switchuvm` and `freevm(oldpgdir)` in `exec` (exec.c:131) is not
  checked: both run in one step, and only the MMU could see the freed
  tables in between. The bytes `loaduvm`
  and `copyout` move are left out too: `loaded` and `copied` record which
  pages they write, not what they write.
- The contents of pages, strings and registers. Every property here is
  about ownership and structure, never about bytes.
- `argint`'s panic for `n > 3` (every caller passes a constant `n <= 2`),
  `exec`'s write of `r1` (the user stack pointer of `argv`), and the work
  of the system calls behind the table other than `getpid`, `write`,
  `exec` and `exit`, which lies outside `src/`.
- `dump_trapframe` and the handlers' messages. They only print.
- `micro_delay`, `ticks`, the UART data path and the timers' register
  programming. These are device I/O.
- `kalloc.c`. It is not linked into the kernel.
- Boot paging (`start.c`). `start` fills the boot tables once, with six
  `set_bootpgtbl` calls on fixed constants. It takes no input and has no
  branch that depends on state. A model would only evaluate those
  constants again. Each call writes the same entry into the kernel and
  user level-2 tables, in the slot given by the VA's bits 21..31. The
  ranges (low RAM, the three device windows, their `KERNBASE` aliases)
  land in distinct slots, so no call overwrites another. The one
  disagreement is `KERNBASE+DEVBASE3` mapped to `DEVBASE2`, which spec.md
  already records. `load_pgtlb`, `jump_stack`, `clear_bss` and the UART
  printing are register writes and I/O.
- `get_order` (buddy.c). It is a pure bit trick that `defs.h` exports and
  nothing in the repository calls. TLC can only report a property as
  violated if the property reads a variable. So a check of `get_order`
  needs a small spec whose variable ranges over the inputs, and a run of
  its own. Adding the input to `Buddy`'s state would multiply its 20,000
  states by the number of inputs. The project keeps its runs for code
  that the kernel runs.
- `lib/string.c`. It copies and compares bytes, and no model keeps bytes.
- The scheduler, file system and console. They are outside `src/`, and
  spec.md treats them as external collaborators.
