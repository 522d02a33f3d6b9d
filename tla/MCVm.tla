-------------------------------- MODULE MCVm -------------------------------
(***************************************************************************)
(* Model-checking instance of Vm.  The buddy orders 6..8 stand for 10..12: *)
(* kpt_alloc's PT_ORDER block is the smallest order, a user page the       *)
(* largest, and a page table occupies PT_SZ = one page, four PT_ORDER      *)
(* blocks, as PT_SZ = 4096 and PT_ORDER = 10 do in the code.  Two PMD      *)
(* slots of two PTEs give a user address space of four pages, enough for   *)
(* deallocuvm to meet an absent PT page and for exec's two stack pages to  *)
(* land in a second PT.                                                    *)
(***************************************************************************)
EXTENDS Vm

CONSTANTS s1, s2

MC_Spaces == {s1, s2}

\* Argument strings: a short one; one that fits a one-page caller but whose
\* ustack push reaches below the stack page into the guard page; and one
\* longer than an image of the two stack pages (2 * PTE_SZ = 512) that a
\* caller grown past 600 bytes can still hold below its sz.
MC_ArgLens == {8, 240, 600}

\* Short arguments only: exec's copyouts stay within the new stack page.
MC_ShortArgs == {8}

\* Program headers [vaddr, memsz, filesz]: a part page; a text segment over
\* two pages with a bss tail; one starting at the second page; a bss-only
\* segment into the second PT; one whose filesz exceeds memsz (exec's goto
\* bad); and one ending past UADDR_SZ (allocuvm's 0).
MC_Segs ==
  {[vaddr |-> 0, memsz |-> 128, filesz |-> 128],
   [vaddr |-> 0, memsz |-> 512, filesz |-> 300],
   [vaddr |-> 256, memsz |-> 256, filesz |-> 256],
   [vaddr |-> 512, memsz |-> 384, filesz |-> 0],
   [vaddr |-> 0, memsz |-> 128, filesz |-> 384],
   [vaddr |-> 768, memsz |-> 512, filesz |-> 0]}

\* The same and a header whose vaddr is not page aligned.
MC_AnySegs == MC_Segs \cup {[vaddr |-> 128, memsz |-> 128, filesz |-> 128]}

(***************************************************************************)
(* A view for symmetry: the code tells reservoir pages apart only by       *)
(* equality and by kpt_free's test against P2V(INIT_KERNMAP), which every  *)
(* one of them fails alike, so renaming them maps behaviours to behaviours. *)
(* MC_View names each reservoir page by where it is: the tables of s1 and *)
(* s2 in slot order, then the free list from its head.                    *)
(***************************************************************************)
MC_SpaceOrder == <<s1, s2>>

MC_Tables(t) ==
  IF sp[t] = NONE THEN <<>>
  ELSE <<sp[t].pgdir, sp[t].pmd>> \o [i \in 1..NPMD |-> sp[t].pt[i - 1]]

MC_Placed ==
  SelectSeq(FlattenSeq([k \in 1..2 |-> MC_Tables(MC_SpaceOrder[k])]),
            LAMBDA a : a \in ReservoirAddrs)
    \o freelist

MC_Rename(a) ==
  IF a \in ReservoirAddrs
    THEN -SelectInSeq(MC_Placed, LAMBDA x : x = a) * PT_SZ
  ELSE a

MC_View ==
  <<bitmap, lnks, head, panic, building, copied, loaded,
    [i \in DOMAIN freelist |-> MC_Rename(freelist[i])],
    [t \in Spaces |->
       IF sp[t] = NONE THEN NONE
       ELSE [sp[t] EXCEPT !.pgdir = MC_Rename(@), !.pmd = MC_Rename(@),
                          !.pt = [i \in PmdSlots |-> MC_Rename(@[i])]]]>>
=============================================================================
