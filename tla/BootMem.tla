------------------------------ MODULE BootMem -------------------------------
(***************************************************************************)
(* mem_init of kern/pmap.c: how memory is found, divided and mapped before *)
(* the first program.  Addresses, virtual and physical, are page numbers.  *)
(* The first page table, of kern/entrypgdir.c, maps the first NPT physical *)
(* pages only; whatever mem_init touches before it loads its own directory *)
(* has to lie there.                                                       *)
(***************************************************************************)
EXTENDS Integers, Sequences, SequencesExt, FiniteSets

CONSTANTS NPT,         \* entries of a page table (1024)
          VPAGES,      \* pages of the address space (2^20)
          UENVS, UPAGES, UVPT, KSTACKTOP, KERNBASE,
          KSTKSIZE,    \* pages of the kernel stack
          BOOTSTACK,   \* physical page of bootstack
          MPENTRY,     \* physical page of MPENTRY_PADDR
          IOPHYS,      \* first physical page of the I/O hole
          EXTPHYS,     \* first physical page after the I/O hole
          INFOS,       \* struct PageInfos in a page
          ENVPAGES     \* pages of the array envs

ASSUME BootAssumption ==
  /\ {NPT, VPAGES, KSTKSIZE, EXTPHYS, INFOS, ENVPAGES} \subseteq Nat \ {0}
  /\ IOPHYS \in 0 .. EXTPHYS
  /\ UENVS < UPAGES /\ UPAGES < UVPT /\ UVPT < KSTACKTOP /\ KSTACKTOP <= KERNBASE
  /\ KERNBASE + NPT <= VPAGES
  /\ \A r \in {UENVS, UPAGES, UVPT, KSTACKTOP, KERNBASE, VPAGES} : r % NPT = 0

Pdx(va) == va \div NPT
Unmapped == [pa |-> -1, perm |-> {}]

(***************************************************************************)
(* The map of entry.S: [0, 4MB) and [KERNBASE, KERNBASE+4MB)               *)
(***************************************************************************)
entry_pgtable == [i \in 0 .. NPT-1 |-> [pa |-> i, perm |-> {"P", "W"}]]

\* The directory: the low mapping is not writable.
entry_pgdir(va) ==
  CASE Pdx(va) = 0 -> [entry_pgtable[va] EXCEPT !.perm = {"P"}]
    [] Pdx(va) = Pdx(KERNBASE) -> entry_pgtable[va - KERNBASE]
    [] OTHER -> Unmapped

(***************************************************************************)
(* Physical memory                                                         *)
(***************************************************************************)
\* From the kilobytes the CMOS reports, as pages.
i386_detect_memory(base, ext) == IF ext > 0 THEN EXTPHYS + ext ELSE base

\* Pages an array of n elements takes.
PagesFor(n, unit) == (n + unit - 1) \div unit

\* Where mem_init puts its data, one after the other from the kernel's end: its
\* directory, pages[] and envs[].
boot_alloc(npages, kend) ==
  LET infos == PagesFor(npages, INFOS)
  IN  [pgdir |-> kend, pages |-> kend + 1, infos |-> infos, envs |-> kend + 1 + infos,
       nextfree |-> kend + 1 + infos + ENVPAGES]

\* The first branches of page_init's loop.
InUse(i, base, nextfree) ==
  \/ i = 0 \/ i = MPENTRY
  \/ i >= base /\ (i <= EXTPHYS \/ i < nextfree)

\* page_free_list, from the last page down.
page_init(npages, base, nextfree) ==
  SelectSeq([k \in 1..npages |-> npages - k], LAMBDA i : ~InUse(i, base, nextfree))

\* Mutant: the list stays as it is.
LowFirst_not(free) == free

\* check_page_free_list(1) reorders the list: pages of the first table come first.
LowFirst(free) == SelectSeq(free, LAMBDA i : i < NPT) \o SelectSeq(free, LAMBDA i : i >= NPT)

\* The assertions of check_page_free_list.
check_page_free_list(free, npages, nextfree) ==
  /\ \A i \in Range(free) :
       /\ i \in 0 .. npages-1 /\ i \notin {0, MPENTRY, IOPHYS, EXTPHYS - 1, EXTPHYS}
       /\ i < EXTPHYS \/ i >= nextfree
  /\ \E i \in Range(free) : i < EXTPHYS
  /\ \E i \in Range(free) : i >= EXTPHYS

(***************************************************************************)
(* The kernel's directory: free pages, the tables and what they map        *)
(***************************************************************************)
\* One page of boot_map_region; pgdir_walk takes a page for a table.  Without one
\* the region ends there.
MapPage(st, va, pa, perm) ==
  IF st.failed THEN st
  ELSE LET d == Pdx(va)
           has == d \in DOMAIN st.tables
       IN  IF ~has /\ st.free = <<>> THEN [st EXCEPT !.failed = TRUE]
           ELSE [free   |-> IF has THEN st.free ELSE Tail(st.free),
                 tables |-> IF has THEN st.tables
                            ELSE [x \in DOMAIN st.tables \cup {d} |->
                                    IF x = d THEN Head(st.free) ELSE st.tables[x]],
                 pte    |-> [st.pte EXCEPT ![va] = [pa |-> pa, perm |-> perm \cup {"P"}]],
                 failed |-> FALSE]

boot_map_region(st, va, size, pa, perm) ==
  [FoldLeft(LAMBDA s, k : MapPage(s, va + k - 1, pa + k - 1, perm), st, [k \in 1..size |-> k])
   EXCEPT !.failed = FALSE]

\* Mutant: the stack is mapped up to its guard page.
KernelStack_wide(st) == boot_map_region(st, KSTACKTOP - KSTKSIZE - 1, KSTKSIZE + 1, BOOTSTACK - 1, {"W"})

KernelStack(st) == boot_map_region(st, KSTACKTOP - KSTKSIZE, KSTKSIZE, BOOTSTACK, {"W"})

\* The directory is a table too, the one of UVPT: there each table shows as a page
\* that programs may read.
Window(st) ==
  [st EXCEPT !.pte = [va \in DOMAIN @ |->
     IF Pdx(va) # Pdx(UVPT) THEN @[va]
     ELSE IF va - UVPT \in DOMAIN st.tables THEN [pa |-> st.tables[va - UVPT], perm |-> {"P", "U"}]
     ELSE Unmapped]]

mem_init(base, ext, kend) ==
  LET npages == i386_detect_memory(base, ext)
      b      == boot_alloc(npages, kend)
      free   == page_init(npages, base, b.nextfree)
      s0 == [free |-> LowFirst(free), tables |-> [d \in {Pdx(UVPT)} |-> b.pgdir],
             pte |-> [va \in 0 .. VPAGES-1 |-> Unmapped], failed |-> FALSE]
      s1 == boot_map_region(s0, UPAGES, b.infos, b.pages, {"U"})
      s2 == boot_map_region(s1, KERNBASE + b.pages, b.infos, b.pages, {"W"})
      s3 == boot_map_region(s2, UENVS, ENVPAGES, b.envs, {"U"})
      s4 == boot_map_region(s3, KERNBASE + b.envs, ENVPAGES, b.envs, {"W"})
      s5 == KernelStack(s4)
      s6 == boot_map_region(s5, KERNBASE, VPAGES - KERNBASE, 0, {"W"})
  IN  [npages |-> npages, b |-> b, free |-> free, kern |-> Window(s6),
       panic |-> ~check_page_free_list(free, npages, b.nextfree)]

=============================================================================
