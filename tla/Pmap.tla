-------------------------------- MODULE Pmap --------------------------------
(***************************************************************************)
(* Physical pages and two-level page tables: kern/pmap.c, with the memory  *)
(* part of env_setup_vm and env_free (kern/env.c).                         *)
(*                                                                         *)
(* The routines are operators on the state of memory, a record             *)
(*   ref    pages[p].pp_ref, an unsigned counter that wraps at RefMod      *)
(*   free   page_free_list, head first                                     *)
(*   ent    the entries page p holds when it is a directory or a table     *)
(*   dirty  the pages that hold bytes a user program wrote (of those       *)
(*          module Kernel watches)                                         *)
(*   pgdir  envs[e].env_pgdir, NoPage when NULL                            *)
(* so that a handler is their composition, in the order of its calls.      *)
(* Entries live in the physical page, as in the machine: two directories   *)
(* that point to one table would share it.  The part of a directory from   *)
(* UTOP up is the kernel's, the same in every directory and never changed, *)
(* and is left out.                                                        *)
(***************************************************************************)
EXTENDS Integers, Sequences, FiniteSets, Functions

CONSTANTS NPAGES,       \* physical pages; page 0 is reserved by page_init
          NPTENTRIES,   \* entries of a page table
          UTOPX,        \* PDX(UTOP), the entries of a directory below UTOP
          RefMod        \* 2^16: pp_ref is a uint16_t

ASSUME NPAGESAssumption == NPAGES \in Nat \ {0}
ASSUME NPTENTRIESAssumption == NPTENTRIES \in Nat \ {0}
ASSUME UTOPXAssumption == UTOPX \in Nat \ {0}
ASSUME RefModAssumption == RefMod \in Nat \ {0, 1}

Page == 0 .. NPAGES - 1
NoPage == -1                    \* the NULL struct PageInfo pointer
UserPdx == 0 .. UTOPX - 1
UserPtx == 0 .. NPTENTRIES - 1
Idx == UserPdx \cup UserPtx     \* the words of a page that may be entries

\* A page-aligned virtual address below UTOP, by directory and table index.
VA == UserPdx \X UserPtx
PDX(va) == va[1]
PTX(va) == va[2]

\* The next page up, for the addresses that have one below UTOP.
HasNext(va) == PTX(va) < NPTENTRIES - 1 \/ PDX(va) < UTOPX - 1
NextVa(va) == IF PTX(va) < NPTENTRIES - 1 THEN <<PDX(va), PTX(va) + 1>>
              ELSE <<PDX(va) + 1, 0>>

\* An entry: PTE_P, the page number PTE_ADDR >> PGSHIFT, and PTE_W.  Every
\* entry below UTOP that is present has PTE_U.  A cleared word names page 0.
Entry == [p : BOOLEAN, pp : Page, w : BOOLEAN]
Absent == [p |-> FALSE, pp |-> 0, w |-> FALSE]
Present(q, w) == [p |-> TRUE, pp |-> q, w |-> w]
ZeroedPage == [k \in Idx |-> Absent]

\* page_init: page 0 is in use, the others are listed, highest first.
page_init(E) ==
    [ref |-> [q \in Page |-> IF q = 0 THEN 1 ELSE 0],
     free |-> [i \in 1 .. NPAGES - 1 |-> NPAGES - i],
     ent |-> [q \in Page |-> ZeroedPage],
     dirty |-> {},
     pgdir |-> [e \in E |-> NoPage]]

Inc(n) == IF n + 1 = RefMod THEN 0 ELSE n + 1
Dec(n) == IF n = 0 THEN RefMod - 1 ELSE n - 1

-----------------------------------------------------------------------------
(* The allocator.  Callers test m.free # <<>> first (page_alloc returning  *)
(* NULL) and the page allocated is Head(m.free).                           *)

\* The page leaves the list.
page_alloc_raw(m) == [m EXCEPT !.free = Tail(@)]

page_alloc_nozero(m) == page_alloc_raw(m)

\* page_alloc(ALLOC_ZERO) also clears its bytes.
page_alloc(m) ==
    LET pp == Head(m.free)
    IN  [page_alloc_raw(m) EXCEPT !.ent[pp] = ZeroedPage,
                                  !.dirty = @ \ {pp}]

page_free(m, pp) == [m EXCEPT !.free = <<pp>> \o @]

page_decref_early(m, pp) ==
    LET n == [m EXCEPT !.ref[pp] = Dec(@)]
    IN  IF n.ref[pp] <= 1 THEN page_free(n, pp) ELSE n

page_decref(m, pp) ==
    LET n == [m EXCEPT !.ref[pp] = Dec(@)]
    IN  IF n.ref[pp] = 0 THEN page_free(n, pp) ELSE n

page_incref(m, pp) == [m EXCEPT !.ref[pp] = Inc(@)]

SetEntry(m, t, k, x) == [m EXCEPT !.ent[t][k] = x]

-----------------------------------------------------------------------------
(* Page tables.  d is the directory's page.                                *)

\* pgdir_walk(d, va, 0): the table exists, and is this page.
HasTable(m, d, va) == m.ent[d][PDX(va)].p
TableOf(m, d, va) == m.ent[d][PDX(va)].pp
PteOf(m, d, va) == m.ent[TableOf(m, d, va)][PTX(va)]
IsMapped(m, d, va) == HasTable(m, d, va) /\ PteOf(m, d, va).p

\* pgdir_walk(d, va, 1) where there is no table and a page is free for it.
pgdir_walk_noref(m, d, va) ==
    LET t == Head(m.free)
    IN  SetEntry(page_alloc(m), d, PDX(va), Present(t, TRUE))

pgdir_walk(m, d, va) ==
    LET t == Head(m.free)
    IN  SetEntry(page_incref(page_alloc(m), t), d, PDX(va), Present(t, TRUE))

\* page_lookup does not test PTE_P: a cleared entry of an existing table is
\* answered with &pages[0].
page_lookup(m, d, va) ==
    IF HasTable(m, d, va) THEN PteOf(m, d, va).pp ELSE NoPage

page_remove(m, d, va) ==
    LET pp == page_lookup(m, d, va)
    IN  IF pp = NoPage THEN m
        ELSE SetEntry(page_decref(m, pp), TableOf(m, d, va), PTX(va), Absent)

\* page_insert fails, with memory untouched, when it needs a table and there is
\* no page for one.
InsertFails(m, d, va) == ~HasTable(m, d, va) /\ m.free = <<>>

\* The page re-inserted where it was mapped for the last time has just been
\* freed by page_remove, and is taken back from the head of the list.
Unlist(m, pp) ==
    IF m.free # <<>> /\ Head(m.free) = pp THEN [m EXCEPT !.free = Tail(@)] ELSE m

MakeRoom(m, d, pp, va) ==
    IF HasTable(m, d, va)
    THEN Unlist(IF IsMapped(m, d, va) THEN page_remove(m, d, va) ELSE m, pp)
    ELSE pgdir_walk(m, d, va)

page_insert_nounlist(m, d, pp, va, w) ==
    LET n == IF HasTable(m, d, va)
             THEN IF IsMapped(m, d, va) THEN page_remove(m, d, va) ELSE m
             ELSE pgdir_walk(m, d, va)
    IN  page_incref(SetEntry(n, TableOf(n, d, va), PTX(va), Present(pp, w)), pp)

page_insert(m, d, pp, va, w) ==
    LET n == MakeRoom(m, d, pp, va)
    IN  page_incref(SetEntry(n, TableOf(n, d, va), PTX(va), Present(pp, w)), pp)

-----------------------------------------------------------------------------
(* Address spaces.                                                         *)

\* env_setup_vm: the directory is a page with one reference, and its part
\* below UTOP, copied from kern_pgdir, is empty.
env_setup_vm(m, e) ==
    LET d == Head(m.free)
    IN  [page_incref(page_alloc(m), d) EXCEPT !.pgdir[e] = d]

\* env_free: what follows each inner loop, and the outer one.
env_free_table(m, d, i) ==
    page_decref(SetEntry(m, d, i, Absent), m.ent[d][i].pp)

env_free_pgdir(m, e) ==
    page_decref([m EXCEPT !.pgdir[e] = NoPage], m.pgdir[e])

-----------------------------------------------------------------------------
(* user_mem_check of one page, or of a page and the next.  "fault" is      *)
(* -E_FAULT.  When the second page has no page table, the error path reads *)
(* through the NULL pte: virtual address 0 of the directory in cr3, which  *)
(* is a kernel fault ("oops") unless that address happens to be mapped.    *)

Allows(m, d, va, w) == IsMapped(m, d, va) /\ (w => PteOf(m, d, va).w)

user_mem_check(m, d, va, two, w, cr3dir) ==
    IF ~Allows(m, d, va, w) THEN "fault"
    ELSE IF ~two \/ Allows(m, d, NextVa(va), w) THEN "ok"
    ELSE IF HasTable(m, d, NextVa(va)) \/ IsMapped(m, cr3dir, <<0, 0>>)
    THEN "fault" ELSE "oops"

-----------------------------------------------------------------------------
(* What makes a memory state right.                                        *)

\* The entries, and the directories, that refer to page q.
EntRefs(m, q) ==
    {x \in Page \X Idx : m.ent[x[1]][x[2]].p /\ m.ent[x[1]][x[2]].pp = q}
DirRefs(m, q) == {e \in DOMAIN m.pgdir : m.pgdir[e] = q}

Dirs(m) == {m.pgdir[e] : e \in DOMAIN m.pgdir} \ {NoPage}
Tables(m) == {m.ent[x[1]][x[2]].pp :
                x \in {y \in Dirs(m) \X UserPdx : m.ent[y[1]][y[2]].p}}

OnList(m) == Range(m.free)

=============================================================================
