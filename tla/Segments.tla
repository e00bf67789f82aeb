------------------------------ MODULE Segments ------------------------------
(***************************************************************************)
(* Ranges of bytes against pages and sectors: user_mem_check of            *)
(* kern/pmap.c, region_alloc and load_icode of kern/env.c, bootmain of     *)
(* boot/main.c.  An address is a number below ADDRMOD and wraps around.    *)
(***************************************************************************)
EXTENDS Integers, Sequences, SequencesExt, FiniteSets

CONSTANTS PGSIZE, SECTSIZE,
          ADDRMOD,     \* 2^32
          ULIM,
          NoTable,     \* no page table: pgdir_walk returns NULL
          Garbage      \* what a page or a sector nobody wrote holds

ASSUME SegmentsAssumption ==
  /\ PGSIZE \in Nat \ {0} /\ SECTSIZE \in Nat \ {0}
  /\ ADDRMOD \in Nat /\ ADDRMOD % PGSIZE = 0 /\ ULIM \in 0 .. ADDRMOD-1 /\ ULIM % PGSIZE = 0

RoundDown(a) == a - (a % PGSIZE)
RoundUp(a) == RoundDown((a + PGSIZE - 1) % ADDRMOD)

(***************************************************************************)
(* user_mem_check: pt gives the permissions of each page                   *)
(***************************************************************************)
\* Mutant: the end is rounded down.
EndVa_down(va, len) == RoundDown((va + len) % ADDRMOD)

EndVa(va, len) == RoundUp((va + len) % ADDRMOD)

\* One page.  It goes on, or ends with "ok", with "fault" for -E_FAULT, or with "null"
\* when the error path reads through a null pte for the address to report.
CheckPage(pt, va, end, perm, addr) ==
  LET pte == pt[addr \div PGSIZE]
  IN  IF addr >= end THEN [addr |-> addr, ret |-> "ok"]
      ELSE IF pte = NoTable THEN [addr |-> addr, ret |-> IF addr = va THEN "fault" ELSE "null"]
      ELSE IF addr > ULIM \/ ~(perm \subseteq pte) THEN [addr |-> addr, ret |-> "fault"]
      ELSE [addr |-> (addr + PGSIZE) % ADDRMOD, ret |-> "run"]

(***************************************************************************)
(* load_icode: a segment is [type, va, off, filesz, memsz].  mem maps the  *)
(* addresses of mapped pages to bytes.                                     *)
(***************************************************************************)
\* The pages of a region: its start and its length are rounded, not its end.
RegionPages(va, len) ==
  {RoundDown(va) + k * PGSIZE : k \in 0 .. (RoundUp(len) \div PGSIZE) - 1}

\* Fresh pages, not cleared, over whatever was mapped there.
region_alloc(mem, va, len) ==
  LET new == UNION {p .. p + PGSIZE - 1 : p \in RegionPages(va, len)}
  IN  [a \in DOMAIN mem \cup new |-> IF a \in new THEN Garbage ELSE mem[a]]

\* Mutant: the rest of the segment is not cleared.
Contents_uncleared(s, file, a, old) == IF a - s.va < s.filesz THEN file[s.off + a - s.va] ELSE old

\* What memmove and memset leave at address a of the segment.
Contents(s, file, a, old) == IF a - s.va < s.filesz THEN file[s.off + a - s.va] ELSE 0

\* One segment; a byte written where nothing is mapped is a page fault of the kernel.
LoadSegment(st, s, file) ==
  IF s.type # "LOAD" THEN st
  ELSE IF s.filesz > s.memsz THEN [st EXCEPT !.panic = TRUE]
  ELSE LET mem == region_alloc(st.mem, s.va, s.memsz)
           seg == s.va .. s.va + s.memsz - 1
       IN  IF seg \subseteq DOMAIN mem
           THEN [st EXCEPT !.mem = [a \in DOMAIN mem |-> IF a \in seg
                                                         THEN Contents(s, file, a, mem[a]) ELSE mem[a]]]
           ELSE [st EXCEPT !.panic = TRUE]

(***************************************************************************)
(* bootmain: the kernel's file starts at sector 1 of the disk              *)
(***************************************************************************)
EndPa(pa, count) == pa + count

\* Whole sectors, from the one the offset is in.
readseg(mem, disk, pa, count, offset) ==
  LET start  == pa - (pa % SECTSIZE)
      sector == (offset \div SECTSIZE) + 1
      n      == (EndPa(pa, count) - start + SECTSIZE - 1) \div SECTSIZE
      new    == start .. start + n * SECTSIZE - 1
  IN  [a \in DOMAIN mem |-> IF a \in new THEN disk[sector * SECTSIZE + a - start] ELSE mem[a]]

=============================================================================
