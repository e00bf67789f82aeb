------------------------------- MODULE Loops --------------------------------
(***************************************************************************)
(* The routines that are one loop over their input, a turn of the loop at  *)
(* a time: readline takes a key, runcmd a character, user_mem_check a page *)
(* and the two loaders a segment.  fn is the routine that runs, arg its    *)
(* inputs, res the state of its loop and at the end its result.  Between   *)
(* them any other routine may be called.                                   *)
(***************************************************************************)
EXTENDS Terminal, Segments

CONSTANTS Keys,         \* what may be typed at readline
          Lines,        \* command lines for runcmd
          PageTables,   \* permissions of the pages of a program
          Programs,     \* sequences of segments for load_icode
          File,         \* the bytes of the program's file
          Images,       \* sequences of segments for bootmain
          Disk,         \* the bytes of the disk
          Memory        \* physical memory when bootmain starts

VARIABLES fn,     \* the routine called, "none" before the first
          arg,    \* its inputs
          res     \* its result

vars == <<fn, arg, res>>

\* getchar waits for a character, and none is negative.  Lines have no terminator
\* inside.  Only the kernel may use the pages from ULIM on.
\* A program's segments end below the page of its stack, the kernel's in memory.
ASSUME LoopsAssumption ==
  /\ Keys \subseteq Nat \ {0}
  /\ Lines \subseteq Seq(Nat \ {0})
  /\ \A pt \in PageTables :
       \A p \in 0 .. (ADDRMOD \div PGSIZE) - 1 : p * PGSIZE >= ULIM => pt[p] = NoTable \/ "U" \notin pt[p]
  /\ \A phs \in Programs \cup Images : Len(phs) \in Nat /\ DOMAIN phs = 1 .. Len(phs)
  /\ \A phs \in Programs : \A i \in DOMAIN phs :
       /\ phs[i].va \in Nat /\ phs[i].memsz \in Nat /\ phs[i].filesz \in Nat /\ phs[i].off \in Nat
       /\ phs[i].va + phs[i].memsz + 2 * PGSIZE <= ADDRMOD
  /\ \A phs \in Images : \A i \in DOMAIN phs :
       /\ phs[i].pa \in Nat /\ phs[i].memsz \in Nat /\ phs[i].off \in Nat
       /\ phs[i].pa .. phs[i].pa + phs[i].memsz - 1 \subseteq DOMAIN Memory

Called(f, a, r) == fn' = f /\ arg' = a /\ res' = r

-----------------------------------------------------------------------------
readline ==
  /\ fn = "none"
  /\ \E pos \in 0 .. CRT_SIZE-1 :
       Called("readline", 0, [buf |-> <<>>, crt |-> cga_init(pos), done |-> FALSE])

readline_key ==
  /\ fn = "readline" /\ ~res.done
  /\ \E c \in Keys : res' = ReadChar(res, c)
  /\ UNCHANGED <<fn, arg>>

\* The buffer ends in its terminator.
runcmd ==
  /\ fn = "none"
  /\ \E l \in Lines :
       Called("runcmd", l, [i |-> 1, buf |-> l \o <<0>>, argv |-> <<>>, inarg |-> FALSE,
                            toomany |-> FALSE])

Scanned == res.toomany \/ res.i > Len(arg)

runcmd_char ==
  /\ fn = "runcmd" /\ ~Scanned
  /\ res' = ScanChar(res, arg[res.i])
  /\ UNCHANGED <<fn, arg>>

user_mem_check ==
  /\ fn = "none"
  /\ \E pt \in PageTables, va, len \in 0 .. ADDRMOD-1, perm \in {{"U"}, {"U", "W"}} :
       Called("user_mem_check", [pt |-> pt, va |-> va, len |-> len, perm |-> perm \cup {"P"}],
              [addr |-> va, ret |-> "run"])

user_mem_check_page ==
  /\ fn = "user_mem_check" /\ res.ret = "run"
  /\ res' = CheckPage(arg.pt, arg.va, EndVa(arg.va, arg.len), arg.perm, res.addr)
  /\ UNCHANGED <<fn, arg>>

load_icode ==
  /\ fn = "none"
  /\ \E phs \in Programs, magic \in BOOLEAN :
       Called("load_icode", [phs |-> phs, magic |-> magic],
              [mem |-> <<>>, panic |-> ~magic, i |-> 1, done |-> FALSE])

Loading == fn = "load_icode" /\ ~res.panic /\ ~res.done

load_icode_segment ==
  /\ Loading /\ res.i <= Len(arg.phs)
  /\ res' = [LoadSegment(res, arg.phs[res.i], File) EXCEPT !.i = @ + 1]
  /\ UNCHANGED <<fn, arg>>

\* After the segments, the page of the stack.
load_icode_stack ==
  /\ Loading /\ res.i > Len(arg.phs)
  /\ res' = [res EXCEPT !.mem = region_alloc(@, ADDRMOD - PGSIZE, PGSIZE), !.done = TRUE]
  /\ UNCHANGED <<fn, arg>>

\* The header has the magic number; without it nothing is loaded.
bootmain ==
  /\ fn = "none"
  /\ \E phs \in Images : Called("bootmain", phs, [mem |-> Memory, i |-> 1])

bootmain_segment ==
  /\ fn = "bootmain" /\ res.i <= Len(arg)
  /\ LET s == arg[res.i]
     IN  res' = [mem |-> readseg(res.mem, Disk, s.pa, s.memsz, s.off), i |-> res.i + 1]
  /\ UNCHANGED <<fn, arg>>

LoopRoutines == {"readline", "runcmd", "user_mem_check", "load_icode", "bootmain"}

LoopStep ==
  \/ readline \/ readline_key
  \/ runcmd \/ runcmd_char
  \/ user_mem_check \/ user_mem_check_page
  \/ load_icode \/ load_icode_segment \/ load_icode_stack
  \/ bootmain \/ bootmain_segment

\* Any other routine, or none.
Other == fn' \notin LoopRoutines

LoopInit == fn = "none" /\ arg = 0 /\ res = 0

LoopSpec == LoopInit /\ [][LoopStep \/ Other]_vars

-----------------------------------------------------------------------------
(***************************************************************************)
(* Properties                                                              *)
(***************************************************************************)
\* Until Enter, the cells before the cursor show the line as readline has it, after
\* any mix of characters, erasures, wrapped lines and scrolling; the line fits its
\* buffer with a terminator and the cursor stays on the screen.
EchoShowsLine ==
  fn = "readline" =>
    /\ Len(res.buf) < BUFLEN
    /\ res.crt.pos \in 0 .. CRT_SIZE-1
    /\ DOMAIN res.crt.cells = 0 .. CRT_SIZE-1
    /\ ~res.done => \A i \in DOMAIN res.buf : res.crt.cells[res.crt.pos - Len(res.buf) + i - 1] = res.buf[i]

\* The words of a line, each with its place.
Words(l) == {w \in (1 .. Len(l)) \X (1 .. Len(l)) :
               /\ w[1] <= w[2] /\ \A i \in w[1] .. w[2] : l[i] \notin WHITESPACE
               /\ w[1] > 1 => l[w[1] - 1] \in WHITESPACE
               /\ w[2] < Len(l) => l[w[2] + 1] \in WHITESPACE}

\* runcmd finds every word of the line, terminated in place; argv has room for them
\* and its null, or the line is refused.
RuncmdWords ==
  (fn = "runcmd" /\ Scanned) =>
    /\ res.toomany <=> Cardinality(Words(arg)) > MAXARGS - 1
    /\ ~res.toomany =>
         /\ Range(res.argv) = {w[1] : w \in Words(arg)}
         /\ \A i \in 1 .. Len(res.argv) - 1 : res.argv[i] < res.argv[i + 1]
         /\ \A w \in Words(arg) : res.buf[w[2] + 1] = 0
         /\ \A i \in DOMAIN arg : arg[i] \notin WHITESPACE => res.buf[i] = arg[i]

\* user_mem_check says yes exactly when every page that holds a byte of the range
\* may be accessed, for any alignment, as long as the rounded end of the range does
\* not wrap around (where it does, the loop does not run and the answer is yes).
EveryPageChecked ==
  (/\ fn = "user_mem_check" /\ res.ret # "run"
   /\ arg.len > 0 /\ arg.va + arg.len <= ADDRMOD - PGSIZE) =>
      (res.ret = "ok" <=> \A a \in arg.va .. arg.va + arg.len - 1 :
                            /\ arg.pt[a \div PGSIZE] # NoTable
                            /\ arg.perm \subseteq arg.pt[a \div PGSIZE])

PagesOf(s) == {a \div PGSIZE : a \in s.va .. s.va + s.memsz - 1} \cup {p \div PGSIZE : p \in RegionPages(s.va, s.memsz)}

\* The segments to load, which share no page.
Segs(phs) == {s \in {phs[i] : i \in DOMAIN phs} : s.type = "LOAD"}
Apart(phs) == \A s, u \in Segs(phs) : s # u => PagesOf(s) \cap PagesOf(u) = {}

\* What is wrong with a program: its magic number, or a segment longer in the file
\* than in memory.
Malformed(x) == ~x.magic \/ \E s \in Segs(x.phs) : s.filesz > s.memsz

\* The segment reaches into one page more than its length makes.
Straddles(s) == s.memsz > 0 /\ (s.va % PGSIZE) + s.memsz > RoundUp(s.memsz)

\* load_icode panics for a malformed program.  When it does not panic, each segment's
\* bytes are in their place and followed by zeros, whatever was loaded before or
\* after; and a well-formed program it panics for has a segment that straddles a page
\* boundary (UnalignedLoaded, below).  Segments share no page (env.c:368-370).
LoadedOrPanic ==
  (fn = "load_icode" /\ (res.panic \/ res.done) /\ Apart(arg.phs)) =>
    /\ Malformed(arg) => res.panic
    /\ res.panic => Malformed(arg) \/ \E s \in Segs(arg.phs) : Straddles(s)
    /\ ~res.panic => \A s \in Segs(arg.phs) : \A k \in 0 .. s.memsz - 1 :
                       res.mem[s.va + k] = IF k < s.filesz THEN File[s.off + k] ELSE 0

\* The sectors of a segment, in memory.
Sectors(s) == {a \div SECTSIZE : a \in s.pa - (s.pa % SECTSIZE) .. s.pa + s.memsz - 1}

\* File and memory agree on the offset of the segment in a sector, and the segments
\* loaded after it that share a sector with it lie at the same distance in the file.
Aligned(s) == s.pa % SECTSIZE = s.off % SECTSIZE
Undisturbed(phs, i) ==
  /\ Aligned(phs[i])
  /\ \A j \in i + 1 .. Len(phs) : Sectors(phs[j]) \cap Sectors(phs[i]) # {} =>
                                   phs[j].pa - phs[j].off = phs[i].pa - phs[i].off

\* The boot loader reads whole sectors, more than a segment asks for.  The order makes
\* up for it (boot/main.c:85-86): whatever was loaded before, a segment is in its place
\* afterwards unless a LATER one that comes from elsewhere in the file starts or ends in
\* one of its sectors.
KernelLoaded ==
  (fn = "bootmain" /\ res.i > Len(arg)) =>
    \A i \in DOMAIN arg : Undisturbed(arg, i) =>
      \A k \in 0 .. arg[i].memsz - 1 :
        res.mem[arg[i].pa + k] = Disk[SECTSIZE + arg[i].off + k]

\* Both loaders: a program's segments by load_icode, the kernel's by the boot loader.
SegmentsLoaded == LoadedOrPanic /\ KernelLoaded

\* ELF segments are not necessarily page-aligned (env.c:368), and region_alloc takes an
\* address and a length that are not, by rounding va down and va + len up (env.c:301-303):
\* load_icode loads every well-formed program.  It does not: the length is rounded, and
\* the last page of a segment that straddles a boundary is missing.
UnalignedLoaded ==
  (fn = "load_icode" /\ res.panic /\ Apart(arg.phs)) => Malformed(arg)

=============================================================================
