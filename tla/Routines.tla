------------------------------ MODULE Routines ------------------------------
(***************************************************************************)
(* The kernel's pure routines, called one at a time with every input of an *)
(* instance.  A state is a call that has returned: its inputs and its      *)
(* result; or, for the routines of Loops, a turn of its loop.  The         *)
(* properties compare the results with definitions that do not follow the  *)
(* code.                                                                   *)
(***************************************************************************)
EXTENDS Integers, Sequences, FiniteSets, SequencesExt,
        Strings, Printfmt, Kdebug, BootMem, Keyboard, Loops

CONSTANTS MemSize,      \* bytes of memory in the calls of memmove and memset
          Texts,        \* strings to copy and to compare
          Formats,      \* formats without a conversion that takes an argument
          Stabs,        \* stab tables, each a function on 0 .. n-1
          Symbols,      \* the kernel's symbol table and a program's
          Machines      \* [base, ext, kend] for mem_init

\* Memory with a different byte at every address.
Ramp == [a \in 0 .. MemSize-1 |-> 100 + a]

\* Memory with string t at address 8 and no zeros elsewhere but at the end.
Holding(t) == [a \in 0 .. 23 |-> IF a \in 8 .. 7 + Len(t) THEN t[a - 7]
                                 ELSE IF a \in {8 + Len(t), 23} THEN 0 ELSE 7]

\* Two strings, at 1 and at 11, and zeros around them.
Both(t, u) == [a \in 0 .. 23 |-> IF a \in 1 .. Len(t) THEN t[a]
                                 ELSE IF a \in 11 .. 10 + Len(u) THEN u[a - 10] ELSE 0]

CallMemmove ==
  /\ fn = "none"
  /\ \E d, s \in 0 .. MemSize-1, n \in 0 .. MemSize :
    /\ d + n <= MemSize /\ s + n <= MemSize
    /\ Called("memmove", [d |-> d, s |-> s, n |-> n], memmove(Ramp, d, s, n))

CallMemset ==
  /\ fn = "none"
  /\ \E d \in 0 .. MemSize-1, n \in 0 .. MemSize, c \in {0, 300} :
    /\ d + n <= MemSize
    /\ Called("memset", [d |-> d, n |-> n, c |-> c], memset(Ramp, d, c, n))

CallCopy ==
  /\ fn = "none"
  /\ \E t \in Texts, size \in 0..5 :
    Called("copy", [t |-> t, size |-> size],
      [strlcpy |-> strlcpy(Holding(t), 1, 8, size), strncpy |-> strncpy(Holding(t), 1, 8, size),
       strcpy |-> strcpy(Holding(t), 1, 8), strcat |-> strcat([Holding(t) EXCEPT ![2] = 0], 1, 8)])

CallCompare ==
  /\ fn = "none"
  /\ \E t, u \in Texts, n \in 0..4 :
    LET m == Both(t, u)
    IN  Called("compare", [t |-> t, u |-> u, n |-> n],
          [strcmp |-> strcmp(m, 1, 11), strncmp |-> strncmp(m, 1, 11, n),
           memcmp |-> memcmp(m, 1, 11, n), strchr |-> strchr(m, 1, n),
           memfind |-> memfind(m, 1, n, 4), strnlen |-> strnlen(m, 1, n)])

\* A number printed in some base, and read back from where it was printed.
Conversions == {[c |-> 100, base |-> 10], [c |-> 117, base |-> 10], [c |-> 111, base |-> 8],
                [c |-> 120, base |-> 16], [c |-> 112, base |-> 16], [c |-> 112, base |-> 0]}

CallPrintNumber ==
  /\ fn = "none"
  /\ \E v \in -(UINTMOD \div 2) .. (UINTMOD \div 2) - 1, k \in Conversions, w \in {<<>>, <<48, 52>>, <<52>>} :
    LET text == vprintfmt(<<Percent>> \o w \o <<k.c, 0>>, <<v>>)
    IN  Called("number", [v |-> v, k |-> k, w |-> w],
          [text |-> text, back |-> strtol([a \in 1 .. Len(text) + 1 |->
                                             IF a <= Len(text) THEN text[a] ELSE 0], 1, k.base)])

CallPrintString ==
  /\ fn = "none"
  /\ \E t \in Texts, w \in 0..4, p \in 0..4, left, alt \in BOOLEAN :
    LET text == vprintfmt(<<Percent>> \o (IF left THEN <<45>> ELSE <<>>) \o (IF alt THEN <<35>> ELSE <<>>)
                            \o <<42, 46, 42, 115, 0>>, <<w, p, t>>)
    IN  Called("string", [t |-> t, w |-> w, p |-> p, left |-> left, alt |-> alt], vcprintf(text))

CallPrintLiteral ==
  /\ fn = "none"
  /\ \E f \in Formats : Called("literal", f, vprintfmt(f \o <<0>>, <<>>))

CallPrintBuffers ==
  /\ fn = "none"
  /\ \E len \in 0 .. 3 * PRINTBUF, n \in 0 .. PRINTBUF :
    LET text == [i \in 1..len |-> i - 2]
    IN  Called("buffers", [text |-> text, n |-> n],
          [sent |-> vcprintf(text), snprintf |-> vsnprintf(n, text)])

CallKeyboard ==
  /\ fn = "none"
  /\ \E d \in 0..127, ext \in BOOLEAN, s \in SUBSET {"SHIFT", "CTL", "CAPSLOCK"} :
    Called("kbd", [d |-> d, ext |-> ext, s |-> s],
             kbd_proc_data(d, IF ext THEN s \cup {"E0ESC"} ELSE s))

Last0(stabs) == Cardinality(DOMAIN stabs) - 1

CallBinsearch ==
  /\ fn = "none"
  /\ \E t \in Stabs, addr \in 0..5 : \E l \in 0 .. Last0(t) : \E r \in l .. Last0(t) :
    Called("binsearch", [t |-> t, addr |-> addr, l |-> l, r |-> r],
             stab_binsearch(t, l, r, "FUN", addr))

CallDebuginfo ==
  /\ fn = "none"
  /\ \E p \in Symbols, addr \in 1 .. 2 * ULIM :
    Called("debuginfo", [kern |-> p.kern, user |-> p.user, addr |-> addr],
           debuginfo_eip(p.kern, p.user, ULIM, addr))

CallMemInit ==
  /\ fn = "none"
  /\ \E c \in Machines : Called("mem_init", c, mem_init(c.base, c.ext, c.kend))

Again == fn # "none" /\ fn' = "none" /\ arg' = 0 /\ res' = 0

Init == LoopInit

Next ==
  \/ CallMemmove \/ CallMemset \/ CallCopy \/ CallCompare
  \/ CallPrintNumber \/ CallPrintString \/ CallPrintLiteral \/ CallPrintBuffers
  \/ CallKeyboard \/ CallBinsearch \/ CallDebuginfo
  \/ CallMemInit
  \/ LoopStep
  \/ Again

Spec == Init /\ [][Next]_vars

-----------------------------------------------------------------------------
(***************************************************************************)
(* Properties                                                              *)
(***************************************************************************)
\* memmove and memset change the destination, all of it and nothing else, for every
\* overlap and alignment: the direction and the width of the string instruction
\* never show.
BlocksExact ==
  /\ fn = "memmove" =>
       res = [a \in DOMAIN Ramp |-> IF a \in arg.d .. arg.d + arg.n - 1
                                    THEN Ramp[arg.s + a - arg.d] ELSE Ramp[a]]
  /\ fn = "memset" =>
       res = [a \in DOMAIN Ramp |-> IF a \in arg.d .. arg.d + arg.n - 1
                                    THEN arg.c % 256 ELSE Ramp[a]]

\* The bytes from address d on are u, and the rest of memory is as before.
Stored(m, old, d, u) ==
  m = [a \in DOMAIN old |-> IF a \in d .. d + Len(u) - 1 THEN u[a - d + 1] ELSE old[a]]

\* Copies stay in their bounds: strlcpy stores a terminated prefix of at most size
\* bytes, strncpy exactly size bytes padded with zeros, strcpy and strcat the whole
\* string and one terminator.
CopiesBounded ==
  fn = "copy" =>
    LET t == arg.t
        m == Holding(t)
        fit == SubSeq(t, 1, IF Len(t) < arg.size THEN Len(t) ELSE arg.size - 1)
    IN  /\ Stored(res.strlcpy.m, m, 1, IF arg.size = 0 THEN <<>> ELSE Append(fit, 0))
        /\ arg.size > 0 => res.strlcpy.n = Len(fit)
        /\ Stored(res.strncpy, m, 1, [i \in 1 .. arg.size |-> IF i <= Len(t) THEN t[i] ELSE 0])
        /\ Stored(res.strcpy, m, 1, Append(t, 0))
        /\ Stored(res.strcat, m, 1, <<7>> \o t \o <<0>>)

Precedes(t, u) ==
  \E k \in 0 .. Len(u) - 1 :
    /\ k <= Len(t) /\ SubSeq(t, 1, k) = SubSeq(u, 1, k)
    /\ k = Len(t) \/ t[k + 1] < u[k + 1]

AgreesWith(r, t, u) == /\ r < 0 <=> Precedes(t, u)
                       /\ r > 0 <=> Precedes(u, t)

UpTo(t, n) == SubSeq(t, 1, IF Len(t) < n THEN Len(t) ELSE n)

\* strcmp, strncmp and memcmp order strings by unsigned bytes, whatever the
\* compiler takes a char to be; strchr and memfind find the first occurrence.
OrderUnsigned ==
  fn = "compare" =>
    LET t == arg.t
        u == arg.u
        n == arg.n
        pos == {k \in 1 .. Len(t) : t[k] = n}
    IN  /\ AgreesWith(res.strcmp, t, u)
        /\ AgreesWith(res.strncmp, UpTo(t, n), UpTo(u, n))
        /\ AgreesWith(res.memcmp, UpTo(t, n), UpTo(u, n))
        /\ res.strchr = IF pos = {} \/ n = 0 THEN 0 ELSE Min(pos)
        /\ n > 0 => res.memfind = IF pos \cap 1..4 = {} THEN 5 ELSE Min(pos)
        /\ res.strnlen = Len(UpTo(t, n))

\* lib/string.c: blocks are moved and filled exactly, bounded copies stay in bounds and
\* terminated, comparisons and searches agree with their meaning.
StringsExact == BlocksExact /\ CopiesBounded /\ OrderUnsigned

\* A number printed with %d, %u, %o, %x or %p is read back by strtol as the number,
\* the smallest negative one included, unless spaces were put between its sign or
\* its 0x and its digits; strtol stops at the end.
NumberReadsBack ==
  fn = "number" =>
    /\ (arg.w # <<52>> \/ (arg.k.c # 112 /\ (arg.k.c = 100 => arg.v >= 0))) =>
         res.back = [val |-> arg.v, end |-> Len(res.text) + 1]
    /\ arg.w # <<>> => Len(res.text) >= 4

\* A format without conversions prints itself, unknown escapes included, and the
\* scan never runs past its end, even if it ends inside an escape.  A string is sent
\* byte for byte, those above 127 too, cut and filled to its precision and width; %#s
\* shows what cannot be printed as a question mark.
LiteralPrinted ==
  /\ fn = "literal" =>
       /\ \A i \in DOMAIN res : res[i] # Overrun[1]
       /\ Cardinality({i \in DOMAIN arg : arg[i] = Percent}) <= 1 => res = arg
  /\ fn = "string" =>
       LET visible == [i \in DOMAIN arg.t |-> IF arg.alt /\ arg.t[i] \notin 32..126 THEN 63 ELSE arg.t[i]]
           shown == UpTo(visible, arg.p)
           fill  == Pad(arg.w - Len(shown), SP)
       IN  FlattenSeq(res) = IF arg.left THEN shown \o fill ELSE fill \o shown

\* cprintf's system calls carry the text once, in order and never more than the
\* buffer holds, and a short text in a single call (lib/printf.c:14-18); snprintf
\* stores a terminated prefix inside its n bytes and counts the whole.
BuffersWhole ==
  fn = "buffers" =>
    LET bytes == [i \in DOMAIN arg.text |-> arg.text[i] % 256] IN
    /\ FlattenSeq(res.sent) = bytes
    /\ \A i \in DOMAIN res.sent : Len(res.sent[i]) < PRINTBUF
    /\ Len(arg.text) < PRINTBUF - 1 => Len(res.sent) = 1
    /\ arg.n >= 1 =>
         res.snprintf = [buf |-> Append(UpTo(bytes, arg.n - 1), 0), cnt |-> Len(arg.text)]

\* What is printed is what the format means, in the width of the type, and all of it
\* reaches the system calls and the buffers.
FormatsExact == NumberReadsBack /\ LiteralPrinted /\ BuffersWhole

\* Letters: Ctrl gives their control codes, Shift and Caps Lock each change their
\* case and together leave it.  A cursor key gives the same code under all of them,
\* but for Home under Ctrl, which the table has at another place (console.c:297).
KeysMeanLetters ==
  fn = "kbd" =>
    /\ (~arg.ext /\ normalmap[arg.d] \in 97..122) =>
         LET lower == normalmap[arg.d]
         IN  res.c = CASE "CTL" \in arg.s -> lower - 96
                       [] arg.s \in {{"SHIFT"}, {"CAPSLOCK"}} -> lower - 32
                       [] OTHER -> lower
    /\ (arg.ext /\ arg.d + 128 \in DOMAIN Cursor) => res.c = Cursor[arg.d + 128]
    /\ arg.ext => "E0ESC" \notin res.shift

\* stab_binsearch finds, in any part of a table, the last stab of the type at or
\* before the address and the place before the next one, though other stabs lie
\* between and several may have one address; without a stab of the type the range it
\* returns is empty.  When all of them lie after the address, the range ends before the
\* first; it is not empty then, the test of left > right (kdebug.c:41-43) finds only that
\* the type is missing.  After a match the search goes on with addr + 1 (kdebug.c:89), so
\* stabs at both addresses are excepted: they can give the later one.
StabFound ==
  fn = "binsearch" =>
    LET of == {k \in arg.l .. arg.r : arg.t[k].n_type = "FUN"}
        at == {k \in of : arg.t[k].n_value <= arg.addr}
        values == {arg.t[k].n_value : k \in of}
    IN  /\ of = {} => res.left > res.right
        /\ (of # {} /\ at = {}) => res.right = Min(of) - 1
        /\ (at # {} /\ ~({arg.addr, arg.addr + 1} \subseteq values)) =>
             /\ res.left = Max(at)
             /\ res.right = Min({k - 1 : k \in of \ at} \cup {arg.r})

\* debuginfo_eip, in tables with a header and files whose functions have lines: the
\* line is the last one at or before the address in the last function at or before
\* it, and the file and arguments are that function's, the kernel's for an address of
\* the kernel and the program's below.  With a damaged string table it reports nothing.
\* A program's table that cannot be read is excepted: it is not checked (kdebug.c:143-152)
\* and the kernel faults.
LineFound ==
  (fn = "debuginfo" /\ (arg.addr < ULIM => arg.user.mapped)) =>
    LET table == IF arg.addr < ULIM THEN arg.user ELSE arg.kern
        t == table.stabs
        funs == {k \in DOMAIN t : t[k].n_type = "FUN" /\ t[k].n_value <= arg.addr}
        f == Max(funs)
        ends == {k \in DOMAIN t : k > f /\ t[k].n_type \in {"FUN", "SO"}} \cup {Last0(t) + 1}
        lines == {k \in f .. Min(ends) - 1 : t[k].n_type = "SLINE" /\ t[f].n_value + t[k].n_value <= arg.addr}
    IN  /\ ~res.fault
        /\ ~table.strings => res.ret = -1 /\ res.fn = -1 /\ res.file = -1
        /\ (table.strings /\ funs # {}) =>
             /\ res.ret = 0 /\ res.fn = f /\ res.line = t[Max(lines)].n_desc
             /\ res.narg = Cardinality({k \in f .. Min(ends) - 1 : t[k].n_type = "PSYM"})
             /\ res.file = Max({k \in 0 .. Max(lines) : t[k].n_type \in {"SO", "SOL"}})

\* Symbols: the search in any table, and what debuginfo_eip makes of it.
SymbolsFound == StabFound /\ LineFound

\* Pages that hold something when page_init runs.
Occupied == {0, MPENTRY} \cup arg.base .. res.b.nextfree - 1

\* The free list has every page that holds nothing, once, and none that does: not
\* the I/O hole, the kernel, its directory, pages[] or envs[].  The kernel's own
\* assertions about the list fail only where base or extended memory has no such page.
FreeAtBoot ==
  fn = "mem_init" =>
    /\ IsInjective(res.free)
    /\ Range(res.free) = (0 .. res.npages - 1) \ Occupied
    /\ res.panic <=> \/ arg.base <= MPENTRY + 1
                     \/ res.npages <= res.b.nextfree

\* While mem_init runs, only the first NPT physical pages are mapped: every page
\* table it fills is one of them, as long as there are enough, because the list was
\* reordered.
TablesReachable ==
  fn = "mem_init" =>
    LET tables == {res.kern.tables[d] : d \in DOMAIN res.kern.tables}
    IN  \/ Cardinality({i \in Range(res.free) : i < NPT}) < Cardinality(tables) - 1
        \/ \A p \in tables : p < NPT

\* The free list of page_init is exact, and ordered so that the tables mem_init takes
\* from it can be written.
BootPagesSafe == FreeAtBoot /\ TablesReachable

\* The kernel's map.  Programs may read pages[], envs[] and, at UVPT, the page tables,
\* and write nothing; below UENVS nothing is mapped yet.  The kernel has all physical
\* memory above KERNBASE and a stack below KSTACKTOP, over a gap of its size where
\* nothing is mapped; stack, tables and directory are pages nobody else gets.  Not so if the
\* free pages ran out: boot_map_region says nothing of a table it did not get (pmap.c:534).
KernelMapExact ==
  (fn = "mem_init" /\ ~res.panic /\ res.kern.free # <<>>) =>
    LET pte    == res.kern.pte
        tables == res.kern.tables
        Shown(va, pa) == pte[va] = [pa |-> pa, perm |-> {"P", "U"}]
        readable == UPAGES .. UPAGES + res.b.infos - 1 \cup UENVS .. UENVS + ENVPAGES - 1
                      \cup {UVPT + d : d \in DOMAIN tables}
        stack  == KSTACKTOP - KSTKSIZE .. KSTACKTOP - 1
        taken  == {pte[va].pa : va \in stack} \cup Range(tables)
    IN  /\ {va \in DOMAIN pte : "U" \in pte[va].perm} = readable
        /\ \A k \in 0 .. res.b.infos - 1 : Shown(UPAGES + k, res.b.pages + k)
        /\ \A k \in 0 .. ENVPAGES - 1 : Shown(UENVS + k, res.b.envs + k)
        /\ \A d \in DOMAIN tables : Shown(UVPT + d, tables[d])
        /\ \A va \in 0 .. VPAGES-1 : pte[va] # Unmapped => Pdx(va) \in DOMAIN tables /\ va >= UENVS
        /\ \A va \in KERNBASE .. VPAGES-1 : pte[va] = [pa |-> va - KERNBASE, perm |-> {"P", "W"}]
        /\ \A va \in stack : pte[va].perm = {"P", "W"} /\ pte[va - KSTKSIZE] = Unmapped
        /\ Cardinality(taken) = KSTKSIZE + Cardinality(DOMAIN tables)
        /\ taken \cap (Range(res.kern.free) \cup res.b.pages .. res.b.nextfree - 1) = {}

\* Loading the new directory changes nothing under the kernel's feet: each address
\* the old one maps above KERNBASE is mapped to the same page by the new one
\* (pmap.c:254-257).
SwitchSeamless ==
  (fn = "mem_init" /\ ~res.panic /\ res.kern.free # <<>>) =>
    \A va \in {x \in KERNBASE .. VPAGES-1 : entry_pgdir(x) # Unmapped} :
      res.kern.pte[va] = entry_pgdir(va)

\* The map gives programs nothing to write and the kernel what is its own, and the
\* switch to it goes unnoticed.
KernelMapSafe == KernelMapExact /\ SwitchSeamless

=============================================================================
