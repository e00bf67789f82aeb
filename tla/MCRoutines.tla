----------------------------- MODULE MCRoutines -----------------------------
EXTENDS Routines

\* All sequences over S of at most n elements.
UpToLen(S, n) == UNION {[1..k -> S] : k \in 0..n}

MCTexts == UpToLen({1, 65, 200}, 3)
MCFormats == UpToLen({Percent, 108, 53, 122}, 4)          \* '%' 'l' '5' 'z'
MCKeys == {97, 98, BS, DEL, LF}
MCLines == UpToLen({120, SP}, 7)

\* Functions in the order of their addresses, line stabs among them.
MCStabs ==
  {t \in UNION {[0 .. n-1 -> [n_type : {"FUN", "SLINE"}, n_value : {1, 2, 4}, n_desc : {0}]] : n \in 1..5} :
     /\ \A k \in DOMAIN t : t[k].n_type = "SLINE" => t[k].n_value = 1
     /\ \A j, k \in DOMAIN t : (j < k /\ t[j].n_type = "FUN" /\ t[k].n_type = "FUN")
                                  => t[j].n_value <= t[k].n_value}

Stab(type, value, line) == [n_type |-> type, n_value |-> value, n_desc |-> line]

\* A header, then two files: two functions in the first, one in the second, from base
\* on.  The functions' arguments and a second line of each vary, and so does an
\* included file.
SymbolTable(base, args, off, sol) ==
  LET fun(at, n, line) == <<Stab("FUN", at, 0)>> \o [i \in 1..n |-> Stab("PSYM", 0, 0)]
                            \o <<Stab("SLINE", 0, line), Stab("SLINE", off, line + 1)>>
      s == <<Stab("HDR", 0, 0), Stab("SO", base, 0)>>
             \o fun(base, args, base + 10)
             \o (IF sol THEN <<Stab("SOL", base + 8, 0)>> ELSE <<>>)
             \o fun(base + 8, 1, base + 20)
             \o <<Stab("SO", base + 16, 0)>>
             \o fun(base + 16, 0, base + 30)
  IN  [k \in 0 .. Len(s) - 1 |-> s[k + 1]]

\* The program's functions lie below ULIM, the kernel's from there on.
MCSymbols ==
  {[kern |-> [stabs |-> SymbolTable(ULIM, a, o, sol), strings |-> s, mapped |-> TRUE],
    user |-> [stabs |-> SymbolTable(4, 3 - a, o, ~sol), strings |-> u, mapped |-> m]] :
     a \in 0..3, o \in {2, 4, 7}, sol, s, u, m \in BOOLEAN}

\* The stack is inside the kernel.
MCMachines == [base : 2..4, ext : {0} \cup 6..26, kend : 8..10]

\* The pages at 0, 4 and 8 vary; the rest of the program's are mapped, the kernel's are
\* present and not the user's.
MCPageTables ==
  {[p \in 0 .. (ADDRMOD \div PGSIZE) - 1 |->
      CASE p \in 0..2 -> f[p] [] p * PGSIZE >= ULIM -> {"P", "W"} [] OTHER -> {"P", "U", "W"}] :
     f \in [0..2 -> {NoTable, {}, {"P", "U"}, {"P", "U", "W"}}]}

MCPrograms ==
  UpToLen([type : {"LOAD", "NOTE"}, va : {0, 3, 8, 14}, off : {0, 5}, filesz : {0, 2, 5}, memsz : {0, 2, 4, 6}], 2)

\* A file whose byte k is 50 + k, and a disk with such a file from sector 1 on.
MCFile == [k \in 0 .. 31 |-> 50 + k]
MCDisk == [k \in 0 .. 63 |-> IF k < SECTSIZE THEN Garbage ELSE 50 + k - SECTSIZE]
MCMemory == [a \in 0 .. 31 |-> Garbage]

MCImages ==
  UpToLen([pa : {4, 6, 9, 12, 15}, off : 0..7, memsz : {0, 1, 3, 6}], 2)

=============================================================================
