------------------------------- MODULE Kdebug -------------------------------
(***************************************************************************)
(* kern/kdebug.c: from an instruction address to its source line, through  *)
(* a table of stabs.  A stab is [n_type, n_value, n_desc]; the table is    *)
(* indexed from 0.  Names are left out: a name is the index of its stab.   *)
(* A symbol table is [stabs, strings, mapped]: whether its string table    *)
(* has a length and ends in a zero, and whether it can be read at all.     *)
(***************************************************************************)
EXTENDS Integers, Sequences, FiniteSets, FiniteSetsExt

(***************************************************************************)
(* stab_binsearch: a binary search among the stabs of one type, which lie  *)
(* among others, that narrows [left, right].                               *)
(***************************************************************************)
\* Mutant: an exact match ends the search where it is.
ExactMatch_stop(b, m) == [b EXCEPT !.left = m, !.l = m + 1, !.r = m]

\* The search goes on, for a later address, to find the right end.
ExactMatch(b, m) == [b EXCEPT !.left = m, !.l = m, !.addr = @ + 1]

\* The last stab of the type in l .. m, or l - 1.
Back(stabs, l, m, type) == Max({k \in l .. m : stabs[k].n_type = type} \cup {l - 1})

RECURSIVE SearchLoop(_, _, _)
SearchLoop(stabs, type, b) ==
  IF b.l > b.r THEN b
  ELSE LET true_m == (b.l + b.r) \div 2
           m == Back(stabs, b.l, true_m, type)
           v == stabs[m].n_value
           matched == [b EXCEPT !.any_matches = TRUE]
       IN  SearchLoop(stabs, type,
             IF m < b.l THEN [b EXCEPT !.l = true_m + 1]
             ELSE IF v < b.addr THEN [matched EXCEPT !.left = m, !.l = true_m + 1]
             ELSE IF v > b.addr THEN [matched EXCEPT !.right = m - 1, !.r = m - 1]
             ELSE ExactMatch(matched, m))

stab_binsearch(stabs, left, right, type, addr) ==
  LET b == SearchLoop(stabs, type, [l |-> left, r |-> right, left |-> left, right |-> right,
                                    addr |-> addr, any_matches |-> FALSE])
  IN  IF b.any_matches
      THEN [left |-> IF b.right < b.left THEN b.right
                     ELSE Max({b.left} \cup {k \in b.left+1 .. b.right : stabs[k].n_type = type}),
            right |-> b.right]
      ELSE [left |-> b.left, right |-> b.left - 1]

(***************************************************************************)
(* debuginfo_eip                                                           *)
(***************************************************************************)
\* In a function, lines are found by the offset from its start.
LineAddr(stabs, fun, addr) == IF fun.left <= fun.right THEN addr - stabs[fun.left].n_value ELSE addr

\* Arguments: the N_PSYM stabs right after the function's.
Narg(stabs, fun) ==
  Cardinality({k \in fun.left+1 .. fun.right-1 :
                 \A j \in fun.left+1 .. k : stabs[j].n_type = "PSYM"})

\* The kernel's table is linked into it; below ulim the program says where its own is,
\* and is believed.
TableFor(kern, user, ulim, addr) == IF addr >= ulim THEN kern ELSE user

\* The result: 0 or -1, the function's stab (-1 for none), the line, the stab that
\* names the file (-1 for none) and the number of arguments; or a page fault.
debuginfo_eip(kern, user, ulim, addr) ==
  LET none == [fault |-> FALSE, ret |-> -1, fn |-> -1, line |-> 0, file |-> -1, narg |-> 0]
      table == TableFor(kern, user, ulim, addr)
      stabs == table.stabs
      file == stab_binsearch(stabs, 0, Cardinality(DOMAIN stabs) - 1, "SO", addr)
      fun  == stab_binsearch(stabs, file.left, file.right, "FUN", addr)
      in   == IF fun.left <= fun.right THEN fun ELSE file
      line == stab_binsearch(stabs, in.left, in.right, "SLINE", LineAddr(stabs, fun, addr))
      fn   == IF fun.left <= fun.right THEN fun.left ELSE -1
      names == {k \in file.left .. line.left : stabs[k].n_type = "SOL" \/
                                             (stabs[k].n_type = "SO" /\ stabs[k].n_value # 0)}
  IN  IF ~table.mapped THEN [none EXCEPT !.fault = TRUE]
      ELSE IF ~table.strings \/ file.left = 0 THEN none
      ELSE IF line.right < line.left THEN [none EXCEPT !.fn = fn]
      ELSE [fault |-> FALSE, ret |-> 0, fn |-> fn, line |-> stabs[line.left].n_desc,
            file |-> IF names = {} THEN -1 ELSE Max(names),
            narg |-> IF fun.left < fun.right THEN Narg(stabs, fun) ELSE 0]

=============================================================================
