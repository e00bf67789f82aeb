-------------------------------- MODULE MCFork --------------------------------
(* Instances of Fork for TLC; the other constants are in the cfg files.      *)
EXTENDS Fork

CONSTANTS p, c, d     \* programs: the first, and two that take each other's place
MCSymmetry == Permutations({c, d})

\* Read-only text, the data that fork itself writes, the stack.
MCPages == <<"text", "data", "stack">>

\* A page of the heap may stay shared from one fork to the next.
MCHeapPages == <<"data", "heap", "stack">>

\* States that differ in the numbers of the frames only, or in what a free frame
\* holds (it is zeroed when it is allocated), are one state: a mapping is seen
\* as its permission, its contents and the mappings that share its frame.
MCView ==
    LET Slots == {x \in Env \X Va : Mapped(x[1], x[2])}
        frame == [x \in Slots |-> as[x[1]][x[2]].frame]
    IN  <<life, upcall, handler, pc, fault,
          [x \in Slots |-> <<as[x[1]][x[2]].perm, bytes[frame[x]],
                             {y \in Slots : frame[y] = frame[x]}>>]>>

=============================================================================
