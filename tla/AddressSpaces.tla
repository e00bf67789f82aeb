---------------------------- MODULE AddressSpaces ----------------------------
(***************************************************************************)
(* What fork promises (the comments of lib/fork.c): every program has a    *)
(* memory of its own.  A child gets a copy of its parent's pages, one page *)
(* at a time, before it starts; after that what one writes no other sees.  *)
(***************************************************************************)
CONSTANTS Env,      \* programs
          UserVa,   \* the pages of a program that fork copies
          Data,     \* what a page may hold
          Unset     \* what a page holds that has not been copied yet

VARIABLES life,     \* "free", "embryo" (made by sys_exofork) or "run"
          view      \* what program e reads in page va

absVars == <<life, view>>

Empty == [va \in UserVa |-> Unset]

Create(c) ==
    /\ life[c] = "free"
    /\ life' = [life EXCEPT ![c] = "embryo"]
    /\ UNCHANGED view

Copy(p, c, va) ==
    /\ life[p] = "run" /\ life[c] = "embryo" /\ view[c][va] = Unset
    /\ view' = [view EXCEPT ![c][va] = view[p][va]]
    /\ UNCHANGED life

\* A child starts with all its pages.
Start(c) ==
    /\ life[c] = "embryo"
    /\ \A va \in UserVa : view[c][va] # Unset
    /\ life' = [life EXCEPT ![c] = "run"]
    /\ UNCHANGED view

\* A program changes a page of its own, and no other.
Write(e, va) ==
    /\ life[e] = "run"
    /\ view'[e][va] \in Data \ {view[e][va]}
    /\ view' = [view EXCEPT ![e][va] = view'[e][va]]
    /\ UNCHANGED life

Exit(e) ==
    /\ life[e] = "run"
    /\ life' = [life EXCEPT ![e] = "free"]
    /\ view' = [view EXCEPT ![e] = Empty]

AbsInit ==
    /\ \E r \in Env :
          /\ life = [e \in Env |-> IF e = r THEN "run" ELSE "free"]
          /\ \E page \in [UserVa -> Data] :
                view = [e \in Env |-> IF e = r THEN page ELSE Empty]

AbsNext ==
    \/ \E c \in Env : Create(c) \/ Start(c) \/ Exit(c)
    \/ \E p, c \in Env, va \in UserVa : Copy(p, c, va)
    \/ \E e \in Env, va \in UserVa : Write(e, va)

AbsSpec == AbsInit /\ [][AbsNext]_absVars

=============================================================================
