-------------------------------- MODULE Fork --------------------------------
(***************************************************************************)
(* Copy-on-write fork: lib/fork.c with lib/pgfault.c, in programs that are *)
(* preempted between any two system calls.                                 *)
(*                                                                         *)
(* The kernel is what its system calls do to address spaces: as[e][va] is  *)
(* the mapping of page va in program e, a frame and its permission ("w"    *)
(* PTE_W, "cow" PTE_COW without PTE_W, "r" neither).  A frame is in use as *)
(* long as it is mapped.  A step of a program is one system call, with the *)
(* code up to it.  Every call of C pushes its arguments, so a step writes  *)
(* the stack first; when the stack is copy-on-write that write faults and  *)
(* pgfault runs to its end before the call is made.                        *)
(***************************************************************************)
EXTENDS Integers, Sequences, FiniteSets, SequencesExt

CONSTANTS Env,          \* programs
          Root,         \* the one the kernel creates
          Frame,        \* page frames
          Data,         \* what a page may hold
          Pages,        \* the pages from UTEXT to the stack, in address order
          ReadOnly,     \* those without PTE_W
          TablesFail    \* a page table may be refused: other programs use,
                        \* and free, the memory it would come from

ASSUME EnvAssumption == Root \in Env
ASSUME FrameAssumption == Frame \subseteq Nat /\ IsFiniteSet(Frame)
ASSUME DataAssumption == 0 \in Data /\ Data \subseteq Nat
ASSUME PagesAssumption ==
    /\ Pages \in Seq(STRING) /\ IsInjective(Pages)
    /\ ToSet(Pages) \cap {"xstack", "pftemp"} = {}
    /\ {"data", "stack"} \subseteq ToSet(Pages)
    /\ ReadOnly \subseteq ToSet(Pages) \ {"data", "stack"}
    /\ Cardinality(Frame) > Len(Pages)
ASSUME TablesFailAssumption == TablesFail \in BOOLEAN

UserVa == ToSet(Pages)
Va == UserVa \cup {"xstack", "pftemp"}
NoMap == [frame |-> -1, perm |-> "none"]
NoEnv == "none"

VARIABLES life,     \* "free", "embryo" (ENV_NOT_RUNNABLE child), "run", "stuck" (panic)
          as,       \* address spaces
          bytes,    \* what each frame holds
          upcall,   \* envs[e].env_pgfault_upcall is set
          handler,  \* _pgfault_handler # 0, in the program's own memory
          pc,       \* where the program is: see Locals
          fault     \* the page pgfault is serving and the call it makes next

vars == <<life, as, bytes, upcall, handler, pc, fault>>

\* The locals of fork: the call it makes next, the index of the page, the
\* child's envid, and whether the pte read was writable or copy-on-write.
Locals == [at : {"user", "handler", "upcall", "exofork", "pte", "dupchild",
                 "dupself", "xalloc", "xmap", "xcopy", "xunmap", "kidupcall",
                 "runnable", "gone"},
           i : 1 .. Len(Pages) + 1, kid : Env \cup {NoEnv}, cow : BOOLEAN]
User == [at |-> "user", i |-> 1, kid |-> NoEnv, cow |-> FALSE]
NoFault == [va |-> "none", at |-> "none"]

Mapped(e, va) == as[e][va] # NoMap
Used == {as[x[1]][x[2]].frame : x \in Env \X Va} \ {-1}
FreeFrames == Frame \ Used
NoMemory == FreeFrames = {} \/ TablesFail
NewFrame == CHOOSE f \in FreeFrames : \A g \in FreeFrames : f <= g

-----------------------------------------------------------------------------
(* System calls, as they change address spaces.                            *)

\* sys_page_alloc: a zeroed frame, mapped writable.
sys_page_alloc(e, va) ==
    /\ FreeFrames # {}
    /\ as' = [as EXCEPT ![e][va] = [frame |-> NewFrame, perm |-> "w"]]
    /\ bytes' = [bytes EXCEPT ![NewFrame] = 0]

\* sys_page_map without PTE_W, or from a page that has it.
sys_page_map(src, sva, dst, dva, perm) ==
    /\ Mapped(src, sva)
    /\ perm = "w" => as[src][sva].perm = "w"
    /\ as' = [as EXCEPT ![dst][dva] = [frame |-> as[src][sva].frame, perm |-> perm]]

sys_page_unmap(e, va) == as' = [as EXCEPT ![e][va] = NoMap]

-----------------------------------------------------------------------------
(* Stores and page faults.                                                 *)

\* Program e executes, outside its page-fault handler.
Running(e, at) == life[e] = "run" /\ fault[e] = NoFault /\ pc[e].at = at

Writable(e, va) == as[e][va].perm = "w"

\* The arguments of the next call are pushed.
Pushed(e) == Writable(e, "stack")

\* panic of lib/panic.c: the program loops on int3.
panic(e) == life' = [life EXCEPT ![e] = "stuck"]

\* The program writes its memory.
Store(e, va, d) ==
    /\ Running(e, "user") \/ (life[e] = "run" /\ fault[e] = NoFault /\ va = "stack")
    /\ Writable(e, va)
    /\ bytes' = [bytes EXCEPT ![as[e][va].frame] = d]
    /\ UNCHANGED <<life, as, upcall, handler, pc, fault>>

\* A write to a page that is not writable: the kernel enters the upcall.  (A
\* program with such pages has been through fork, so it has an upcall; the
\* faults that destroy a program are in Kernel.)
PageFault(e, va) ==
    /\ Running(e, "user") \/ (life[e] = "run" /\ fault[e] = NoFault /\ va = "stack")
    /\ ~Writable(e, va)
    /\ upcall[e] /\ Mapped(e, "xstack")
    /\ fault' = [fault EXCEPT ![e] = [va |-> va, at |-> "check"]]
    /\ UNCHANGED <<life, as, bytes, upcall, handler, pc>>

\* pgfault, as far as its first call: the access was a write; the page must be
\* copy-on-write.  Then a page at PFTEMP.
pgfault_alloc(e) ==
    /\ life[e] = "run" /\ fault[e].at = "check"
    /\ \/ /\ as[e][fault[e].va].perm = "cow"
          /\ sys_page_alloc(e, "pftemp")
          /\ fault' = [fault EXCEPT ![e].at = "copy"]
          /\ UNCHANGED life
       \/ /\ as[e][fault[e].va].perm # "cow" \/ NoMemory
          /\ panic(e)
          /\ UNCHANGED <<as, bytes, fault>>
    /\ UNCHANGED <<upcall, handler, pc>>

\* memmove(PFTEMP, addr), then PFTEMP's page is mapped at addr.
pgfault_copy(e) ==
    /\ life[e] = "run" /\ fault[e].at = "copy"
    /\ bytes' = [bytes EXCEPT ![as[e]["pftemp"].frame] = bytes[as[e][fault[e].va].frame]]
    /\ fault' = [fault EXCEPT ![e].at = "map"]
    /\ UNCHANGED <<life, as, upcall, handler, pc>>

pgfault_map_stillcow(e) ==
    /\ life[e] = "run" /\ fault[e].at = "map"
    /\ sys_page_map(e, "pftemp", e, fault[e].va, "cow")
    /\ fault' = [fault EXCEPT ![e].at = "unmap"]
    /\ UNCHANGED <<life, bytes, upcall, handler, pc>>

pgfault_map(e) ==
    /\ life[e] = "run" /\ fault[e].at = "map"
    /\ sys_page_map(e, "pftemp", e, fault[e].va, "w")
    /\ fault' = [fault EXCEPT ![e].at = "unmap"]
    /\ UNCHANGED <<life, bytes, upcall, handler, pc>>

\* The last call; _pgfault_upcall then returns to the write that faulted.
pgfault_unmap(e) ==
    /\ life[e] = "run" /\ fault[e].at = "unmap"
    /\ sys_page_unmap(e, "pftemp")
    /\ fault' = [fault EXCEPT ![e] = NoFault]
    /\ UNCHANGED <<life, bytes, upcall, handler, pc>>

-----------------------------------------------------------------------------
(* fork, one system call at a time.                                        *)

Goto(e, at) == pc' = [pc EXCEPT ![e].at = at]
Leave(e) == pc' = [pc EXCEPT ![e] = User]

Step(e, at) == Running(e, at) /\ Pushed(e)

\* fork is called.  set_pgfault_handler makes its calls the first time only, but
\* always assigns _pgfault_handler, in the program's data.
fork(e) ==
    /\ Step(e, "user")
    /\ handler[e] => Writable(e, "data")
    /\ Goto(e, IF handler[e] THEN "exofork" ELSE "handler")
    /\ UNCHANGED <<life, as, bytes, upcall, handler, fault>>

\* set_pgfault_handler: the exception stack, then the upcall.
set_pgfault_handler(e) ==
    /\ Step(e, "handler")
    /\ \/ /\ sys_page_alloc(e, "xstack")
          /\ Goto(e, "upcall")
          /\ UNCHANGED life
       \/ /\ NoMemory
          /\ panic(e)
          /\ UNCHANGED <<as, bytes, pc>>
    /\ UNCHANGED <<upcall, handler, fault>>

set_pgfault_upcall(e) ==
    /\ Step(e, "upcall")
    /\ upcall' = [upcall EXCEPT ![e] = TRUE]
    /\ handler' = [handler EXCEPT ![e] = TRUE]
    /\ Goto(e, "exofork")
    /\ UNCHANGED <<life, as, bytes, fault>>

\* sys_exofork, or fork returns -1.
exofork(e) ==
    /\ Step(e, "exofork")
    /\ \/ \E c \in Env :
             /\ life[c] = "free"
             /\ life' = [life EXCEPT ![c] = "embryo"]
             /\ pc' = [pc EXCEPT ![e] = [User EXCEPT !.at = "pte", !.kid = c]]
       \/ /\ \A c \in Env : life[c] # "free"
          /\ Leave(e)
          /\ UNCHANGED life
    /\ UNCHANGED <<as, bytes, upcall, handler, fault>>

ReadPte_wonly(e) ==
    /\ Step(e, "pte")
    /\ pc[e].i <= Len(Pages)
    /\ LET pte == as[e][Pages[pc[e].i]]
       IN  pc' = IF pte = NoMap THEN [pc EXCEPT ![e].i = @ + 1]
                 ELSE [pc EXCEPT ![e].at = "dupchild", ![e].cow = pte.perm = "w"]
    /\ UNCHANGED <<life, as, bytes, upcall, handler, fault>>

\* The loop of fork: duppage reads the pte of the next page that is mapped.
ReadPte(e) ==
    /\ Step(e, "pte")
    /\ pc[e].i <= Len(Pages)
    /\ LET pte == as[e][Pages[pc[e].i]]
       IN  pc' = IF pte = NoMap THEN [pc EXCEPT ![e].i = @ + 1]
                 ELSE [pc EXCEPT ![e].at = "dupchild", ![e].cow = pte.perm # "r"]
    /\ UNCHANGED <<life, as, bytes, upcall, handler, fault>>

EndOfLoop(e) ==
    /\ Step(e, "pte")
    /\ pc[e].i > Len(Pages)
    /\ Goto(e, "xalloc")
    /\ UNCHANGED <<life, as, bytes, upcall, handler, fault>>

NextPage(e) == pc' = [pc EXCEPT ![e].at = "pte", ![e].i = @ + 1]

\* duppage's first sys_page_map, into the child.  fork drops duppage's result.
duppage_child(e) ==
    /\ Step(e, "dupchild")
    /\ LET va == Pages[pc[e].i]
       IN  \/ /\ sys_page_map(e, va, pc[e].kid, va, IF pc[e].cow THEN "cow" ELSE "r")
              /\ IF pc[e].cow THEN Goto(e, "dupself") ELSE NextPage(e)
           \/ /\ TablesFail
              /\ NextPage(e)
              /\ UNCHANGED as
    /\ UNCHANGED <<life, bytes, upcall, handler, fault>>

\* Its second, of the page onto itself.
duppage_self_skip(e) ==
    /\ Step(e, "dupself")
    /\ NextPage(e)
    /\ UNCHANGED <<life, as, bytes, upcall, handler, fault>>

duppage_self(e) ==
    /\ Step(e, "dupself")
    /\ sys_page_map(e, Pages[pc[e].i], e, Pages[pc[e].i], "cow")
    /\ NextPage(e)
    /\ UNCHANGED <<life, bytes, upcall, handler, fault>>

xstack_alloc_share(e) ==
    /\ Step(e, "xalloc")
    /\ sys_page_map(e, "xstack", pc[e].kid, "xstack", "w")
    /\ Goto(e, "xmap")
    /\ UNCHANGED <<life, bytes, upcall, handler, fault>>

\* The child's exception stack, or fork returns -1 and leaves the child.
xstack_alloc(e) ==
    /\ Step(e, "xalloc")
    /\ \/ /\ sys_page_alloc(pc[e].kid, "xstack")
          /\ Goto(e, "xmap")
       \/ /\ NoMemory
          /\ Leave(e)
          /\ UNCHANGED <<as, bytes>>
    /\ UNCHANGED <<life, upcall, handler, fault>>

xstack_map(e) ==
    /\ Step(e, "xmap")
    /\ \/ /\ sys_page_map(pc[e].kid, "xstack", e, "pftemp", "w")
          /\ Goto(e, "xcopy")
       \/ /\ TablesFail
          /\ Leave(e)
          /\ UNCHANGED as
    /\ UNCHANGED <<life, bytes, upcall, handler, fault>>

\* memmove(UXSTACKTOP - PGSIZE, PFTEMP): from the child's page to the parent's.
xstack_copy(e) ==
    /\ Step(e, "xcopy")
    /\ bytes' = [bytes EXCEPT ![as[e]["xstack"].frame] = bytes[as[e]["pftemp"].frame]]
    /\ Goto(e, "xunmap")
    /\ UNCHANGED <<life, as, upcall, handler, fault>>

xstack_unmap(e) ==
    /\ Step(e, "xunmap")
    /\ sys_page_unmap(e, "pftemp")
    /\ Goto(e, "kidupcall")
    /\ UNCHANGED <<life, bytes, upcall, handler, fault>>

\* _pgfault_upcall is in the text, which the kernel expects the child to have.
HasUpcall(e) == "text" \in UserVa => Mapped(e, "text")

kid_upcall(e) ==
    /\ Step(e, "kidupcall")
    /\ HasUpcall(pc[e].kid)
    /\ upcall' = [upcall EXCEPT ![pc[e].kid] = TRUE]
    /\ Goto(e, "runnable")
    /\ UNCHANGED <<life, as, bytes, handler, fault>>

\* user_mem_assert destroys a child that has not, and the call returns 0.
kid_destroyed(e) ==
    /\ Step(e, "kidupcall")
    /\ ~HasUpcall(pc[e].kid)
    /\ life' = [life EXCEPT ![pc[e].kid] = "free"]
    /\ as' = [as EXCEPT ![pc[e].kid] = [va \in Va |-> NoMap]]
    /\ Goto(e, "gone")
    /\ UNCHANGED <<bytes, upcall, handler, fault>>

\* sys_env_set_status finds nobody of that id, and fork returns -1.
kid_gone(e) ==
    /\ Step(e, "gone")
    /\ Leave(e)
    /\ UNCHANGED <<life, as, bytes, upcall, handler, fault>>

\* sys_env_set_status; the child returns 0 from its copy of fork, with the
\* parent's _pgfault_handler in its memory.
kid_runnable(e) ==
    /\ Step(e, "runnable")
    /\ life' = [life EXCEPT ![pc[e].kid] = "run"]
    /\ handler' = [handler EXCEPT ![pc[e].kid] = TRUE]
    /\ Leave(e)
    /\ UNCHANGED <<as, bytes, upcall, fault>>

\* sys_env_destroy by the program itself.
exit(e) ==
    /\ Step(e, "user")
    /\ life' = [life EXCEPT ![e] = "free"]
    /\ as' = [as EXCEPT ![e] = [va \in Va |-> NoMap]]
    /\ upcall' = [upcall EXCEPT ![e] = FALSE]
    /\ handler' = [handler EXCEPT ![e] = FALSE]
    /\ UNCHANGED <<bytes, pc, fault>>

-----------------------------------------------------------------------------
\* The first program: text, data and stack in frames of their own.
Init ==
    /\ life = [e \in Env |-> IF e = Root THEN "run" ELSE "free"]
    /\ \E home \in [UserVa -> Frame] :
          /\ \A i \in DOMAIN Pages :
                Cardinality({f \in Frame : f < home[Pages[i]]}) = i - 1
          /\ as = [e \in Env |-> [va \in Va |->
                     IF e # Root \/ va \notin UserVa THEN NoMap
                     ELSE [frame |-> home[va],
                           perm |-> IF va \in ReadOnly THEN "r" ELSE "w"]]]
    /\ bytes = [f \in Frame |-> 0]
    /\ upcall = [e \in Env |-> FALSE]
    /\ handler = [e \in Env |-> FALSE]
    /\ pc = [e \in Env |-> User]
    /\ fault = [e \in Env |-> NoFault]

\* What a program does by itself once it is in fork or in pgfault.
Library(e) ==
    \/ pgfault_alloc(e) \/ pgfault_copy(e) \/ pgfault_map(e) \/ pgfault_unmap(e)
    \/ pc[e].at # "user" /\ PageFault(e, "stack")
    \/ set_pgfault_handler(e) \/ set_pgfault_upcall(e) \/ exofork(e)
    \/ ReadPte(e) \/ EndOfLoop(e) \/ duppage_child(e) \/ duppage_self(e)
    \/ xstack_alloc(e) \/ xstack_map(e) \/ xstack_copy(e) \/ xstack_unmap(e)
    \/ kid_upcall(e) \/ kid_destroyed(e) \/ kid_gone(e) \/ kid_runnable(e)

Next ==
    \E e \in Env :
        \/ Library(e)
        \/ \E va \in UserVa \ ReadOnly :
              PageFault(e, va) \/ \E d \in Data : Store(e, va, d)
        \/ fork(e)
        \/ exit(e)

Spec == Init /\ [][Next]_vars

\* The scheduler gives every program its turn.
FairSpec == Spec /\ \A e \in Env : WF_vars(Library(e))

-----------------------------------------------------------------------------
(* Properties.                                                             *)

TypeOK ==
    /\ life \in [Env -> {"free", "embryo", "run", "stuck"}]
    /\ as \in [Env -> [Va -> {NoMap} \cup [frame : Frame, perm : {"w", "cow", "r"}]]]
    /\ bytes \in [Frame -> Data]
    /\ upcall \in [Env -> BOOLEAN]
    /\ handler \in [Env -> BOOLEAN]
    /\ pc \in [Env -> Locals]
    /\ fault \in [Env -> {NoFault} \cup
                    [va : UserVa, at : {"check", "copy", "map", "unmap"}]]

\* A page of the child is its own from the end of duppage on.  Until then the
\* parent may still write the frame (its stack, as it makes the second call).
BeingCopied(c, va) ==
    /\ life[c] = "embryo"
    /\ \E p \in Env : /\ pc[p].at = "dupself" /\ pc[p].kid = c
                      /\ Pages[pc[p].i] = va

View ==
    [e \in Env |-> [va \in UserVa |->
        IF ~Mapped(e, va) \/ BeingCopied(e, va) THEN -1
        ELSE bytes[as[e][va].frame]]]

\* fork implements private memories: every store, fault, copy and remapping, in
\* every interleaving of parent, child and grandchild, is a step of
\* AddressSpaces.
A == INSTANCE AddressSpaces
        WITH Unset <- -1, view <- View,
             life <- [e \in Env |-> IF life[e] = "stuck" THEN "run" ELSE life[e]]
PrivateMemories == A!AbsSpec

\* lib/fork.c: "Neither user exception stack should ever be marked
\* copy-on-write", and none is shared, but for the moment a parent has its
\* child's at PFTEMP.
XstackPrivate ==
    \A e \in Env : Mapped(e, "xstack") =>
        /\ as[e]["xstack"].perm = "w"
        /\ \A x \in (Env \X Va) \ {<<e, "xstack">>} :
              as[x[1]][x[2]].frame = as[e]["xstack"].frame
                => x[2] = "pftemp" /\ pc[x[1]].at \in {"xcopy", "xunmap"}

\* PFTEMP is free whenever pgfault or fork takes it: the two users of the
\* address never meet, though a fault may come in the middle of fork.
PftempFree ==
    \A e \in Env : Mapped(e, "pftemp") <=>
        fault[e].at \in {"copy", "map", "unmap"} \/ pc[e].at \in {"xcopy", "xunmap"}

\* Types, private exception stacks and a free PFTEMP, at every step of fork and
\* of pgfault.
ForkInv == TypeOK /\ XstackPrivate /\ PftempFree

\* pgfault and fork panic only for want of memory: every fault they meet in
\* this library is a write to a copy-on-write page.
PanicMeansNoMem ==
    [][\A e \in Env : life[e] # "stuck" /\ life'[e] = "stuck" => FreeFrames = {}]_vars

\* fork returns, unless the program panics: faults on the stack that fork
\* itself makes copy-on-write come to an end.
ForkReturns ==
    \A e \in Env : pc[e].at # "user" ~> (pc[e].at = "user" \/ life[e] # "run")

=============================================================================
