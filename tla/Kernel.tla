------------------------------- MODULE Kernel -------------------------------
(***************************************************************************)
(* The kernel of the repository with its memory: the environment table and *)
(* scheduler of module EnvSched, the page tables of module Pmap, and the   *)
(* traps and system calls (kern/trap.c, kern/syscall.c) that drive both.   *)
(*                                                                         *)
(* A handler is one action, except that the loops of env_free are a        *)
(* sequence of steps, one for each turn, during which victim names the     *)
(* environment and nothing else may happen (interrupts are off).           *)
(***************************************************************************)
EXTENDS EnvSched, Pmap

CONSTANTS USTACK,   \* the address of the initial stack page
          Watched,  \* the pages whose bytes are followed
          Calls     \* the kinds of trap the programs of an instance take

ASSUME USTACKAssumption == USTACK \in VA
ASSUME WatchedAssumption == Watched \subseteq Page
ASSUME CallsAssumption ==
    Calls \subseteq {"cputs", "destroy", "fork", "status", "upcall", "alloc",
                    "map", "unmap", "unknown", "fault", "exception", "store",
                    "stray"}

\* Some programs make calls that no program of lib/ or user/ makes: they unmap
\* or share an address where nothing is mapped, or ask for permission bits no
\* mapping may have.
Stray == "stray" \in Calls

\* The exception stack is the page below UXSTACKTOP = UTOP.
XSTACK == <<UTOPX - 1, NPTENTRIES - 1>>
NoVa == <<>>        \* an address that is misaligned, or not below UTOP

VARIABLES mem,      \* memory, as in Pmap, with a directory per slot
          upcall,   \* envs[e].env_pgfault_upcall # NULL
          cr3,      \* the directory in use, NoPage for kern_pgdir
          victim,   \* the environment env_free is taking apart, or NoEnv
          at,       \* its loop counters, <<pdeno, pteno>>
          loading,  \* the environment load_icode is filling, or NoEnv
          nomem     \* the last system call returned -E_NO_MEM

kernVars == <<mem, upcall, cr3, victim, at, loading, nomem>>
vars == <<envVars, kernVars>>

Pgdir(e) == mem.pgdir[e]

-----------------------------------------------------------------------------
(* Boot, after mem_init and env_init.                                      *)

Init ==
    /\ env_init
    /\ mem = page_init(Slot)
    /\ upcall = [e \in Slot |-> FALSE]
    /\ cr3 = NoPage
    /\ victim = NoEnv
    /\ at = <<0, 0>>
    /\ loading = NoEnv
    /\ nomem = FALSE

\* env_create up to the first segment: env_alloc, then lcr3 in load_icode.
kenv_create ==
    /\ loading = NoEnv
    /\ env_create
    /\ mem.free # <<>>
    /\ LET e == Head(env_free_list)
       IN  /\ mem' = env_setup_vm(mem, e)
           /\ upcall' = [upcall EXCEPT ![e] = FALSE]
           /\ loading' = e
           /\ cr3' = Head(mem.free)
    /\ UNCHANGED <<victim, at, nomem>>

\* One page of region_alloc: page_alloc(0) and page_insert.
region_alloc(va) ==
    /\ mode = "boot" /\ loading # NoEnv
    /\ mem.free # <<>>
    /\ LET m == page_alloc_raw(mem)
       IN  /\ ~InsertFails(m, Pgdir(loading), va)
           /\ mem' = page_insert(m, Pgdir(loading), Head(mem.free), va, TRUE)

\* A page of a program segment.
load_segment(va) ==
    /\ region_alloc(va)
    /\ UNCHANGED <<envVars, upcall, cr3, victim, at, loading, nomem>>

\* The stack, the last thing load_icode does, back in kern_pgdir.
load_stack ==
    /\ region_alloc(USTACK)
    /\ loading' = NoEnv
    /\ cr3' = NoPage
    /\ UNCHANGED <<envVars, upcall, victim, at, nomem>>

\* env_create without a slot or a page, region_alloc without a page, or with a
\* page and none left for the table it needs.
kboot_panic ==
    /\ boot_panic
    /\ \/ /\ loading = NoEnv /\ (env_free_list = <<>> \/ mem.free = <<>>)
          /\ UNCHANGED mem
       \/ /\ loading # NoEnv /\ mem.free = <<>>
          /\ UNCHANGED mem
       \/ /\ loading # NoEnv /\ mem.free # <<>>
          /\ \E va \in VA : InsertFails(page_alloc_raw(mem), Pgdir(loading), va)
          /\ mem' = page_alloc_raw(mem)
    /\ UNCHANGED <<upcall, cr3, victim, at, loading, nomem>>

\* env_run loads the directory of the environment it runs, and sched_halt
\* kern_pgdir when it goes on to halt; its monitor keeps what is loaded.
LoadCr3 ==
    cr3' = CASE mode' = "user"   -> mem'.pgdir[curenv']
             [] mode' = "halted" -> NoPage
             [] OTHER            -> cr3

ki386_init ==
    /\ loading = NoEnv
    /\ i386_init
    /\ UNCHANGED <<mem, upcall, victim, at, loading, nomem>>
    /\ LoadCr3

-----------------------------------------------------------------------------
(* Outcomes of a handler.                                                  *)

\* curenv is in user mode and traps.  Every gate is an interrupt gate: the
\* kernel itself is not interrupted (trap() asserts it), in the loops of
\* env_free neither.
Trap == mode = "user" /\ victim = NoEnv

\* The call returns, with memory untouched, and trap() resumes curenv.  Of the
\* error codes only the one that depends on memory is kept.
Return(error) ==
    /\ Trap
    /\ nomem' = (error = "E_NO_MEM")
    /\ UNCHANGED <<envVars, mem, upcall, cr3, victim, at, loading>>

\* The call succeeds with memory m, and trap() resumes curenv.
Succeed(m) ==
    /\ Trap
    /\ mem' = m
    /\ nomem' = FALSE
    /\ UNCHANGED <<envVars, upcall, cr3, victim, at, loading>>

\* panic(), or a fault taken inside the kernel.
Panic ==
    /\ Trap
    /\ kernel_panic
    /\ nomem' = FALSE
    /\ UNCHANGED <<mem, upcall, cr3, victim, at, loading>>

\* env_destroy begins: env_free leaves e's directory before it takes it apart.
\* (An environment running on another processor would be marked ENV_DYING and
\* freed when it traps; with one processor OneRunning shows there is none.)
Destroy_keepcr3(e, up) ==
    /\ Trap
    /\ victim' = e
    /\ at' = <<0, 0>>
    /\ upcall' = up
    /\ nomem' = FALSE
    /\ UNCHANGED <<envVars, mem, loading, cr3>>

Destroy(e, up) ==
    /\ Trap
    /\ victim' = e
    /\ at' = <<0, 0>>
    /\ cr3' = IF e = curenv THEN NoPage ELSE cr3
    /\ upcall' = up
    /\ nomem' = FALSE
    /\ UNCHANGED <<envVars, mem, loading>>

\* What envid2env makes of the ids a program may pass; NoEnv is -E_BAD_ENV.
Target == IF Trap THEN {envid2env(id) : id \in Envid} ELSE {}

-----------------------------------------------------------------------------
(* env_free, then what follows it (module EnvSched).                       *)

\* Entry pdeno of the directory, while the counter is below PDX(UTOP).
Pde == mem.ent[Pgdir(victim)][at[1]]
InLoop == victim # NoEnv /\ at[1] < UTOPX

\* A turn of the inner loop: an entry that is present is unmapped.
env_free_pte ==
    /\ InLoop /\ Pde.p /\ at[2] < NPTENTRIES
    /\ mem' = IF mem.ent[Pde.pp][at[2]].p THEN page_remove(mem, Pgdir(victim), at)
              ELSE mem
    /\ at' = <<at[1], at[2] + 1>>
    /\ UNCHANGED <<envVars, upcall, cr3, victim, loading, nomem>>

\* After the inner loop: the table goes.
env_free_pt ==
    /\ InLoop /\ Pde.p /\ at[2] = NPTENTRIES
    /\ mem' = env_free_table(mem, Pgdir(victim), at[1])
    /\ at' = <<at[1] + 1, 0>>
    /\ UNCHANGED <<envVars, upcall, cr3, victim, loading, nomem>>

\* No table here: continue.
env_free_skip ==
    /\ InLoop /\ ~Pde.p
    /\ at' = <<at[1] + 1, 0>>
    /\ UNCHANGED <<envVars, mem, upcall, cr3, victim, loading, nomem>>

env_free_done ==
    /\ victim # NoEnv /\ at[1] = UTOPX
    /\ mem' = env_free_pgdir(mem, victim)
    /\ env_destroy(victim)
    /\ victim' = NoEnv
    /\ at' = <<0, 0>>
    /\ UNCHANGED <<upcall, loading, nomem>>
    /\ LoadCr3

env_free == env_free_pte \/ env_free_pt \/ env_free_skip \/ env_free_done

-----------------------------------------------------------------------------
(* System calls.                                                           *)

sys_cputs(va, two) ==
    LET r == user_mem_check(mem, Pgdir(curenv), va, two, FALSE, cr3)
    IN  \/ Trap /\ r = "ok" /\ Return("none")
        \/ Trap /\ r = "fault" /\ Destroy(curenv, upcall)
        \/ Trap /\ r = "oops" /\ Panic

sys_env_destroy(e) ==
    \/ e = NoEnv /\ Return("E_BAD_ENV")
    \/ e # NoEnv /\ Destroy(e, upcall)

ksys_exofork ==
    \/ env_free_list = <<>> /\ Return("E_NO_FREE_ENV")
    \/ env_free_list # <<>> /\ mem.free = <<>> /\ Return("E_NO_MEM")
    \/ /\ Trap
       /\ sys_exofork
       /\ mem.free # <<>>
       /\ mem' = env_setup_vm(mem, Head(env_free_list))
       /\ upcall' = [upcall EXCEPT ![Head(env_free_list)] = FALSE]
       /\ nomem' = FALSE
       /\ UNCHANGED <<cr3, victim, at, loading>>

ksys_env_set_status(e, status) ==
    \/ e = NoEnv /\ Return("E_BAD_ENV")
    \/ /\ e # NoEnv /\ status \notin {"RUNNABLE", "NOT_RUNNABLE"}
       /\ Return("E_INVAL")
    \/ /\ Trap
       /\ sys_env_set_status(e, status)
       /\ nomem' = FALSE
       /\ UNCHANGED <<mem, upcall, victim, at, loading>>
       /\ LoadCr3

\* The upcall is stored before it is checked, and the environment destroyed by
\* a failed check may be a child: the call still returns 0.  func is in page va.
sys_env_set_pgfault_upcall(e, null, va, two) ==
    \/ e = NoEnv /\ Return("E_BAD_ENV")
    \/ /\ Trap /\ e # NoEnv
       /\ LET up == [upcall EXCEPT ![e] = ~null]
              r == user_mem_check(mem, Pgdir(e), va, two, FALSE, cr3)
          IN  \/ /\ r = "ok"
                 /\ upcall' = up
                 /\ nomem' = FALSE
                 /\ UNCHANGED <<envVars, mem, cr3, victim, at, loading>>
              \/ r = "fault" /\ Destroy(e, up)
              \/ /\ r = "oops"
                 /\ kernel_panic
                 /\ upcall' = up
                 /\ nomem' = FALSE
                 /\ UNCHANGED <<mem, cr3, victim, at, loading>>

\* perm: "r" and "w" are the mappings a program asks for; "bad" lacks PTE_U or
\* PTE_P; "extra" has a bit outside PTE_SYSCALL.
\* What becomes of the page when it cannot be inserted.
InsertFailed_leak(m, pp) == m

InsertFailed(m, pp) == page_free(m, pp)

sys_page_alloc(e, va, perm) ==
    \/ e = NoEnv /\ Return("E_BAD_ENV")
    \/ e # NoEnv /\ (va = NoVa \/ perm = "bad") /\ Return("E_INVAL")
    \/ e # NoEnv /\ va # NoVa /\ perm = "extra" /\ Return("E_NO_MEM")
    \/ /\ e # NoEnv /\ va # NoVa /\ perm \in {"r", "w"}
       /\ mem.free = <<>>
       /\ Return("E_NO_MEM")
    \/ /\ Trap
       /\ e # NoEnv /\ va # NoVa /\ perm \in {"r", "w"}
       /\ mem.free # <<>>
       /\ LET pp == Head(mem.free)
              m == page_alloc(mem)
          IN  \/ /\ InsertFails(m, Pgdir(e), va)
                 /\ mem' = InsertFailed(m, pp)
                 /\ nomem' = TRUE
                 /\ UNCHANGED <<envVars, upcall, cr3, victim, at, loading>>
              \/ /\ ~InsertFails(m, Pgdir(e), va)
                 /\ Succeed(page_insert(m, Pgdir(e), pp, va, perm = "w"))

\* The calls of lib/ and user/ name an address that is mapped (or one whose
\* table does not exist, which the kernel detects).
Sane(e, va) == Stray \/ IsMapped(mem, Pgdir(e), va) \/ ~HasTable(mem, Pgdir(e), va)

\* The page is there, and write permission is not made out of nothing.
MayShare_anyperm(src, sva, perm) == page_lookup(mem, Pgdir(src), sva) # NoPage

MayShare(src, sva, perm) ==
    /\ page_lookup(mem, Pgdir(src), sva) # NoPage
    /\ perm = "w" => PteOf(mem, Pgdir(src), sva).w

sys_page_map(src, sva, dst, dva, perm) ==
    \/ (src = NoEnv \/ dst = NoEnv) /\ Return("E_BAD_ENV")
    \/ /\ src # NoEnv /\ dst # NoEnv
       /\ sva = NoVa \/ dva = NoVa \/ perm \in {"bad", "extra"}
       /\ Return("E_INVAL")
    \/ /\ Trap
       /\ src # NoEnv /\ dst # NoEnv
       /\ sva # NoVa /\ dva # NoVa /\ perm \in {"r", "w"}
       /\ Sane(src, sva)
       /\ \/ ~MayShare(src, sva, perm) /\ Return("E_INVAL")
          \/ /\ MayShare(src, sva, perm)
             /\ InsertFails(mem, Pgdir(dst), dva)
             /\ Return("E_NO_MEM")
          \/ /\ MayShare(src, sva, perm)
             /\ ~InsertFails(mem, Pgdir(dst), dva)
             /\ Succeed(page_insert(mem, Pgdir(dst),
                                    page_lookup(mem, Pgdir(src), sva),
                                    dva, perm = "w"))

sys_page_unmap(e, va) ==
    \/ e = NoEnv /\ Return("E_BAD_ENV")
    \/ e # NoEnv /\ va = NoVa /\ Return("E_INVAL")
    \/ /\ Trap
       /\ e # NoEnv /\ va # NoVa
       /\ Sane(e, va)
       /\ Succeed(page_remove(mem, Pgdir(e), va))

\* sys_ipc_try_send, sys_ipc_recv and the default case of syscall().
syscall_panic == Panic

-----------------------------------------------------------------------------
(* Other traps, and the user program itself.                               *)

\* The pages under the UTrapframe that page_fault_handler writes: the top of
\* the exception stack, or, when the handler itself faults with little of the
\* page left, the page below it.
Below(va) == {v \in VA : HasNext(v) /\ NextVa(v) = va}
FramePages == {{XSTACK}} \cup UNION {{{v}, {v, XSTACK}} : v \in Below(XSTACK)}

\* The frame is written before it is checked: with CR0_WP, a page that is not
\* mapped writable faults in the kernel, which panics.
page_fault_handler(frame) ==
    LET d == Pgdir(curenv)
        stack == upcall[curenv] /\ IsMapped(mem, d, XSTACK)
        writable == \A va \in frame : Allows(mem, d, va, TRUE)
    IN  \/ Trap /\ ~stack /\ Destroy(curenv, upcall)
        \/ Trap /\ stack /\ ~writable /\ Panic
        \/ /\ Trap /\ stack /\ writable
           /\ mem' = [mem EXCEPT !.dirty =
                        @ \cup (Watched \cap {PteOf(mem, d, va).pp : va \in frame})]
           /\ nomem' = FALSE
           /\ UNCHANGED <<envVars, upcall, cr3, victim, at, loading>>

\* A timer interrupt or sys_yield.
ktimer_nested ==
    /\ timer
    /\ nomem' = FALSE
    /\ UNCHANGED <<mem, upcall, victim, at, loading>>
    /\ LoadCr3

ktimer ==
    /\ Trap
    /\ timer
    /\ nomem' = FALSE
    /\ UNCHANGED <<mem, upcall, victim, at, loading>>
    /\ LoadCr3

\* An exception without a handler destroys the environment that took it.
unexpected_trap == Trap /\ Destroy(curenv, upcall)

\* Hardware: the program writes a page mapped writable in its address space.
user_store(va) ==
    /\ Trap
    /\ Allows(mem, cr3, va, TRUE)
    /\ mem' = [mem EXCEPT !.dirty = @ \cup (Watched \cap {PteOf(mem, cr3, va).pp})]
    /\ nomem' = FALSE
    /\ UNCHANGED <<envVars, upcall, cr3, victim, at, loading>>

\* The endless loops of sched_halt and _panic, and the traps that change
\* nothing (sys_cgetc, sys_getenvid, breakpoints, spurious interrupts).
idle == resume /\ UNCHANGED kernVars

\* Arguments: every good address and permission, and one of each bad kind.
PageArgs ==
    VA \X {"r", "w"}
    \cup {<<NoVa, "r">>, <<XSTACK, "bad">>}
    \cup IF Stray THEN {<<XSTACK, "extra">>} ELSE {}
MapArgs ==
    (Target \ {NoEnv}) \X VA \X (Target \ {NoEnv}) \X VA \X {"r", "w"}
    \cup IF Trap THEN {<<NoEnv, XSTACK, curenv, XSTACK, "r">>,
                       <<curenv, XSTACK, curenv, NoVa, "r">>,
                       <<curenv, XSTACK, curenv, XSTACK, "bad">>} ELSE {}
Two(va) == {FALSE} \cup IF HasNext(va) THEN {TRUE} ELSE {}

BootNext ==
    \/ kenv_create
    \/ \E va \in VA : load_segment(va)
    \/ load_stack
    \/ kboot_panic
    \/ ki386_init

TrapNext ==
    \/ "cputs" \in Calls /\ \E va \in VA : \E two \in Two(va) : sys_cputs(va, two)
    \/ "destroy" \in Calls /\ \E e \in Target : sys_env_destroy(e)
    \/ "fork" \in Calls /\ ksys_exofork
    \/ /\ "status" \in Calls
       /\ \E e \in Target, status \in Status : ksys_env_set_status(e, status)
    \/ /\ "upcall" \in Calls
       /\ \E e \in Target, va \in VA : \E two \in Two(va) :
             sys_env_set_pgfault_upcall(e, FALSE, va, two)
    \/ /\ "upcall" \in Calls
       /\ \E e \in Target : sys_env_set_pgfault_upcall(e, TRUE, <<0, 0>>, FALSE)
    \/ /\ "alloc" \in Calls
       /\ \E e \in Target, a \in PageArgs : sys_page_alloc(e, a[1], a[2])
    \/ /\ "map" \in Calls
       /\ \E a \in MapArgs : sys_page_map(a[1], a[2], a[3], a[4], a[5])
    \/ /\ "unmap" \in Calls
       /\ \E e \in Target, va \in VA \cup {NoVa} : sys_page_unmap(e, va)
    \/ "unknown" \in Calls /\ syscall_panic
    \/ "fault" \in Calls /\ \E frame \in FramePages : page_fault_handler(frame)
    \/ "exception" \in Calls /\ unexpected_trap
    \/ "store" \in Calls /\ \E va \in VA : user_store(va)
    \/ ktimer

Next == BootNext \/ TrapNext \/ env_free \/ idle

Spec == Init /\ [][Next]_vars

-----------------------------------------------------------------------------
(* Properties.                                                             *)

TypeOK ==
    /\ SchedTypeOK
    /\ mem \in [ref : [Page -> 0 .. RefMod - 1], free : Seq(Page),
                ent : [Page -> [Idx -> Entry]], dirty : SUBSET Page,
                pgdir : [Slot -> Page \cup {NoPage}]]
    /\ upcall \in [Slot -> BOOLEAN]
    /\ cr3 \in Page \cup {NoPage}
    /\ victim \in Slot \cup {NoEnv}
    /\ at \in (0 .. UTOPX) \X (0 .. NPTENTRIES)
    /\ loading \in Slot \cup {NoEnv}
    /\ nomem \in BOOLEAN

\* pp_ref is the number of directory and table entries, and of env_pgdir
\* pointers, that refer to the page; page 0 has the one of page_init besides.
\* Every path of page_insert, page_remove, pgdir_walk and env_free keeps it.
RefExact ==
    \A q \in Page : mem.ref[q] = Cardinality(EntRefs(mem, q))
                              + Cardinality(DirRefs(mem, q))
                              + IF q = 0 THEN 1 ELSE 0

\* page_free_list holds each page without references exactly once: no page is
\* freed twice, freed while in use, or lost (a panic may lose one).
FreeExact ==
    /\ IsInjective(mem.free)
    /\ \A q \in OnList(mem) : mem.ref[q] = 0
    /\ mode # "panic" => \A q \in Page : mem.ref[q] = 0 => q \in OnList(mem)

\* A directory belongs to one environment and a table to one directory entry;
\* neither is mapped in any address space, and no program ever wrote to one.
\* So no program changes a translation but through the system calls.
TablesExclusive ==
    /\ \A q \in Dirs(mem) :
          EntRefs(mem, q) = {} /\ Cardinality(DirRefs(mem, q)) = 1
    /\ \A q \in Tables(mem) : Cardinality(EntRefs(mem, q)) = 1
    /\ mem.dirty \cap (Dirs(mem) \cup Tables(mem)) = {}

\* The slots with a directory are the ones in use: env_free leaves nothing
\* behind, and env_alloc hands out no slot without an address space.  The
\* processor translates with the directory of curenv in user mode, and at any
\* time with kern_pgdir or a directory that still exists and that env_free is
\* not taking apart.
Cr3Valid ==
    /\ \A e \in Slot : env_status[e] = "FREE" <=> mem.pgdir[e] = NoPage
    /\ Trap => cr3 = mem.pgdir[curenv]
    /\ cr3 \in Dirs(mem) \cup {NoPage}
    /\ victim # NoEnv => cr3 # mem.pgdir[victim]

\* The translation of every address of environment e.
AddressSpace(m, e) ==
    [va \in VA |-> IF m.pgdir[e] # NoPage /\ IsMapped(m, m.pgdir[e], va)
                   THEN PteOf(m, m.pgdir[e], va) ELSE Absent]

\* A step of the running environment changes no address space but its own and
\* its children's: not by a system call, not by what env_free or page_insert
\* give back to the allocator.
Isolation ==
    [][\A e \in Slot :
          mode = "user" /\ e # curenv /\ env_parent_id[e] # env_id[curenv]
          /\ env_status[e] # "FREE"
          => AddressSpace(mem', e) = AddressSpace(mem, e)]_vars

\* The pages mapped in some address space, and mapped writable.
UserEntries(m) == {m.ent[x[1]][x[2]] : x \in Tables(m) \X UserPtx}
UserPages(m) == {x.pp : x \in {y \in UserEntries(m) : y.p}}
WritablePages(m) == {x.pp : x \in {y \in UserEntries(m) : y.p /\ y.w}}

\* A page that is shared read-only stays read-only for everyone for as long as
\* it is mapped: sys_page_map does not grant PTE_W the source does not have.
NoWriteEscalation ==
    [][(UserPages(mem) \ WritablePages(mem)) \cap WritablePages(mem') = {}]_vars

\* A page taken from the free list and mapped by a system call holds no byte
\* another program left in it: sys_page_alloc hands out zeroed pages.
NoResidue ==
    [][mode = "user" => OnList(mem) \cap UserPages(mem') \cap mem'.dirty = {}]_vars

\* A call that fails for want of memory has changed nothing, though it may
\* have taken a page and given it back (cleared).  And it fails only so: the
\* comments of sys_page_alloc and sys_page_map say that -E_NO_MEM means that
\* there was no page for the mapping or for its page table.
NoMemChangesNothing ==
    [][nomem' /\ Trap =>
          /\ Len(mem.free) <= 1
          /\ UNCHANGED <<envVars, upcall, cr3, victim>>
          /\ mem' = [mem EXCEPT !.dirty = mem'.dirty]
          /\ mem.dirty \ mem'.dirty \subseteq OnList(mem)]_vars

-----------------------------------------------------------------------------
(* What comments of the code say, and calls or limits beyond those of the  *)
(* programs in the repository refute (README.md).                          *)

\* page_init marks physical page 0 as in use, and page_remove silently does
\* nothing where no page is mapped: page 0 is never given out.
PageZeroInUse == mem.ref[0] # 0 /\ 0 \notin OnList(mem)

\* page_fault_handler destroys the environment whose exception stack is not
\* writable, or overflows; the kernel goes on.
PageFaultContained ==
    [][(\E frame \in FramePages : page_fault_handler(frame))
          => mode' # "panic"]_vars

=============================================================================
