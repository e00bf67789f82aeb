---------------------------- MODULE KernelProofs ----------------------------
(***************************************************************************)
(* Proofs about Kernel, for every size of memory, page table and address   *)
(* space: with all its memory the kernel is an implementation of EnvSched, *)
(* so what is proved of the environment table holds of the kernel.         *)
(***************************************************************************)
EXTENDS Kernel, EnvSchedProofs, PmapProofs

\* While env_free runs, the environment it takes apart is one the caller may
\* name: this makes the end of env_free a destroy step.
VictimReachable ==
    /\ victim # NoEnv => mode = "user" /\ victim \in Reachable
    /\ mode = "boot" => victim = NoEnv

-----------------------------------------------------------------------------
(* What a step of the kernel is for the environment table.                 *)

\* Nothing changes in it.
Quiet == UNCHANGED <<envVars, victim>>

\* env_free begins.
Begins == mode = "user" /\ victim' \in Reachable /\ UNCHANGED envVars

\* A step of EnvSched, with no env_free under way after it.
Schedules == SchedNext /\ victim' = NoEnv

Outcome == Quiet \/ Begins \/ Schedules

LEMMA CurenvReachable ==
    ASSUME SchedInv, mode = "user"
    PROVE  curenv \in Reachable
<1>1. curenv # NoEnv /\ 0 \in Envid
  BY IDLIMAssumption, ENVGENAssumption DEF SchedInv, OneRunning, Envid
<1> QED
  BY <1>1 DEF Reachable, envid2env

LEMMA TargetReachable ==
    ASSUME NEW e \in Target, e # NoEnv
    PROVE  Trap /\ e \in Reachable
BY DEF Target, Reachable

LEMMA ReturnQuiet ==
    ASSUME NEW error, Return(error)
    PROVE  Outcome
BY DEF Return, Outcome, Quiet

LEMMA SucceedQuiet ==
    ASSUME NEW m, Succeed(m)
    PROVE  Outcome
BY DEF Succeed, Outcome, Quiet

LEMMA PanicSchedules ==
    ASSUME Panic
    PROVE  Outcome
BY DEF Panic, Trap, SchedNext, Outcome, Schedules

LEMMA DestroyBegins ==
    ASSUME NEW e \in Reachable, NEW up, Destroy(e, up)
    PROVE  Outcome
BY DEF Destroy, Trap, Outcome, Begins

-----------------------------------------------------------------------------
(* One lemma per group of actions.                                         *)

LEMMA BootOutcome ==
    ASSUME VictimReachable, BootNext
    PROVE  Outcome
<1>1. CASE kenv_create
  <2>1. env_create /\ victim' = NoEnv
    BY <1>1 DEF kenv_create, env_create, VictimReachable
  <2> QED
    BY <2>1 DEF SchedNext, Outcome, Schedules
<1>2. CASE (\E va \in VA : load_segment(va)) \/ load_stack
  BY <1>2 DEF load_segment, load_stack, Outcome, Quiet
<1>3. CASE kboot_panic
  <2>1. boot_panic /\ victim' = NoEnv
    BY <1>3 DEF kboot_panic, boot_panic, VictimReachable
  <2> QED
    BY <2>1 DEF SchedNext, Outcome, Schedules
<1>4. CASE ki386_init
  <2>1. i386_init /\ victim' = NoEnv
    BY <1>4 DEF ki386_init, i386_init, VictimReachable
  <2> QED
    BY <2>1 DEF SchedNext, Outcome, Schedules
<1> QED
  BY <1>1, <1>2, <1>3, <1>4 DEF BootNext

LEMMA FreeOutcome ==
    ASSUME VictimReachable, SchedInv, env_free
    PROVE  Outcome
<1>1. CASE env_free_pte
  BY <1>1 DEF env_free_pte, Outcome, Quiet
<1>2. CASE env_free_pt \/ env_free_skip
  BY <1>2 DEF env_free_pt, env_free_skip, Outcome, Quiet
<1>3. CASE env_free_done
  <2>1. mode = "user" /\ victim \in Reachable /\ env_destroy(victim) /\ victim' = NoEnv
    BY <1>3 DEF env_free_done, VictimReachable
  <2>2. victim \in Slot /\ destroy(victim)
    BY <2>1, ReachableInUse DEF destroy
  <2> QED
    BY <2>1, <2>2 DEF SchedNext, Outcome, Schedules
<1> QED
  BY <1>1, <1>2, <1>3 DEF env_free

LEMMA ExoforkOutcome ==
    ASSUME ksys_exofork
    PROVE  Outcome
<1>1. CASE \E error \in {"E_NO_FREE_ENV", "E_NO_MEM"} : Return(error)
  BY <1>1, ReturnQuiet
<1>2. CASE Trap /\ sys_exofork /\ UNCHANGED victim
  BY <1>2 DEF Trap, SchedNext, Outcome, Schedules
<1> QED
  BY <1>1, <1>2 DEF ksys_exofork

LEMMA SetStatusOutcome ==
    ASSUME SchedInv, NEW e \in Target, NEW status \in Status,
           ksys_env_set_status(e, status)
    PROVE  Outcome
<1>1. CASE \E error \in {"E_BAD_ENV", "E_INVAL"} : Return(error)
  BY <1>1, ReturnQuiet
<1>2. CASE Trap /\ sys_env_set_status(e, status) /\ UNCHANGED victim
  <2>1. e \in Slot
    BY <1>2, ReachableInUse DEF sys_env_set_status
  <2> QED
    BY <1>2, <2>1 DEF Trap, SchedNext, Outcome, Schedules
<1> QED
  BY <1>1, <1>2 DEF ksys_env_set_status

LEMMA UpcallOutcome ==
    ASSUME NEW e \in Target, NEW null, NEW va, NEW two,
           sys_env_set_pgfault_upcall(e, null, va, two)
    PROVE  Outcome
<1>1. CASE Return("E_BAD_ENV")
  BY <1>1, ReturnQuiet
<1>2. CASE UNCHANGED <<envVars, victim>>
  BY <1>2 DEF Outcome, Quiet
<1>3. CASE e # NoEnv /\ \E up : Destroy(e, up)
  BY <1>3, TargetReachable, DestroyBegins
<1>4. CASE Trap /\ kernel_panic /\ UNCHANGED victim
  BY <1>4 DEF Trap, SchedNext, Outcome, Schedules
<1> QED
  BY <1>1, <1>2, <1>3, <1>4 DEF sys_env_set_pgfault_upcall

LEMMA CputsOutcome ==
    ASSUME SchedInv, NEW va, NEW two, sys_cputs(va, two)
    PROVE  Outcome
<1>1. CASE Return("none")
  BY <1>1, ReturnQuiet
<1>2. CASE Trap /\ Destroy(curenv, upcall)
  BY <1>2, CurenvReachable, DestroyBegins DEF Trap
<1>3. CASE Panic
  BY <1>3, PanicSchedules
<1> QED
  BY <1>1, <1>2, <1>3 DEF sys_cputs

LEMMA EnvDestroyOutcome ==
    ASSUME NEW e \in Target, sys_env_destroy(e)
    PROVE  Outcome
<1>1. CASE Return("E_BAD_ENV")
  BY <1>1, ReturnQuiet
<1>2. CASE e # NoEnv /\ Destroy(e, upcall)
  BY <1>2, TargetReachable, DestroyBegins
<1> QED
  BY <1>1, <1>2 DEF sys_env_destroy

LEMMA PageCallOutcome ==
    ASSUME \/ \E e, va, perm : sys_page_alloc(e, va, perm)
           \/ \E src, sva, dst, dva, perm : sys_page_map(src, sva, dst, dva, perm)
           \/ \E e, va : sys_page_unmap(e, va)
    PROVE  Outcome
<1>1. CASE \E error : Return(error)
  BY <1>1, ReturnQuiet
<1>2. CASE \E m : Succeed(m)
  BY <1>2, SucceedQuiet
<1>3. CASE UNCHANGED <<envVars, victim>>
  BY <1>3 DEF Outcome, Quiet
<1>4. ASSUME NEW e, NEW va, NEW perm, sys_page_alloc(e, va, perm)
      PROVE  Outcome
  BY <1>1, <1>2, <1>3, <1>4 DEF sys_page_alloc
<1>5. ASSUME NEW src, NEW sva, NEW dst, NEW dva, NEW perm,
             sys_page_map(src, sva, dst, dva, perm)
      PROVE  Outcome
  BY <1>1, <1>2, <1>5 DEF sys_page_map
<1>6. ASSUME NEW e, NEW va, sys_page_unmap(e, va)
      PROVE  Outcome
  BY <1>1, <1>2, <1>6 DEF sys_page_unmap
<1> QED
  BY <1>4, <1>5, <1>6

LEMMA FaultOutcome ==
    ASSUME SchedInv, NEW frame, page_fault_handler(frame)
    PROVE  Outcome
<1>1. CASE Trap /\ Destroy(curenv, upcall)
  BY <1>1, CurenvReachable, DestroyBegins DEF Trap
<1>2. CASE Panic
  BY <1>2, PanicSchedules
<1>3. CASE UNCHANGED <<envVars, victim>>
  BY <1>3 DEF Outcome, Quiet
<1> QED
  BY <1>1, <1>2, <1>3 DEF page_fault_handler

LEMMA TrapOutcome ==
    ASSUME SchedInv, TrapNext
    PROVE  Outcome
<1>1. CASE ktimer
  BY <1>1 DEF ktimer, Trap, SchedNext, Outcome, Schedules
<1>2. CASE unexpected_trap
  BY <1>2, CurenvReachable, DestroyBegins DEF unexpected_trap, Trap
<1>3. CASE \E va \in VA : user_store(va)
  BY <1>3 DEF user_store, Outcome, Quiet
<1>4. CASE syscall_panic
  BY <1>4, PanicSchedules DEF syscall_panic
<1>5. CASE \/ \E e \in Target, a \in PageArgs : sys_page_alloc(e, a[1], a[2])
           \/ \E a \in MapArgs : sys_page_map(a[1], a[2], a[3], a[4], a[5])
           \/ \E e \in Target, va \in VA \cup {NoVa} : sys_page_unmap(e, va)
  BY <1>5, PageCallOutcome
<1>6. CASE \/ \E e \in Target : sys_env_destroy(e)
           \/ ksys_exofork
           \/ \E e \in Target, status \in Status : ksys_env_set_status(e, status)
  BY <1>6, EnvDestroyOutcome, ExoforkOutcome, SetStatusOutcome
<1>7. CASE \/ \E e \in Target, va \in VA : \E two \in Two(va) :
                 sys_env_set_pgfault_upcall(e, FALSE, va, two)
           \/ \E e \in Target :
                 sys_env_set_pgfault_upcall(e, TRUE, <<0, 0>>, FALSE)
  BY <1>7, UpcallOutcome
<1>8. CASE \/ \E va \in VA : \E two \in Two(va) : sys_cputs(va, two)
           \/ \E frame \in FramePages : page_fault_handler(frame)
  BY <1>8, CputsOutcome, FaultOutcome
<1> QED
  BY <1>1, <1>2, <1>3, <1>4, <1>5, <1>6, <1>7, <1>8 DEF TrapNext

-----------------------------------------------------------------------------
(* The refinement.                                                         *)

LEMMA StepOutcome ==
    ASSUME SchedInv, VictimReachable, [Next]_vars
    PROVE  Outcome
<1>1. CASE idle \/ UNCHANGED vars
  BY <1>1 DEF idle, resume, kernVars, vars, Outcome, Quiet
<1> QED
  BY <1>1, BootOutcome, FreeOutcome, TrapOutcome DEF Next

LEMMA StepImplements ==
    SchedInv /\ VictimReachable /\ [Next]_vars
        => [SchedNext]_envVars /\ SchedInv' /\ VictimReachable'
<1> SUFFICES ASSUME SchedInv, VictimReachable, [Next]_vars
             PROVE  [SchedNext]_envVars /\ SchedInv' /\ VictimReachable'
  OBVIOUS
<1>1. [SchedNext]_envVars
  BY StepOutcome DEF Outcome, Quiet, Begins, Schedules
<1>2. SchedInv'
  BY <1>1, SchedInvNext
<1>3. VictimReachable'
  <2>1. CASE UNCHANGED envVars
    <3>1. mode' = mode /\ Reachable' = Reachable
      BY <2>1 DEF envVars, Reachable, envid2env, ENVX
    <3>2. CASE Quiet
      BY <3>1, <3>2 DEF Quiet, VictimReachable
    <3>3. CASE Begins
      BY <3>1, <3>3 DEF Begins, VictimReachable
    <3>4. CASE Schedules
      BY <3>4 DEF Schedules, VictimReachable
    <3> QED
      BY <3>2, <3>3, <3>4, StepOutcome DEF Outcome
  <2>2. CASE Schedules
    BY <2>2 DEF Schedules, VictimReachable
  <2> QED
    BY <2>1, <2>2, StepOutcome DEF Outcome, Quiet, Begins
<1> QED
  BY <1>1, <1>2, <1>3

\* For every size of memory, the kernel implements the environment table and
\* the scheduler: whatever a handler does to memory, and however env_free is
\* spread over steps, the table sees the steps of SchedSpec.
THEOREM KernelImplementsSched == Spec => SchedSpec
<1>1. Init => env_init /\ VictimReachable
  BY DEF Init, env_init, VictimReachable
<1> QED
  BY <1>1, SchedInvInit, StepImplements, PTL DEF Spec, SchedSpec

\* So the kernel has the properties of the environment table.
THEOREM KernelSchedSafety ==
    Spec => [](/\ SchedTypeOK /\ OneRunning /\ EnvFreeListExact
               /\ IdNamesSlot /\ SomethingToRun)
BY KernelImplementsSched, SchedSafety, PTL
-----------------------------------------------------------------------------
(* What a step of the kernel does to memory: one of the routines of Pmap,  *)
(* on an address space the running environment may name.                   *)

SameSlots == \A e \in Slot : env_status'[e] = "FREE" <=> env_status[e] = "FREE"

OnlySlot(e) ==
    \A f \in Slot \ {e} : env_status'[f] = "FREE" <=> env_status[f] = "FREE"

Still == mem' = mem /\ SameSlots

\* env_alloc gives slot e a directory.
SetsUp(e) ==
    /\ env_status[e] = "FREE" /\ env_status'[e] # "FREE" /\ OnlySlot(e)
    /\ mem.free # <<>>
    /\ mem' = env_setup_vm(mem, e)

\* region_alloc maps a page as it comes.
Loads(va) ==
    /\ mode = "boot" /\ loading # NoEnv /\ SameSlots
    /\ mem.free # <<>>
    /\ ~InsertFails(page_alloc_raw(mem), Pgdir(loading), va)
    /\ mem' = page_insert(page_alloc_raw(mem), Pgdir(loading), Head(mem.free),
                          va, TRUE)

\* region_alloc has a page when it panics.
Loses ==
    /\ mode = "boot" /\ mode' = "panic" /\ SameSlots
    /\ mem.free # <<>>
    /\ mem' = page_alloc_raw(mem)

\* sys_page_alloc.
Allocs(e, va, w) ==
    /\ mode = "user" /\ SameSlots
    /\ mem.free # <<>>
    /\ ~InsertFails(page_alloc(mem), Pgdir(e), va)
    /\ mem' = page_insert(page_alloc(mem), Pgdir(e), Head(mem.free), va, w)

\* sys_page_alloc without a page for the table.
GivesBack ==
    /\ mode = "user" /\ SameSlots
    /\ mem.free # <<>>
    /\ mem' = page_free(page_alloc(mem), Head(mem.free))

\* sys_page_map.
Shares(src, sva, dst, dva, w) ==
    /\ mode = "user" /\ SameSlots
    /\ Stray \/ IsMapped(mem, Pgdir(src), sva)
    /\ HasTable(mem, Pgdir(src), sva)
    /\ w => PteOf(mem, Pgdir(src), sva).w
    /\ ~InsertFails(mem, Pgdir(dst), dva)
    /\ mem' = page_insert(mem, Pgdir(dst), PteOf(mem, Pgdir(src), sva).pp, dva, w)

\* sys_page_unmap and the inner loop of env_free.
Removes(e, va) ==
    /\ mode = "user" /\ SameSlots
    /\ Stray \/ IsMapped(mem, Pgdir(e), va)
    /\ mem' = page_remove(mem, Pgdir(e), va)

\* The outer loop of env_free.
Prunes(e, i) ==
    /\ mode = "user" /\ SameSlots
    /\ mem.ent[Pgdir(e)][i].p
    /\ PresentPtx(mem, mem.ent[Pgdir(e)][i].pp) = {}
    /\ mem' = env_free_table(mem, Pgdir(e), i)

\* The end of env_free.
TearsDown(e) ==
    /\ mode = "user" /\ victim = e /\ victim' = NoEnv
    /\ env_status'[e] = "FREE" /\ OnlySlot(e)
    /\ PresentPdx(mem, Pgdir(e)) = {}
    /\ mem' = env_free_pgdir(mem, e)

\* page_fault_handler writes its frame, or the program a page.
Writes(d, F) ==
    /\ Trap /\ SameSlots
    /\ \A va \in F : IsMapped(mem, d, va)
    /\ mem' = [mem EXCEPT !.dirty =
                 @ \cup (Watched \cap {PteOf(mem, d, va).pp : va \in F})]

MapsStep ==
    \/ \E va \in VA : Loads(va)
    \/ \E e \in Reachable, va \in VA, w \in BOOLEAN : Allocs(e, va, w)
    \/ \E src, dst \in Reachable, sva, dva \in VA, w \in BOOLEAN :
          Shares(src, sva, dst, dva, w)

FreesStep ==
    \/ \E e \in Reachable, va \in VA : Removes(e, va)
    \/ \E e \in Reachable, i \in UserPdx : Prunes(e, i)
    \/ \E e \in Reachable : TearsDown(e)

MemStep ==
    \/ Still
    \/ \E e \in Slot : SetsUp(e)
    \/ Loses
    \/ GivesBack
    \/ \E d \in {cr3, Pgdir(curenv)}, F \in SUBSET VA : Writes(d, F)
    \/ MapsStep
    \/ FreesStep

\* What the kernel relies on between steps about the slots in use.
SlotDirs == \A e \in Slot : env_status[e] = "FREE" <=> mem.pgdir[e] = NoPage

Loading ==
    /\ mode = "user" => loading = NoEnv
    /\ loading # NoEnv => loading \in Slot /\ env_status[loading] # "FREE"

\* What the loops of env_free have done so far: the tables behind the outer
\* counter are gone, and the mappings of this one behind the inner.
Behind(m, d, i, j) ==
    /\ \A x \in UserPdx : x < i => ~m.ent[d][x].p
    /\ i < UTOPX /\ m.ent[d][i].p
          => \A y \in UserPtx : y < j => ~m.ent[m.ent[d][i].pp][y].p

Swept ==
    IF victim = NoEnv THEN at = <<0, 0>>
    ELSE Behind(mem, Pgdir(victim), at[1], at[2])

AtType == at \in (0 .. UTOPX) \X (0 .. NPTENTRIES)

LEMMA AtFacts ==
    ASSUME AtType
    PROVE  /\ at = <<at[1], at[2]>> /\ at[1] \in 0 .. UTOPX /\ at[2] \in 0 .. NPTENTRIES
           /\ UTOPX \in Nat \ {0} /\ NPTENTRIES \in Nat \ {0}
           /\ at[1] < UTOPX => at[1] \in UserPdx
           /\ at[2] < NPTENTRIES => at[2] \in UserPtx
BY UTOPXAssumption, NPTENTRIESAssumption DEF AtType, UserPdx, UserPtx

LEMMA SameTable ==
    ASSUME UNCHANGED envVars
    PROVE  SameSlots
BY DEF envVars, SameSlots

\* The handlers that leave memory alone.
LEMMA LeavesMemory ==
    ASSUME \/ \E error : Return(error)
           \/ Panic
           \/ \E e, up : Destroy(e, up)
    PROVE  MemStep
<1>1. CASE UNCHANGED <<envVars, mem>>
  BY <1>1, SameTable DEF MemStep, Still
<1>2. CASE Panic
  BY <1>2 DEF Panic, kernel_panic, MemStep, Still, SameSlots
<1> QED
  BY <1>1, <1>2 DEF Return, Destroy

\* A slot handed out by env_alloc was free.
LEMMA AllocSlot ==
    ASSUME SchedInv, NEW parent, NEW status \in {"RUNNABLE", "NOT_RUNNABLE"},
           env_alloc(parent, status), NEW e, e = Head(env_free_list)
    PROVE  /\ e \in Slot /\ env_status[e] = "FREE"
           /\ env_status'[e] # "FREE" /\ OnlySlot(e)
<1>1. e \in Range(env_free_list) /\ e \in Slot
  BY PopEnv DEF SchedInv, SchedTypeOK, EnvFreeListExact, env_alloc
<1>2. env_status[e] = "FREE"
  BY <1>1 DEF SchedInv, EnvFreeListExact
<1>3. env_status' = [env_status EXCEPT ![e] = status] /\ env_status \in [Slot -> Status]
  BY DEF env_alloc, SchedInv, SchedTypeOK
<1> QED
  BY <1>1, <1>2, <1>3 DEF OnlySlot

LEMMA BootMemStep ==
    ASSUME SchedInv, Loading, BootNext
    PROVE  MemStep
<1>1. CASE kenv_create
  <2> DEFINE e == Head(env_free_list)
  <2>1. /\ env_alloc(0, "RUNNABLE") /\ mem.free # <<>>
        /\ mem' = env_setup_vm(mem, e)
    BY <1>1 DEF kenv_create, env_create
  <2>2. e \in Slot /\ SetsUp(e)
    BY <2>1, AllocSlot DEF SetsUp
  <2> QED
    BY <2>2 DEF MemStep
<1>2. CASE (\E va \in VA : load_segment(va)) \/ load_stack
  <2>1. PICK va \in VA : region_alloc(va) /\ UNCHANGED envVars
    BY <1>2, USTACKAssumption DEF load_segment, load_stack
  <2>2. Loads(va)
    BY <2>1, SameTable DEF region_alloc, Loads
  <2> QED
    BY <2>2 DEF MemStep, MapsStep
<1>3. CASE kboot_panic
  <2>1. SameSlots /\ mode = "boot" /\ mode' = "panic"
    BY <1>3 DEF kboot_panic, boot_panic, SameSlots
  <2> QED
    BY <1>3, <2>1 DEF kboot_panic, MemStep, Still, Loses
<1>4. CASE ki386_init
  <2>1. mem' = mem /\ sched_yield(env_status, curenv)
    BY <1>4 DEF ki386_init, i386_init
  <2>2. GoodStatus(env_status, curenv)
    BY <1>4 DEF ki386_init, i386_init, SchedInv, SchedTypeOK, OneRunning, GoodStatus
  <2>3. Scheduled(env_status)
    BY <2>1, <2>2, SchedYield DEF SchedInv
  <2> QED
    BY <2>1, <2>3 DEF Scheduled, SameSlots, MemStep, Still
<1> QED
  BY <1>1, <1>2, <1>3, <1>4 DEF BootNext
LEMMA FreeMemStep ==
    ASSUME SchedInv, VictimReachable, AtType, Swept, env_free
    PROVE  MemStep
<1> DEFINE d == Pgdir(victim)
           i == at[1]
           j == at[2]
           t == mem.ent[d][i].pp
<1>1. /\ mode = "user" /\ victim \in Reachable /\ victim \in Slot
      /\ env_status[victim] # "FREE" /\ victim # NoEnv
  BY ReachableInUse DEF env_free, env_free_pte, env_free_pt, env_free_skip, env_free_done,
                        InLoop, VictimReachable
<1>0. Behind(mem, d, i, j)
  BY <1>1 DEF Swept
<1>2. CASE env_free_pte
  <2>1. /\ i < UTOPX /\ mem.ent[d][i].p /\ j < NPTENTRIES /\ UNCHANGED envVars
        /\ mem' = IF mem.ent[t][j].p THEN page_remove(mem, d, at) ELSE mem
    BY <1>2 DEF env_free_pte, InLoop, Pde
  <2>2. i \in UserPdx /\ j \in UserPtx /\ at = <<i, j>> /\ at \in VA /\ SameSlots
    BY <2>1, AtFacts, SameTable DEF VA
  <2>3. CASE ~mem.ent[t][j].p
    BY <2>1, <2>2, <2>3 DEF MemStep, Still
  <2>4. CASE mem.ent[t][j].p
    <3>1. IsMapped(mem, d, at)
      BY <2>1, <2>4 DEF IsMapped, HasTable, PteOf, TableOf, PDX, PTX
    <3>2. Removes(victim, at)
      BY <1>1, <2>1, <2>2, <2>4, <3>1 DEF Removes
    <3> QED
      BY <1>1, <2>2, <3>2 DEF MemStep, FreesStep
  <2> QED
    BY <2>3, <2>4
<1>3. CASE env_free_pt
  <2>1. /\ i < UTOPX /\ mem.ent[d][i].p /\ j = NPTENTRIES /\ UNCHANGED envVars
        /\ mem' = env_free_table(mem, d, i)
    BY <1>3 DEF env_free_pt, InLoop, Pde
  <2>2. i \in UserPdx /\ SameSlots
    BY <2>1, AtFacts, SameTable
  <2>3. \A y \in UserPtx : y < j
    BY <2>1, AtFacts DEF UserPtx
  <2>4. PresentPtx(mem, t) = {}
    BY <1>0, <2>1, <2>3 DEF Behind, PresentPtx
  <2>5. Prunes(victim, i)
    BY <1>1, <2>1, <2>2, <2>4 DEF Prunes
  <2> QED
    BY <1>1, <2>2, <2>5 DEF MemStep, FreesStep
<1>5. CASE env_free_skip
  BY <1>5, SameTable DEF env_free_skip, MemStep, Still
<1>4. CASE env_free_done
  <2>0. PresentPdx(mem, d) = {}
    BY <1>0, <1>4, AtFacts DEF env_free_done, Behind, PresentPdx, UserPdx
  <2>1. /\ PresentPdx(mem, Pgdir(victim)) = {}
        /\ mem' = env_free_pgdir(mem, victim) /\ env_destroy(victim)
        /\ victim' = NoEnv
    BY <1>4, <2>0 DEF env_free_done
  <2>2. Scheduled([env_status EXCEPT ![victim] = "FREE"])
    BY <1>1, <2>1, DestroyKeeps
  <2>3. env_status'[victim] = "FREE" /\ OnlySlot(victim)
    BY <1>1, <2>2 DEF Scheduled, OnlySlot, SchedInv, SchedTypeOK
  <2>4. TearsDown(victim)
    BY <1>1, <2>1, <2>3 DEF TearsDown
  <2> QED
    BY <1>1, <2>4 DEF MemStep, FreesStep
<1> QED
  BY <1>2, <1>3, <1>4, <1>5 DEF env_free

LEMMA ExoforkMemStep ==
    ASSUME SchedInv, ksys_exofork
    PROVE  MemStep
<1>1. CASE \E error : Return(error)
  BY <1>1, LeavesMemory
<1>2. CASE /\ sys_exofork /\ mem.free # <<>>
           /\ mem' = env_setup_vm(mem, Head(env_free_list))
  <2> DEFINE e == Head(env_free_list)
  <2>1. env_alloc(env_id[curenv], "NOT_RUNNABLE")
    BY <1>2 DEF sys_exofork
  <2>2. e \in Slot /\ SetsUp(e)
    BY <1>2, <2>1, AllocSlot DEF SetsUp
  <2> QED
    BY <2>2 DEF MemStep
<1> QED
  BY <1>1, <1>2 DEF ksys_exofork

LEMMA SetStatusMemStep ==
    ASSUME SchedInv, NEW e \in Target, NEW status \in Status,
           ksys_env_set_status(e, status)
    PROVE  MemStep
<1>1. CASE \E error : Return(error)
  BY <1>1, LeavesMemory
<1>2. CASE Trap /\ sys_env_set_status(e, status) /\ mem' = mem
  <2>1. e \in Slot
    BY <1>2, ReachableInUse DEF sys_env_set_status
  <2> QED
    BY <1>2, <2>1, SetStatusKeeps DEF MemStep, Still, SameSlots
<1> QED
  BY <1>1, <1>2 DEF ksys_env_set_status

LEMMA UpcallMemStep ==
    ASSUME NEW e, NEW null, NEW va, NEW two,
           sys_env_set_pgfault_upcall(e, null, va, two)
    PROVE  MemStep
<1>1. CASE \/ \E error : Return(error)
           \/ \E up : Destroy(e, up)
  BY <1>1, LeavesMemory
<1>2. CASE UNCHANGED <<envVars, mem>>
  BY <1>2, SameTable DEF MemStep, Still
<1>3. CASE kernel_panic /\ mem' = mem
  BY <1>3 DEF kernel_panic, MemStep, Still, SameSlots
<1> QED
  BY <1>1, <1>2, <1>3 DEF sys_env_set_pgfault_upcall

LEMMA AllocMemStep ==
    ASSUME NEW e \in Target, NEW a \in PageArgs, sys_page_alloc(e, a[1], a[2])
    PROVE  MemStep
<1>1. CASE \E error : Return(error)
  BY <1>1, LeavesMemory
<1>2. CASE ~\E error : Return(error)
  <2> DEFINE m == page_alloc(mem)
             pp == Head(mem.free)
             va == a[1]
             w == (a[2] = "w")
  <2>1. Trap /\ e # NoEnv /\ va # NoVa /\ a[2] \in {"r", "w"} /\ mem.free # <<>>
    BY <1>2 DEF sys_page_alloc
  <2>2. e \in Reachable /\ mode = "user"
    BY <2>1, TargetReachable DEF Trap
  <2>3. a \in VA \X {"r", "w"}
    BY <2>1 DEF PageArgs
  <2>4. va \in VA /\ w \in BOOLEAN
    BY <2>3
  <2>5. CASE InsertFails(m, Pgdir(e), va) /\ mem' = InsertFailed(m, pp) /\ UNCHANGED envVars
    BY <2>1, <2>2, <2>5, SameTable DEF InsertFailed, GivesBack, MemStep
  <2>6. CASE ~InsertFails(m, Pgdir(e), va) /\ Succeed(page_insert(m, Pgdir(e), pp, va, w))
    <3>1. mem' = page_insert(m, Pgdir(e), pp, va, w) /\ SameSlots
      BY <2>6, SameTable DEF Succeed
    <3>2. Allocs(e, va, w)
      BY <2>1, <2>2, <2>6, <3>1 DEF Allocs
    <3> HIDE DEF w, va
    <3> QED
      BY <2>2, <2>4, <3>2 DEF MemStep, MapsStep
  <2> QED
    BY <1>2, <2>5, <2>6 DEF sys_page_alloc
<1> QED
  BY <1>1, <1>2

LEMMA MapMemStep ==
    ASSUME NEW a \in MapArgs, SchedInv, sys_page_map(a[1], a[2], a[3], a[4], a[5])
    PROVE  MemStep
<1>1. CASE \E error : Return(error)
  BY <1>1, LeavesMemory
<1>2. CASE ~\E error : Return(error)
  <2> DEFINE src == a[1]
             sva == a[2]
             dst == a[3]
             dva == a[4]
             perm == a[5]
             pp == page_lookup(mem, Pgdir(src), sva)
             w == (perm = "w")
  <2>1. /\ Trap /\ src # NoEnv /\ dst # NoEnv /\ sva # NoVa /\ dva # NoVa
        /\ perm \in {"r", "w"} /\ Sane(src, sva) /\ MayShare(src, sva, perm)
        /\ ~InsertFails(mem, Pgdir(dst), dva)
        /\ Succeed(page_insert(mem, Pgdir(dst), pp, dva, w))
    BY <1>2 DEF sys_page_map
  <2>2. a \in (Target \ {NoEnv}) \X VA \X (Target \ {NoEnv}) \X VA \X {"r", "w"}
    BY <2>1 DEF MapArgs
  <2>3. /\ src \in Target /\ dst \in Target /\ sva \in VA /\ dva \in VA
    BY <2>2
  <2>4. src \in Reachable /\ dst \in Reachable /\ mode = "user" /\ w \in BOOLEAN
    BY <2>1, <2>3, TargetReachable DEF Trap
  <2>5. HasTable(mem, Pgdir(src), sva) /\ pp = PteOf(mem, Pgdir(src), sva).pp
    BY <2>1 DEF MayShare, page_lookup
  <2>6. w => PteOf(mem, Pgdir(src), sva).w
    BY <2>1 DEF MayShare
  <2>7. Stray \/ IsMapped(mem, Pgdir(src), sva)
    BY <2>1, <2>5 DEF Sane
  <2>8. mem' = page_insert(mem, Pgdir(dst), pp, dva, w) /\ SameSlots
    BY <2>1, SameTable DEF Succeed
  <2> HIDE DEF w, src, dst, sva, dva, pp
  <2>9. Shares(src, sva, dst, dva, w)
    BY <2>1, <2>4, <2>5, <2>6, <2>7, <2>8 DEF Shares
  <2> QED
    BY <2>3, <2>4, <2>9 DEF MemStep, MapsStep
<1> QED
  BY <1>1, <1>2

LEMMA UnmapMemStep ==
    ASSUME NEW e \in Target, NEW va \in VA \cup {NoVa}, sys_page_unmap(e, va)
    PROVE  MemStep
<1>1. CASE \E error : Return(error)
  BY <1>1, LeavesMemory
<1>2. CASE /\ Trap /\ e # NoEnv /\ va # NoVa /\ Sane(e, va)
           /\ Succeed(page_remove(mem, Pgdir(e), va))
  <2>1. e \in Reachable /\ mode = "user" /\ va \in VA
    BY <1>2, TargetReachable DEF Trap
  <2>2. mem' = page_remove(mem, Pgdir(e), va) /\ SameSlots
    BY <1>2, SameTable DEF Succeed
  <2>3. CASE Stray \/ IsMapped(mem, Pgdir(e), va)
    <3>1. Removes(e, va)
      BY <2>1, <2>2, <2>3 DEF Removes
    <3> QED
      BY <2>1, <3>1 DEF MemStep, FreesStep
  <2>4. CASE ~HasTable(mem, Pgdir(e), va)
    BY <2>2, <2>4 DEF page_remove, page_lookup, MemStep, Still
  <2> QED
    BY <1>2, <2>3, <2>4 DEF Sane
<1> QED
  BY <1>1, <1>2 DEF sys_page_unmap

LEMMA FaultMemStep ==
    ASSUME NEW frame \in FramePages, page_fault_handler(frame)
    PROVE  MemStep
<1>1. CASE Destroy(curenv, upcall) \/ Panic
  BY <1>1, LeavesMemory
<1>2. CASE /\ Trap /\ \A va \in frame : Allows(mem, Pgdir(curenv), va, TRUE)
           /\ mem' = [mem EXCEPT !.dirty = @ \cup
                 (Watched \cap {PteOf(mem, Pgdir(curenv), va).pp : va \in frame})]
           /\ UNCHANGED envVars
  <2>1. XSTACK \in VA
    BY UTOPXAssumption, NPTENTRIESAssumption DEF XSTACK, VA, UserPdx, UserPtx
  <2>2. frame \in SUBSET VA
    BY <2>1 DEF FramePages, Below
  <2>3. Writes(Pgdir(curenv), frame)
    BY <1>2, SameTable DEF Writes, Allows
  <2> QED
    BY <2>2, <2>3 DEF MemStep
<1> QED
  BY <1>1, <1>2 DEF page_fault_handler

LEMMA StoreMemStep ==
    ASSUME NEW va \in VA, user_store(va)
    PROVE  MemStep
<1>1. mem' = [mem EXCEPT !.dirty = @ \cup (Watched \cap {PteOf(mem, cr3, va).pp})]
  BY DEF user_store
<1>2. {PteOf(mem, cr3, va).pp} = {PteOf(mem, cr3, v).pp : v \in {va}}
  OBVIOUS
<1>3. \A v \in {va} : IsMapped(mem, cr3, v)
  BY DEF user_store, Allows
<1>4. Writes(cr3, {va})
  BY <1>1, <1>2, <1>3, SameTable DEF Writes, user_store
<1> QED
  BY <1>4 DEF MemStep

LEMMA TrapMemStep ==
    ASSUME SchedInv, TrapNext
    PROVE  MemStep
<1>1. CASE ktimer
  <2>1. mem' = mem /\ sched_yield(env_status, curenv)
    BY <1>1 DEF ktimer, timer
  <2>2. GoodStatus(env_status, curenv)
    BY DEF SchedInv, SchedTypeOK, OneRunning, GoodStatus
  <2>3. Scheduled(env_status)
    BY <2>1, <2>2, SchedYield DEF SchedInv
  <2> QED
    BY <2>1, <2>3 DEF Scheduled, SameSlots, MemStep, Still
<1>2. CASE unexpected_trap \/ syscall_panic
  BY <1>2, LeavesMemory DEF unexpected_trap, syscall_panic
<1>3. CASE \E va \in VA : \E two \in Two(va) : sys_cputs(va, two)
  BY <1>3, LeavesMemory DEF sys_cputs
<1>4. CASE \E e \in Target : sys_env_destroy(e)
  BY <1>4, LeavesMemory DEF sys_env_destroy
<1>5. CASE \/ ksys_exofork
           \/ \E e \in Target, status \in Status : ksys_env_set_status(e, status)
  BY <1>5, ExoforkMemStep, SetStatusMemStep
<1>6. CASE \/ \E e \in Target, va \in VA : \E two \in Two(va) :
                 sys_env_set_pgfault_upcall(e, FALSE, va, two)
           \/ \E e \in Target :
                 sys_env_set_pgfault_upcall(e, TRUE, <<0, 0>>, FALSE)
  BY <1>6, UpcallMemStep
<1>7. CASE \/ \E e \in Target, a \in PageArgs : sys_page_alloc(e, a[1], a[2])
           \/ \E a \in MapArgs : sys_page_map(a[1], a[2], a[3], a[4], a[5])
           \/ \E e \in Target, va \in VA \cup {NoVa} : sys_page_unmap(e, va)
  BY <1>7, AllocMemStep, MapMemStep, UnmapMemStep
<1>8. CASE \/ \E frame \in FramePages : page_fault_handler(frame)
           \/ \E va \in VA : user_store(va)
  BY <1>8, FaultMemStep, StoreMemStep
<1> QED
  BY <1>1, <1>2, <1>3, <1>4, <1>5, <1>6, <1>7, <1>8 DEF TrapNext

\* Whatever a step does, for memory it is one of these.
LEMMA StepMem ==
    ASSUME SchedInv, VictimReachable, AtType, Swept, Loading, [Next]_vars
    PROVE  MemStep
<1>1. CASE idle \/ UNCHANGED vars
  BY <1>1, SameTable DEF idle, resume, kernVars, vars, MemStep, Still
<1> QED
  BY <1>1, BootMemStep, FreeMemStep, TrapMemStep DEF Next
-----------------------------------------------------------------------------
(* What a step does to the rest: the directory in use, and the flags.      *)

\* Nobody else runs; the handler returns, goes on or panics.
KeepsCr3 == UNCHANGED <<curenv, victim, cr3>> /\ mode' \in {mode, "panic"}

\* env_free begins, outside the directory it will take apart.
LeavesCr3 ==
    /\ Trap /\ victim' \in Reachable /\ UNCHANGED <<envVars, mem>>
    /\ cr3' = IF victim' = curenv THEN NoPage ELSE cr3

\* The scheduler runs with memory as it is, or at the end of env_free.
Settled ==
    \/ victim = NoEnv /\ mem' = mem /\ SameSlots
    \/ victim # NoEnv /\ TearsDown(victim)

\* It runs somebody, or nobody.
SwitchesCr3 ==
    /\ victim' = NoEnv
    /\ Settled
    /\ mode' \in {"user", "monitor"}
    /\ mode' = "user" => curenv' \in Slot /\ env_status'[curenv'] # "FREE"
    /\ cr3' = IF mode' = "user" THEN mem'.pgdir[curenv'] ELSE cr3

\* load_icode enters, and leaves, the new directory.
BootsCr3 ==
    /\ mode' = "boot" /\ victim' = NoEnv
    /\ cr3' = NoPage \/ \E e \in Slot : SetsUp(e) /\ cr3' = Head(mem.free)

Cr3Step == KeepsCr3 \/ LeavesCr3 \/ SwitchesCr3 \/ BootsCr3

LoadingStep ==
    \/ loading' = NoEnv
    \/ loading' = loading /\ SameSlots /\ mode' \in {mode, "panic"}
    \/ loading' \in Slot /\ env_status'[loading'] # "FREE" /\ mode' = "boot"

FlagsKept ==
    /\ upcall \in [Slot -> BOOLEAN] => upcall' \in [Slot -> BOOLEAN]
    /\ nomem \in BOOLEAN => nomem' \in BOOLEAN
    /\ victim = NoEnv => at' \in {at, <<0, 0>>}

RestStep == Cr3Step /\ LoadingStep /\ FlagsKept

\* The end of most handlers.
Resumes ==
    /\ Trap
    /\ UNCHANGED <<curenv, cr3, victim, loading>>
    /\ mode' \in {mode, "panic"}
    /\ FlagsKept

LEMMA ResumesRest ==
    ASSUME Loading, Resumes
    PROVE  RestStep
BY DEF Loading, Resumes, Trap, RestStep, Cr3Step, KeepsCr3, LoadingStep

LEMMA ReturnsRest ==
    ASSUME Loading, \/ \E error : Return(error)
                    \/ \E m : Succeed(m)
                    \/ Panic
    PROVE  RestStep
<1>1. ASSUME NEW error, Return(error) PROVE Resumes
  BY <1>1 DEF Return, Resumes, envVars, FlagsKept
<1>2. ASSUME NEW m, Succeed(m) PROVE Resumes
  BY <1>2 DEF Succeed, Resumes, envVars, FlagsKept
<1>3. ASSUME Panic PROVE Resumes
  BY <1>3 DEF Panic, kernel_panic, Resumes, FlagsKept
<1> QED
  BY <1>1, <1>2, <1>3, ResumesRest

LEMMA DestroyRest ==
    ASSUME Loading, NEW e \in Reachable, NEW up, Destroy(e, up),
           upcall \in [Slot -> BOOLEAN] => up \in [Slot -> BOOLEAN]
    PROVE  RestStep
<1>1. LeavesCr3
  BY DEF Destroy, LeavesCr3
<1>2. loading' = NoEnv
  BY DEF Destroy, Loading, Trap
<1>3. FlagsKept
  BY DEF Destroy, FlagsKept
<1> QED
  BY <1>1, <1>2, <1>3 DEF RestStep, Cr3Step, LoadingStep

LEMMA SwitchRest ==
    ASSUME NEW st, Scheduled(st), LoadCr3, victim' = NoEnv,
           Settled
    PROVE  SwitchesCr3
<1>1. /\ mode' \in {"user", "monitor"}
      /\ mode' = "user" => curenv' \in Slot /\ env_status'[curenv'] # "FREE"
  BY DEF Scheduled
<1>2. cr3' = IF mode' = "user" THEN mem'.pgdir[curenv'] ELSE cr3
  BY <1>1 DEF LoadCr3
<1> QED
  BY <1>1, <1>2 DEF SwitchesCr3

LEMMA BootRest ==
    ASSUME SchedInv, VictimReachable, Loading, BootNext
    PROVE  RestStep
<1>0. mode = "boot" /\ victim = NoEnv
  BY DEF BootNext, kenv_create, env_create, load_segment, load_stack, region_alloc,
         kboot_panic, boot_panic, ki386_init, i386_init, VictimReachable
<1>1. CASE kenv_create
  <2> DEFINE e == Head(env_free_list)
  <2>1. /\ env_alloc(0, "RUNNABLE") /\ mem.free # <<>> /\ mem' = env_setup_vm(mem, e)
        /\ upcall' = [upcall EXCEPT ![e] = FALSE] /\ loading' = e
        /\ cr3' = Head(mem.free) /\ UNCHANGED <<victim, at, nomem>>
    BY <1>1 DEF kenv_create, env_create
  <2>2. e \in Slot /\ SetsUp(e) /\ env_status'[e] # "FREE"
    BY <2>1, AllocSlot DEF SetsUp
  <2>3. mode' = "boot"
    BY <1>0, <2>1 DEF env_alloc
  <2>4. FlagsKept
    BY <2>1, <2>2 DEF FlagsKept
  <2> HIDE DEF e
  <2> QED
    BY <1>0, <2>1, <2>2, <2>3, <2>4 DEF RestStep, Cr3Step, BootsCr3, LoadingStep
<1>2. CASE \E va \in VA : load_segment(va)
  BY <1>2, SameTable DEF load_segment, envVars, RestStep, Cr3Step, KeepsCr3,
                         LoadingStep, FlagsKept
<1>3. CASE load_stack
  BY <1>0, <1>3 DEF load_stack, envVars, RestStep, Cr3Step, BootsCr3, LoadingStep, FlagsKept
<1>4. CASE kboot_panic
  <2>1. /\ UNCHANGED <<curenv, upcall, cr3, victim, at, loading, nomem>>
        /\ mode' = "panic" /\ SameSlots
    BY <1>4 DEF kboot_panic, boot_panic, SameSlots
  <2> QED
    BY <2>1 DEF RestStep, Cr3Step, KeepsCr3, LoadingStep, FlagsKept
<1>5. CASE ki386_init
  <2>1. /\ sched_yield(env_status, curenv) /\ LoadCr3 /\ loading' = NoEnv
        /\ UNCHANGED <<mem, upcall, victim, at, nomem>>
    BY <1>5 DEF ki386_init, i386_init
  <2>2. GoodStatus(env_status, curenv)
    BY DEF SchedInv, SchedTypeOK, OneRunning, GoodStatus
  <2>3. Scheduled(env_status)
    BY <2>1, <2>2, SchedYield DEF SchedInv
  <2>4. SameSlots
    BY <2>3 DEF Scheduled, SameSlots
  <2>5. SwitchesCr3
    BY <1>0, <2>1, <2>3, <2>4, SwitchRest DEF Settled
  <2> QED
    BY <2>1, <2>5 DEF RestStep, Cr3Step, LoadingStep, FlagsKept
<1> QED
  BY <1>1, <1>2, <1>3, <1>4, <1>5 DEF BootNext

LEMMA FreeRest ==
    ASSUME SchedInv, VictimReachable, AtType, Swept, Loading, env_free
    PROVE  RestStep
<1>1. /\ mode = "user" /\ victim \in Reachable /\ victim \in Slot
      /\ env_status[victim] # "FREE" /\ victim # NoEnv
  BY ReachableInUse DEF env_free, env_free_pte, env_free_pt, env_free_skip, env_free_done,
                        InLoop, VictimReachable
<1>2. CASE env_free_pte \/ env_free_pt \/ env_free_skip
  <2>1. UNCHANGED <<curenv, mode, upcall, cr3, victim, loading, nomem>>
    BY <1>2 DEF env_free_pte, env_free_pt, env_free_skip, envVars
  <2> QED
    BY <1>1, <2>1 DEF Loading, RestStep, Cr3Step, KeepsCr3, LoadingStep, FlagsKept
<1>3. CASE env_free_done
  <2>0. PresentPdx(mem, Pgdir(victim)) = {}
    BY <1>1, <1>3, AtFacts DEF env_free_done, Swept, Behind, PresentPdx, UserPdx
  <2>1. /\ PresentPdx(mem, Pgdir(victim)) = {}
        /\ mem' = env_free_pgdir(mem, victim) /\ env_destroy(victim)
        /\ victim' = NoEnv /\ UNCHANGED <<upcall, loading, nomem>> /\ LoadCr3
    BY <1>3, <2>0 DEF env_free_done
  <2>2. Scheduled([env_status EXCEPT ![victim] = "FREE"])
    BY <1>1, <2>1, DestroyKeeps
  <2>3. env_status'[victim] = "FREE" /\ OnlySlot(victim)
    BY <1>1, <2>2 DEF Scheduled, OnlySlot, SchedInv, SchedTypeOK
  <2>4. TearsDown(victim)
    BY <1>1, <2>1, <2>3 DEF TearsDown
  <2>5. SwitchesCr3
    BY <1>1, <2>1, <2>2, <2>4, SwitchRest DEF Settled
  <2> QED
    BY <1>1, <2>1, <2>5 DEF Loading, RestStep, Cr3Step, LoadingStep, FlagsKept
<1> QED
  BY <1>2, <1>3 DEF env_free

LEMMA ExoforkRest ==
    ASSUME SchedInv, Loading, ksys_exofork
    PROVE  RestStep
<1>1. CASE \E error : Return(error)
  BY <1>1, ReturnsRest
<1>2. CASE /\ Trap /\ sys_exofork /\ nomem' = FALSE
           /\ upcall' = [upcall EXCEPT ![Head(env_free_list)] = FALSE]
           /\ UNCHANGED <<cr3, victim, at, loading>>
  BY <1>2, ResumesRest DEF sys_exofork, env_alloc, Resumes, FlagsKept
<1> QED
  BY <1>1, <1>2 DEF ksys_exofork

LEMMA SetStatusRest ==
    ASSUME SchedInv, Loading, NEW e \in Target, NEW status \in Status,
           ksys_env_set_status(e, status)
    PROVE  RestStep
<1>1. CASE \E error : Return(error)
  BY <1>1, ReturnsRest
<1>2. CASE /\ Trap /\ sys_env_set_status(e, status) /\ nomem' = FALSE
           /\ UNCHANGED <<mem, upcall, victim, at, loading>> /\ LoadCr3
  <2>1. e \in Slot
    BY <1>2, ReachableInUse DEF sys_env_set_status
  <2>2. Scheduled([env_status EXCEPT ![e] = status]) /\ SameSlots
    BY <1>2, <2>1, SetStatusKeeps DEF SameSlots
  <2>3. SwitchesCr3
    BY <1>2, <2>2, SwitchRest DEF Trap, Settled
  <2> QED
    BY <1>2, <2>3 DEF Loading, Trap, RestStep, Cr3Step, LoadingStep, FlagsKept
<1> QED
  BY <1>1, <1>2 DEF ksys_env_set_status

LEMMA UpcallRest ==
    ASSUME Loading, NEW e \in Target, NEW null \in BOOLEAN, NEW va, NEW two,
           sys_env_set_pgfault_upcall(e, null, va, two)
    PROVE  RestStep
<1> DEFINE up == [upcall EXCEPT ![e] = ~null]
<1>1. CASE \E error : Return(error)
  BY <1>1, ReturnsRest
<1>2. upcall \in [Slot -> BOOLEAN] => up \in [Slot -> BOOLEAN]
  OBVIOUS
<1>3. CASE e # NoEnv /\ Destroy(e, up)
  BY <1>2, <1>3, TargetReachable, DestroyRest
<1>4. CASE /\ Trap /\ upcall' = up /\ nomem' = FALSE
           /\ UNCHANGED envVars \/ kernel_panic
           /\ UNCHANGED <<cr3, victim, at, loading>>
  <2>1. UNCHANGED curenv /\ mode' \in {mode, "panic"}
    BY <1>4 DEF envVars, kernel_panic
  <2>2. FlagsKept
    BY <1>2, <1>4 DEF FlagsKept
  <2> QED
    BY <1>4, <2>1, <2>2, ResumesRest DEF Resumes
<1> QED
  BY <1>1, <1>3, <1>4 DEF sys_env_set_pgfault_upcall

LEMMA PageCallRest ==
    ASSUME Loading,
           \/ \E e, va, perm : sys_page_alloc(e, va, perm)
           \/ \E src, sva, dst, dva, perm : sys_page_map(src, sva, dst, dva, perm)
           \/ \E e, va : sys_page_unmap(e, va)
    PROVE  RestStep
<1>1. CASE (\E error : Return(error)) \/ (\E m : Succeed(m))
  BY <1>1, ReturnsRest
<1>2. CASE Trap /\ nomem' = TRUE /\ UNCHANGED <<envVars, upcall, cr3, victim, at, loading>>
  BY <1>2, ResumesRest DEF Resumes, envVars, FlagsKept
<1>3. ASSUME NEW e, NEW va, NEW perm, sys_page_alloc(e, va, perm)
      PROVE  RestStep
  BY <1>1, <1>2, <1>3 DEF sys_page_alloc
<1>4. ASSUME NEW src, NEW sva, NEW dst, NEW dva, NEW perm,
             sys_page_map(src, sva, dst, dva, perm)
      PROVE  RestStep
  BY <1>1, <1>4 DEF sys_page_map
<1>5. ASSUME NEW e, NEW va, sys_page_unmap(e, va)
      PROVE  RestStep
  BY <1>1, <1>5 DEF sys_page_unmap
<1> QED
  BY <1>3, <1>4, <1>5

LEMMA TrapRest ==
    ASSUME SchedInv, Loading, TrapNext
    PROVE  RestStep
<1>1. CASE ktimer
  <2>1. /\ Trap /\ sched_yield(env_status, curenv) /\ LoadCr3 /\ nomem' = FALSE
        /\ UNCHANGED <<mem, upcall, victim, at, loading>>
    BY <1>1 DEF ktimer, timer
  <2>2. GoodStatus(env_status, curenv)
    BY DEF SchedInv, SchedTypeOK, OneRunning, GoodStatus
  <2>3. Scheduled(env_status)
    BY <2>1, <2>2, SchedYield DEF SchedInv
  <2>4. SameSlots
    BY <2>3 DEF Scheduled, SameSlots
  <2>5. SwitchesCr3
    BY <2>1, <2>3, <2>4, SwitchRest DEF Trap, Settled
  <2> QED
    BY <2>1, <2>5 DEF Loading, Trap, RestStep, Cr3Step, LoadingStep, FlagsKept
<1>2. CASE Trap /\ Destroy(curenv, upcall)
  BY <1>2, CurenvReachable, DestroyRest DEF Trap
<1>3. CASE (\E error : Return(error)) \/ Panic
  BY <1>3, ReturnsRest
<1>4. CASE \E va \in VA : \E two \in Two(va) : sys_cputs(va, two)
  BY <1>2, <1>3, <1>4 DEF sys_cputs
<1>5. CASE \E e \in Target : sys_env_destroy(e)
  BY <1>3, <1>5, TargetReachable, DestroyRest DEF sys_env_destroy
<1>6. CASE \/ ksys_exofork
           \/ \E e \in Target, status \in Status : ksys_env_set_status(e, status)
  BY <1>6, ExoforkRest, SetStatusRest
<1>7. CASE \/ \E e \in Target, va \in VA : \E two \in Two(va) :
                 sys_env_set_pgfault_upcall(e, FALSE, va, two)
           \/ \E e \in Target :
                 sys_env_set_pgfault_upcall(e, TRUE, <<0, 0>>, FALSE)
  BY <1>7, UpcallRest
<1>8. CASE \/ \E e \in Target, a \in PageArgs : sys_page_alloc(e, a[1], a[2])
           \/ \E a \in MapArgs : sys_page_map(a[1], a[2], a[3], a[4], a[5])
           \/ \E e \in Target, va \in VA \cup {NoVa} : sys_page_unmap(e, va)
  BY <1>8, PageCallRest
<1>9. CASE \/ \E frame \in FramePages : page_fault_handler(frame)
           \/ \E va \in VA : user_store(va)
  <2>1. CASE Trap /\ nomem' = FALSE /\ UNCHANGED <<envVars, upcall, cr3, victim, at, loading>>
    BY <2>1, ResumesRest DEF Resumes, envVars, FlagsKept
  <2> QED
    BY <1>2, <1>3, <1>9, <2>1 DEF page_fault_handler, user_store
<1>10. CASE unexpected_trap \/ syscall_panic
  BY <1>2, <1>3, <1>10 DEF unexpected_trap, syscall_panic
<1> QED
  BY <1>1, <1>4, <1>5, <1>6, <1>7, <1>8, <1>9, <1>10 DEF TrapNext

LEMMA StepRest ==
    ASSUME SchedInv, VictimReachable, AtType, Swept, Loading, [Next]_vars
    PROVE  RestStep
<1>1. CASE idle \/ UNCHANGED vars
  <2>1. UNCHANGED vars
    BY <1>1 DEF idle, resume, vars
  <2> QED
    BY <2>1, SameTable DEF vars, kernVars, envVars, RestStep, Cr3Step, KeepsCr3,
                           LoadingStep, FlagsKept
<1> QED
  BY <1>1, BootRest, FreeRest, TrapRest DEF Next
LEMMA SlotFinite == IsFiniteSet(Slot)
BY FS_Interval, NENVAssumption DEF Slot
-----------------------------------------------------------------------------
(* Types, and the slots that have a directory: these hold of every program, *)
(* the ones that make stray calls too.                                      *)

KernInv ==
    /\ SchedInv /\ VictimReachable /\ Loading /\ SlotDirs
    /\ TypeOK
    /\ Swept

LEMMA DirInUse ==
    ASSUME MemType(mem, Slot), SlotDirs, NEW e \in Slot, env_status[e] # "FREE"
    PROVE  Pgdir(e) \in Page /\ Pgdir(e) \in Dirs(mem)
<1>1. Pgdir(e) # NoPage /\ Pgdir(e) \in Page \cup {NoPage}
  BY TypeFacts DEF SlotDirs, Pgdir
<1> QED
  BY <1>1, DirFacts DEF Pgdir

LEMMA KeepsSlotDirs ==
    ASSUME SlotDirs, SameSlots, TypeKept(mem, mem', Slot)
    PROVE  MemType(mem', Slot) /\ SlotDirs'
BY DEF SlotDirs, SameSlots, TypeKept

LEMMA TypeMaps ==
    ASSUME SchedInv, Loading, SlotDirs, MemType(mem, Slot), MapsStep
    PROVE  TypeKept(mem, mem', Slot) /\ SameSlots
<1>1. ASSUME NEW va \in VA, Loads(va)
      PROVE  TypeKept(mem, mem', Slot) /\ SameSlots
  <2> DEFINE m == page_alloc_raw(mem)
             d == Pgdir(loading)
             pp == Head(mem.free)
             w == TRUE
  <2>1. d \in Page
    BY <1>1, DirInUse DEF Loads, Loading
  <2>2. pp \in Page /\ MemType(m, Slot) /\ m.pgdir = mem.pgdir
    BY <1>1, TypeAlloc DEF Loads, TypeKept
  <2>3. /\ ~InsertFails(m, d, va) /\ w \in BOOLEAN
        /\ mem' = page_insert(m, d, pp, va, w) /\ SameSlots
    BY <1>1 DEF Loads
  <2> HIDE DEF m, d, pp, w
  <2>4. TypeKept(m, mem', Slot)
    BY <2>1, <2>2, <2>3, TypeInsert
  <2> QED
    BY <2>2, <2>3, <2>4 DEF TypeKept
<1>2. ASSUME NEW e \in Reachable, NEW va \in VA, NEW w \in BOOLEAN, Allocs(e, va, w)
      PROVE  TypeKept(mem, mem', Slot) /\ SameSlots
  <2> DEFINE m == page_alloc(mem)
             d == Pgdir(e)
             pp == Head(mem.free)
  <2>1. d \in Page
    BY <1>2, ReachableInUse, DirInUse DEF Allocs
  <2>2. pp \in Page /\ MemType(m, Slot) /\ m.pgdir = mem.pgdir
    BY <1>2, TypeAlloc DEF Allocs, TypeKept
  <2>3. /\ ~InsertFails(m, d, va)
        /\ mem' = page_insert(m, d, pp, va, w) /\ SameSlots
    BY <1>2 DEF Allocs
  <2> HIDE DEF m, d, pp
  <2>4. TypeKept(m, mem', Slot)
    BY <2>1, <2>2, <2>3, TypeInsert
  <2> QED
    BY <2>2, <2>3, <2>4 DEF TypeKept
<1>3. ASSUME NEW src \in Reachable, NEW dst \in Reachable, NEW sva \in VA,
             NEW dva \in VA, NEW w \in BOOLEAN, Shares(src, sva, dst, dva, w)
      PROVE  TypeKept(mem, mem', Slot) /\ SameSlots
  <2> DEFINE c == Pgdir(src)
             d == Pgdir(dst)
             pp == PteOf(mem, c, sva).pp
  <2>1. c \in Page /\ d \in Page
    BY <1>3, ReachableInUse, DirInUse DEF Shares
  <2>2. PDX(sva) \in Idx /\ PTX(sva) \in Idx
    BY DEF VA, PDX, PTX, Idx
  <2>3. pp \in Page
    BY <2>1, <2>2, TypeFacts DEF PteOf, TableOf
  <2>4. /\ ~InsertFails(mem, d, dva)
        /\ mem' = page_insert(mem, d, pp, dva, w) /\ SameSlots
    BY <1>3 DEF Shares
  <2> HIDE DEF c, d, pp
  <2> QED
    BY <2>1, <2>3, <2>4, TypeInsert
<1> QED
  BY <1>1, <1>2, <1>3 DEF MapsStep

LEMMA TypeFrees ==
    ASSUME SchedInv, SlotDirs, MemType(mem, Slot), FreesStep
    PROVE  MemType(mem', Slot) /\ SlotDirs'
<1>1. ASSUME NEW e \in Reachable, NEW va \in VA, Removes(e, va)
      PROVE  MemType(mem', Slot) /\ SlotDirs'
  <2>1. Pgdir(e) \in Page
    BY <1>1, ReachableInUse, DirInUse DEF Removes
  <2>2. mem' = page_remove(mem, Pgdir(e), va) /\ SameSlots
    BY <1>1 DEF Removes
  <2> QED
    BY <2>1, <2>2, TypeRemove, KeepsSlotDirs
<1>2. ASSUME NEW e \in Reachable, NEW i \in UserPdx, Prunes(e, i)
      PROVE  MemType(mem', Slot) /\ SlotDirs'
  <2>1. Pgdir(e) \in Page
    BY <1>2, ReachableInUse, DirInUse DEF Prunes
  <2>2. mem' = env_free_table(mem, Pgdir(e), i) /\ SameSlots
    BY <1>2 DEF Prunes
  <2> QED
    BY <2>1, <2>2, TypeFreeTable, KeepsSlotDirs
<1>3. ASSUME NEW e \in Reachable, TearsDown(e)
      PROVE  MemType(mem', Slot) /\ SlotDirs'
  <2>1. e \in Slot /\ mem.pgdir[e] # NoPage
    BY <1>3, ReachableInUse DEF TearsDown, SlotDirs
  <2>2. MemType(mem', Slot) /\ mem'.pgdir = [mem.pgdir EXCEPT ![e] = NoPage]
    BY <1>3, <2>1, TypeFreePgdir DEF TearsDown
  <2>3. mem.pgdir \in [Slot -> Page \cup {NoPage}]
    BY TypeFacts
  <2> QED
    BY <1>3, <2>1, <2>2, <2>3 DEF TearsDown, OnlySlot, SlotDirs
<1> QED
  BY <1>1, <1>2, <1>3 DEF FreesStep

LEMMA MemTypeStep ==
    ASSUME SchedInv, Loading, SlotDirs, MemType(mem, Slot), MemStep
    PROVE  MemType(mem', Slot) /\ SlotDirs'
<1>1. CASE Still
  BY <1>1, KeepsSlotDirs DEF Still, TypeKept
<1>2. ASSUME NEW e \in Slot, SetsUp(e)
      PROVE  MemType(mem', Slot) /\ SlotDirs'
  <2>1. MemType(mem', Slot) /\ mem'.pgdir = [mem.pgdir EXCEPT ![e] = Head(mem.free)]
    BY <1>2, TypeSetup DEF SetsUp
  <2>2. Head(mem.free) \in Page /\ mem.pgdir \in [Slot -> Page \cup {NoPage}]
    BY <1>2, TypeAlloc, TypeFacts DEF SetsUp
  <2>3. Head(mem.free) # NoPage
    BY <2>2 DEF Page, NoPage
  <2> QED
    BY <1>2, <2>1, <2>2, <2>3 DEF SetsUp, OnlySlot, SlotDirs
<1>3. CASE Loses
  BY <1>3, TypeAlloc, KeepsSlotDirs DEF Loses
<1>4. CASE GivesBack
  <2>1. Head(mem.free) \in Page /\ TypeKept(mem, page_alloc(mem), Slot)
    BY <1>4, TypeAlloc DEF GivesBack
  <2>2. TypeKept(page_alloc(mem), mem', Slot)
    BY <1>4, <2>1, TypeFree DEF GivesBack, TypeKept
  <2> QED
    BY <1>4, <2>1, <2>2, KeepsSlotDirs DEF GivesBack, TypeKept
<1>5. ASSUME NEW d, NEW F, Writes(d, F)
      PROVE  MemType(mem', Slot) /\ SlotDirs'
  <2> DEFINE D == Watched \cap {PteOf(mem, d, va).pp : va \in F}
  <2>1. D \subseteq Page
    BY WatchedAssumption
  <2>2. mem' = [mem EXCEPT !.dirty = @ \cup D] /\ SameSlots
    BY <1>5 DEF Writes
  <2> HIDE DEF D
  <2>3. TypeKept(mem, mem', Slot)
    BY <2>1, <2>2 DEF TypeKept, MemType
  <2> QED
    BY <2>2, <2>3, KeepsSlotDirs
<1>6. CASE MapsStep
  BY <1>6, TypeMaps, KeepsSlotDirs
<1>7. CASE FreesStep
  BY <1>7, TypeFrees
<1> QED
  BY <1>1, <1>2, <1>3, <1>4, <1>5, <1>6, <1>7 DEF MemStep

\* A handler starts in user mode with no env_free under way.
LEMMA TrapTraps ==
    ASSUME TrapNext
    PROVE  Trap
<1>1. /\ \A error : Return(error) => Trap
      /\ \A m : Succeed(m) => Trap
      /\ \A e, up : Destroy(e, up) => Trap
      /\ Panic => Trap
  BY DEF Return, Succeed, Destroy, Panic
<1>2. CASE \/ \E va \in VA : \E two \in Two(va) : sys_cputs(va, two)
           \/ \E e \in Target : sys_env_destroy(e)
           \/ ksys_exofork
           \/ \E e \in Target, status \in Status : ksys_env_set_status(e, status)
  BY <1>1, <1>2 DEF sys_cputs, sys_env_destroy, ksys_exofork, ksys_env_set_status
<1>3. CASE \E e, null, va, two : sys_env_set_pgfault_upcall(e, null, va, two)
  BY <1>1, <1>3 DEF sys_env_set_pgfault_upcall
<1>4. CASE \/ \E e, va, perm : sys_page_alloc(e, va, perm)
           \/ \E e, va : sys_page_unmap(e, va)
  BY <1>1, <1>4 DEF sys_page_alloc, sys_page_unmap
<1>5. CASE \E src, sva, dst, dva, perm : sys_page_map(src, sva, dst, dva, perm)
  BY <1>1, <1>5 DEF sys_page_map
<1>6. CASE \/ syscall_panic \/ unexpected_trap \/ ktimer
           \/ \E frame : page_fault_handler(frame)
           \/ \E va : user_store(va)
  BY <1>1, <1>6 DEF syscall_panic, unexpected_trap, ktimer, page_fault_handler, user_store
<1> QED
  BY <1>2, <1>3, <1>4, <1>5, <1>6 DEF TrapNext

LEMMA EntryCleared ==
    ASSUME NEW ent \in [Page -> [Idx -> Entry]], NEW q \in Page, NEW k \in Idx,
           NEW new, new = [ent EXCEPT ![q][k] = Absent]
    PROVE  /\ \A p \in Page, x \in Idx : new[p][x] \in {ent[p][x], Absent}
           /\ new[q][k] = Absent
OBVIOUS

\* The loops go on from what they have done: a turn clears entries, and sets none.
LEMMA SweptFree ==
    ASSUME MemType(mem, Slot), SchedInv, VictimReachable, SlotDirs, AtType, Swept, env_free
    PROVE  AtType' /\ Swept'
<1> DEFINE d == Pgdir(victim)
           i == at[1]
           j == at[2]
           t == mem.ent[d][i].pp
<1>1. victim \in Slot /\ env_status[victim] # "FREE" /\ victim # NoEnv
  BY ReachableInUse DEF env_free, env_free_pte, env_free_pt, env_free_skip, env_free_done,
                        InLoop, VictimReachable
<1>2. d \in Page /\ Behind(mem, d, i, j)
  BY <1>1, DirInUse DEF Swept
<1>3. CASE env_free_pte
  <2>1. /\ i < UTOPX /\ mem.ent[d][i].p /\ j < NPTENTRIES /\ victim' = victim
        /\ mem' = IF mem.ent[t][j].p THEN page_remove(mem, d, at) ELSE mem
        /\ at' = <<i, j + 1>>
    BY <1>3 DEF env_free_pte, InLoop, Pde
  <2>2. i \in UserPdx /\ j \in UserPtx /\ at = <<i, j>> /\ at \in VA
    BY <2>1, AtFacts DEF VA
  <2>3. t \in Page /\ i \in Idx /\ j \in Idx
    BY <1>2, <2>2, TypeFacts, SMTT(40) DEF Idx
  <2>4. /\ mem'.pgdir = mem.pgdir
        /\ \A q \in Page, k \in Idx : mem'.ent[q][k] \in {mem.ent[q][k], Absent}
        /\ ~mem'.ent[t][j].p
    <3>1. CASE ~mem.ent[t][j].p
      BY <2>1, <3>1
    <3>2. CASE mem.ent[t][j].p
      <4>1. mem' = page_remove(mem, d, at)
        BY <2>1, <3>2
      <4>2. /\ HasTable(mem, d, at) /\ PteOf(mem, d, at) = mem.ent[t][j]
            /\ TableOf(mem, d, at) = t /\ PTX(at) = j
        BY <2>1, <2>2 DEF HasTable, PteOf, TableOf, PDX, PTX
      <4>3. mem.ent[t][j].pp \in Page
        BY <2>3, TypeFacts, SMTT(40)
      <4>4. page_lookup(mem, d, at) = mem.ent[t][j].pp /\ page_lookup(mem, d, at) # NoPage
        <5>1. page_lookup(mem, d, at) = PteOf(mem, d, at).pp
          BY <4>2 DEF page_lookup
        <5>2. \A q \in Page : q # NoPage
          BY NPAGESAssumption, SMTT(40) DEF Page, NoPage
        <5> QED
          BY <4>2, <4>3, <5>1, <5>2
      <4> DEFINE n == page_decref(mem, mem.ent[t][j].pp)
      <4>5. n.ent = mem.ent /\ n.pgdir = mem.pgdir
        BY SMTT(40) DEF page_decref, page_free
      <4>6. mem' = SetEntry(n, t, j, Absent)
        BY <4>1, <4>2, <4>4 DEF page_remove
      <4> HIDE DEF n
      <4>7. mem'.ent = [mem.ent EXCEPT ![t][j] = Absent] /\ mem'.pgdir = mem.pgdir
        BY <4>5, <4>6 DEF SetEntry
      <4>8. mem.ent \in [Page -> [Idx -> Entry]]
        BY TypeFacts
      <4> HIDE DEF d, i, j, t
      <4>9. /\ \A q \in Page, k \in Idx : mem'.ent[q][k] \in {mem.ent[q][k], Absent}
            /\ mem'.ent[t][j] = Absent
        BY <2>3, <4>7, <4>8, EntryCleared
      <4>10. ~Absent.p
        BY SMTT(40) DEF Absent
      <4> QED
        BY <4>7, <4>9, <4>10
    <3> QED
      BY <3>1, <3>2
  <2>5. \A q \in Page, k \in Idx : mem'.ent[q][k].p => mem.ent[q][k].p /\ mem'.ent[q][k].pp = mem.ent[q][k].pp
    BY <2>4 DEF Absent
  <2>6. Behind(mem', d, i, j + 1)
    <3>1. \A x \in UserPdx : x < i => ~mem'.ent[d][x].p
      BY <1>2, <2>5, SMTT(40) DEF Behind, Idx
    <3>2. ASSUME mem'.ent[d][i].p, NEW y \in UserPtx, y < j + 1
          PROVE  ~mem'.ent[mem'.ent[d][i].pp][y].p
      <4>1. mem'.ent[d][i].pp = t /\ y \in Idx
        BY <1>2, <2>3, <2>5, <3>2 DEF Idx
      <4>2. y < j \/ y = j
        BY <2>2, <3>2, SMTT(40) DEF UserPtx
      <4>3. y < j => ~mem.ent[t][y].p
        BY <1>2, <2>1 DEF Behind
      <4> QED
        BY <2>3, <2>4, <2>5, <4>1, <4>2, <4>3
    <3> QED
      BY <3>1, <3>2 DEF Behind
  <2>7. AtType'
    BY <2>1, <2>2, NPTENTRIESAssumption, UTOPXAssumption, SMTT(40) DEF AtType, UserPdx, UserPtx
  <2>8. at'[1] = i /\ at'[2] = j + 1 /\ Pgdir(victim)' = d
    BY <2>1, <2>4 DEF Pgdir
  <2> QED
    BY <1>1, <2>1, <2>6, <2>7, <2>8 DEF Swept
<1>4. CASE env_free_pt \/ env_free_skip
  <2>1. /\ i < UTOPX /\ victim' = victim /\ at' = <<i + 1, 0>>
        /\ \/ mem.ent[d][i].p /\ mem' = env_free_table(mem, d, i)
           \/ ~mem.ent[d][i].p /\ mem' = mem
    BY <1>4 DEF env_free_pt, env_free_skip, InLoop, Pde
  <2>2. i \in UserPdx /\ i \in Idx
    BY <2>1, AtFacts DEF Idx
  <2>3. /\ mem'.pgdir = mem.pgdir
        /\ \A k \in Idx : mem'.ent[d][k] \in {mem.ent[d][k], Absent}
        /\ ~mem'.ent[d][i].p
    <3>1. CASE mem' = mem /\ ~mem.ent[d][i].p
      BY <3>1
    <3>2. CASE mem' = env_free_table(mem, d, i)
      <4> DEFINE n == SetEntry(mem, d, i, Absent)
      <4>1. mem' = page_decref(n, t)
        BY <3>2 DEF env_free_table
      <4>2. mem'.ent = n.ent /\ mem'.pgdir = n.pgdir
        BY <4>1 DEF page_decref, page_free
      <4>3. n.ent = [mem.ent EXCEPT ![d][i] = Absent] /\ n.pgdir = mem.pgdir
        BY DEF SetEntry
      <4>4. mem.ent \in [Page -> [Idx -> Entry]]
        BY TypeFacts
      <4> HIDE DEF n
      <4> QED
        BY <1>2, <2>2, <4>2, <4>3, <4>4, EntryCleared DEF Absent
    <3> QED
      BY <2>1, <3>1, <3>2
  <2>4. Behind(mem', d, i + 1, 0)
    <3>1. ASSUME NEW x \in UserPdx, x < i + 1 PROVE ~mem'.ent[d][x].p
      <4>1. (x < i \/ x = i) /\ x \in Idx
        BY <2>2, <3>1 DEF UserPdx, Idx
      <4> QED
        BY <1>2, <2>3, <4>1 DEF Behind, Absent
    <3>2. \A y \in UserPtx : ~(y < 0)
      BY DEF UserPtx
    <3> QED
      BY <3>1, <3>2 DEF Behind
  <2>5. AtType'
    BY <2>1, <2>2, NPTENTRIESAssumption, UTOPXAssumption, SMTT(40) DEF AtType, UserPdx
  <2>6. at'[1] = i + 1 /\ at'[2] = 0 /\ Pgdir(victim)' = d
    BY <2>1, <2>3 DEF Pgdir
  <2> QED
    BY <1>1, <2>1, <2>4, <2>5, <2>6 DEF Swept
<1>5. CASE env_free_done
  BY <1>5, NPTENTRIESAssumption, UTOPXAssumption DEF env_free_done, Swept, AtType
<1> QED
  BY <1>3, <1>4, <1>5 DEF env_free

LEMMA SweptStep ==
    ASSUME MemType(mem, Slot), SchedInv, VictimReachable, SlotDirs, AtType, Swept,
           RestStep, [Next]_vars
    PROVE  AtType' /\ Swept'
<1>1. CASE env_free
  BY <1>1, SweptFree
<1>2. CASE idle \/ UNCHANGED vars
  BY <1>2 DEF idle, resume, vars, kernVars, Swept, AtType, Pgdir
<1>3. CASE BootNext \/ TrapNext
  <2>1. victim = NoEnv
    <3>1. ASSUME BootNext PROVE mode = "boot"
      BY <3>1 DEF BootNext, kenv_create, env_create, load_segment, load_stack, region_alloc,
                  kboot_panic, boot_panic, ki386_init, i386_init
    <3> QED
      BY <1>3, <3>1, TrapTraps DEF Trap, VictimReachable
  <2>2. at = <<0, 0>> /\ at' = <<0, 0>>
    BY <2>1 DEF Swept, RestStep, FlagsKept
  <2>3. \A n \in UserPdx \cup UserPtx : ~(n < 0)
    BY DEF UserPdx, UserPtx
  <2>4. at'[1] = 0 /\ at'[2] = 0
    BY <2>2
  <2>5. Behind(mem', Pgdir(victim)', 0, 0)
    BY <2>3 DEF Behind
  <2> QED
    BY <2>2, <2>4, <2>5 DEF Swept, AtType
<1> QED
  BY <1>1, <1>2, <1>3 DEF Next

LEMMA KernInvInit == Init => KernInv
<1> SUFFICES ASSUME Init PROVE KernInv
  OBVIOUS
<1>1. SchedInv /\ VictimReachable /\ Loading
  BY SchedInvInit DEF Init, env_init, VictimReachable, Loading
<1>2. MemType(mem, Slot)
  BY InitKeeps, SlotFinite DEF Init, MemInv
<1>3. SlotDirs
  BY DEF Init, env_init, SlotDirs, page_init
<1>4. AtType /\ Swept
  BY NPTENTRIESAssumption, UTOPXAssumption DEF Init, AtType, Swept
<1> QED
  BY <1>1, <1>2, <1>3, <1>4 DEF Init, KernInv, TypeOK, MemType, SchedInv, AtType
  
LEMMA KernInvNext == KernInv /\ [Next]_vars => KernInv'
<1> SUFFICES ASSUME KernInv, [Next]_vars PROVE KernInv'
  OBVIOUS
<1>1. SchedInv' /\ VictimReachable'
  BY StepImplements DEF KernInv
<1>2. MemStep /\ RestStep
  BY StepMem, StepRest DEF KernInv, TypeOK, AtType
<1>3. MemType(mem', Slot) /\ SlotDirs'
  BY <1>2, MemTypeStep DEF KernInv, TypeOK, MemType
<1>4. Loading'
  BY <1>2 DEF KernInv, RestStep, LoadingStep, Loading, SameSlots
<1>5. victim' \in Slot \cup {NoEnv}
  BY StepOutcome, ReachableInUse
     DEF KernInv, TypeOK, Outcome, Quiet, Begins, Schedules
<1>6. cr3' \in Page \cup {NoPage}
  <2>1. CASE SwitchesCr3
    BY <1>3, <2>1, TypeFacts DEF SwitchesCr3, KernInv, TypeOK
  <2>2. CASE \E e \in Slot : SetsUp(e) /\ cr3' = Head(mem.free)
    BY <2>2, TypeAlloc DEF SetsUp, KernInv, TypeOK, MemType
  <2> QED
    BY <1>2, <2>1, <2>2 DEF RestStep, Cr3Step, KeepsCr3, LeavesCr3, BootsCr3,
                            KernInv, TypeOK
<1>7. upcall' \in [Slot -> BOOLEAN] /\ nomem' \in BOOLEAN
  BY <1>2 DEF RestStep, FlagsKept, KernInv, TypeOK
<1>8. loading' \in Slot \cup {NoEnv}
  BY <1>4 DEF Loading
<1>9. SchedTypeOK'
  BY <1>1 DEF SchedInv
<1>11. AtType' /\ Swept'
  BY <1>2, SweptStep DEF KernInv, TypeOK, MemType, AtType
<1>10. TypeOK'
  BY <1>3, <1>5, <1>6, <1>7, <1>8, <1>9, <1>11 DEF TypeOK, MemType, AtType
<1> QED
  BY <1>1, <1>3, <1>4, <1>10, <1>11 DEF KernInv

\* The types hold for every program, every size of memory and every width of
\* pp_ref: whatever system calls are made, however the counts wrap, no routine
\* of kern/pmap.c leaves the arrays it works on, and every slot in use has a
\* directory that env_free has not yet given back.
THEOREM KernelTypes == Spec => [](TypeOK /\ SlotDirs)
<1>1. KernInv => TypeOK /\ SlotDirs
  BY DEF KernInv
<1> QED
  BY <1>1, KernInvInit, KernInvNext, PTL DEF Spec
-----------------------------------------------------------------------------
(* Memory, when no program makes a stray call and no count reaches the     *)
(* limit of pp_ref.                                                        *)

\* No page has as many references as a pp_ref can count.
NoWrap == \A q \in Page : RefCount(mem, q) < RefMod

\* The tree, the counts and the free list agree; only a panic has pages in hand
\* between steps.
MemOK ==
    \E H \in SUBSET Page : MemInv(mem, Slot, H) /\ (mode # "panic" => H = {})

\* The processor's directory.
Cr3OK ==
    /\ Trap => cr3 = mem.pgdir[curenv]
    /\ cr3 \in Dirs(mem) \cup {NoPage}
    /\ victim # NoEnv => cr3 # mem.pgdir[victim]

\* What a step makes of the mappings: it adds at most one, of a page that was
\* free and is clean, or of a page mapped elsewhere with the same permission.
Adds(pp, w) ==
    \A t \in Tables(mem'), k \in UserPtx : mem'.ent[t][k].p =>
        \/ t \in Tables(mem) /\ mem'.ent[t][k] = mem.ent[t][k]
        \/ mem'.ent[t][k] = Present(pp, w)
Fresh(pp) == pp \in OnList(mem) /\ (mode = "user" => pp \notin mem'.dirty)
Mapped(pp, w) ==
    \E t \in Tables(mem), k \in UserPtx :
        mem.ent[t][k].p /\ mem.ent[t][k].pp = pp /\ (w => mem.ent[t][k].w)

MapEffect ==
    \/ KeepsEntries(mem, mem')
    \/ \E pp \in Page, w \in BOOLEAN : Adds(pp, w) /\ (Fresh(pp) \/ Mapped(pp, w))

\* And where: in one address space that the running environment may name.
Elsewhere ==
    /\ mode = "user" => \E e \in Reachable : Apart(mem, mem', Pgdir(e))
    /\ \A f \in Slot : env_status[f] # "FREE"
          => mem'.pgdir[f] = mem.pgdir[f] \/ TearsDown(f)

Effect == MapEffect /\ Elsewhere

\* Steps that leave the entries alone.
LEMMA SameEntries ==
    ASSUME SchedInv, mem'.ent = mem.ent, Tables(mem') = Tables(mem),
           \A f \in Slot : env_status[f] # "FREE" => mem'.pgdir[f] = mem.pgdir[f]
                                                     \/ TearsDown(f)
    PROVE  Effect
<1>1. KeepsEntries(mem, mem')
  BY DEF KeepsEntries
<1>2. ASSUME mode = "user" PROVE \E e \in Reachable : Apart(mem, mem', Pgdir(e))
  BY <1>2, CurenvReachable DEF Apart
<1> QED
  BY <1>1, <1>2 DEF Effect, MapEffect, Elsewhere

\* page_insert of a page in hand, or of one mapped elsewhere.
LEMMA InsertStep ==
    ASSUME NEW m, NEW H, MemInv(m, Slot, H), MemType(mem, Slot),
           m.ent = mem.ent, m.pgdir = mem.pgdir,
           NEW d \in Dirs(mem), NEW va \in VA, ~InsertFails(m, d, va),
           NEW pp \in Page \ (OnList(m) \cup Dirs(mem) \cup Tables(mem)),
           H \subseteq {pp},
           NEW w \in BOOLEAN, mem' = page_insert(m, d, pp, va, w), NoWrap'
    PROVE  /\ MemInv(mem', Slot, {})
           /\ mem'.dirty \subseteq m.dirty /\ mem'.pgdir = mem.pgdir
           /\ Adds(pp, w)
           /\ Apart(mem, mem', d)
<1>1. Dirs(m) = Dirs(mem) /\ Tables(m) = Tables(mem)
  BY SameCounts
<1>2. RefCount(mem', pp) < RefMod
  BY DEF NoWrap
<1> DEFINE o == mem'
<1>3. o = page_insert(m, d, pp, va, w) /\ RefCount(o, pp) < RefMod
  BY <1>2
<1> HIDE DEF o
<1>4. d \in Dirs(m) /\ pp \in Page \ (OnList(m) \cup Dirs(m) \cup Tables(m))
  BY <1>1
<1>5. MemInv(o, Slot, H \ {pp}) /\ Inserted(m, o, d, pp, w)
  BY <1>3, <1>4, InsertKeeps, SlotFinite
<1>6. H \ {pp} = {}
  OBVIOUS
<1>7. Apart(mem, o, d)
  BY <1>1, <1>5 DEF Inserted, Apart
<1>8. \A t \in Tables(o), k \in UserPtx : o.ent[t][k].p =>
            \/ t \in Tables(mem) /\ o.ent[t][k] = mem.ent[t][k]
            \/ o.ent[t][k] = Present(pp, w)
  BY <1>1, <1>5 DEF Inserted
<1>9. o.pgdir = mem.pgdir /\ MemInv(o, Slot, {}) /\ o.dirty \subseteq m.dirty
  BY <1>5, <1>6 DEF Inserted
<1> QED
  BY <1>7, <1>8, <1>9 DEF o, Adds

\* A page that comes from the list.
LEMMA FromList ==
    ASSUME MemInv(mem, Slot, {}), mem.free # <<>>,
           NEW m \in {page_alloc_raw(mem), page_alloc(mem)},
           NEW pp, pp = Head(mem.free)
    PROVE  MemInv(m, Slot, {pp}) /\ InHand(mem, m, pp)
BY TakeHead, SlotFinite

\* Memory is right after the step, but for the page a panic loses.
MemKept ==
    /\ MemInv(mem', Slot, {}) \/ (mode' = "panic" /\ \E q \in Page : MemInv(mem', Slot, {q}))
    /\ Effect

LEMMA InsertEffect ==
    ASSUME NEW e \in Slot, MemInv(mem', Slot, {}), mem'.pgdir = mem.pgdir,
           mode = "user" => e \in Reachable, Apart(mem, mem', Pgdir(e)),
           NEW pp \in Page, NEW w \in BOOLEAN, Adds(pp, w), Fresh(pp) \/ Mapped(pp, w)
    PROVE  MemKept
<1>1. MapEffect
  BY DEF MapEffect
<1>2. Elsewhere
  BY DEF Elsewhere
<1> QED
  BY <1>1, <1>2 DEF MemKept, Effect

LEMMA LoadsKeeps ==
    ASSUME Loading, SlotDirs, MemInv(mem, Slot, {}), NoWrap',
           NEW va \in VA, Loads(va)
    PROVE  MemKept
<1> DEFINE m == page_alloc_raw(mem)
           d == Pgdir(loading)
           pp == Head(mem.free)
           w == TRUE
<1>1. loading \in Slot /\ d \in Dirs(mem) /\ MemType(mem, Slot) /\ mode = "boot"
  BY DirInUse DEF Loads, Loading, MemInv
<1>2. /\ ~InsertFails(m, d, va) /\ w \in BOOLEAN /\ mem.free # <<>>
      /\ mem' = page_insert(m, d, pp, va, w)
  BY DEF Loads
<1>3. m \in {page_alloc_raw(mem), page_alloc(mem)}
  OBVIOUS
<1> HIDE DEF m, w
<1>4. /\ MemInv(m, Slot, {pp}) /\ m.ent = mem.ent /\ m.pgdir = mem.pgdir
      /\ pp \in OnList(mem) /\ pp \in Page
      /\ pp \in Page \ (OnList(m) \cup Dirs(mem) \cup Tables(mem))
  BY <1>2, <1>3, FromList DEF InHand
<1> HIDE DEF d, pp
<1>5. /\ MemInv(mem', Slot, {}) /\ mem'.pgdir = mem.pgdir
      /\ Adds(pp, w) /\ Apart(mem, mem', d)
  BY <1>1, <1>2, <1>4, InsertStep
<1>6. Fresh(pp) /\ (mode = "user" => loading \in Reachable)
  BY <1>1, <1>4 DEF Fresh
<1> QED
  BY <1>1, <1>2, <1>4, <1>5, <1>6, InsertEffect DEF d

LEMMA AllocsKeeps ==
    ASSUME SchedInv, SlotDirs, MemInv(mem, Slot, {}), NoWrap',
           NEW e \in Reachable, NEW va \in VA, NEW w \in BOOLEAN, Allocs(e, va, w)
    PROVE  MemKept
<1> DEFINE m == page_alloc(mem)
           d == Pgdir(e)
           pp == Head(mem.free)
<1>1. e \in Slot /\ d \in Dirs(mem) /\ MemType(mem, Slot)
  BY ReachableInUse, DirInUse DEF Allocs, MemInv
<1>2. /\ ~InsertFails(m, d, va) /\ mem.free # <<>>
      /\ mem' = page_insert(m, d, pp, va, w)
  BY DEF Allocs
<1>3. m \in {page_alloc_raw(mem), page_alloc(mem)} /\ m = page_alloc(mem)
  OBVIOUS
<1> HIDE DEF m
<1>4. /\ MemInv(m, Slot, {pp}) /\ m.ent = mem.ent /\ m.pgdir = mem.pgdir
      /\ pp \in OnList(mem) /\ pp \in Page /\ pp \notin m.dirty
      /\ pp \in Page \ (OnList(m) \cup Dirs(mem) \cup Tables(mem))
  BY <1>2, <1>3, FromList DEF InHand
<1> HIDE DEF d, pp
<1>5. /\ MemInv(mem', Slot, {}) /\ mem'.pgdir = mem.pgdir
      /\ mem'.dirty \subseteq m.dirty /\ Adds(pp, w) /\ Apart(mem, mem', d)
  BY <1>1, <1>2, <1>4, InsertStep
<1>6. Fresh(pp)
  BY <1>4, <1>5 DEF Fresh
<1> QED
  BY <1>1, <1>4, <1>5, <1>6, InsertEffect DEF d

\* A page mapped in an address space.
LEMMA MappedPage ==
    ASSUME MemInv(mem, Slot, {}), NEW d \in Dirs(mem), NEW va \in VA,
           IsMapped(mem, d, va), NEW t, t = TableOf(mem, d, va),
           NEW k, k = PTX(va), NEW pp, pp = PteOf(mem, d, va).pp
    PROVE  /\ t \in Tables(mem) /\ k \in UserPtx
           /\ mem.ent[t][k].p /\ mem.ent[t][k].pp = pp
           /\ mem.ent[t][k] = PteOf(mem, d, va)
           /\ pp \in Page \ (OnList(mem) \cup Dirs(mem) \cup Tables(mem))
<1>1. MemType(mem, Slot) /\ Shape(mem)
  BY DEF MemInv
<1>2. t \in Tables(mem) /\ t \in Page /\ k \in UserPtx
  BY <1>1, WalkFinds DEF IsMapped
<1>3. mem.ent[t][k] = PteOf(mem, d, va) /\ mem.ent[t][k].p /\ mem.ent[t][k].pp = pp
  BY DEF IsMapped, PteOf
<1>4. pp \in Page /\ k \in Idx
  BY <1>1, <1>2, <1>3, TypeFacts DEF Idx
<1>5. pp \notin Dirs(mem) \cup Tables(mem)
  BY <1>1, <1>2, <1>3, KindsApart
<1>6. ASSUME pp \in OnList(mem) PROVE FALSE
  <2>1. Unnamed(mem, pp)
    BY <1>6, FreeFacts, SlotFinite
  <2> QED
    BY <1>2, <1>3, <1>4, <2>1 DEF Unnamed
<1> QED
  BY <1>2, <1>3, <1>4, <1>5, <1>6

LEMMA SharesKeeps ==
    ASSUME SchedInv, SlotDirs, MemInv(mem, Slot, {}), NoWrap', ~Stray,
           NEW src \in Reachable, NEW dst \in Reachable, NEW sva \in VA,
           NEW dva \in VA, NEW w \in BOOLEAN, Shares(src, sva, dst, dva, w)
    PROVE  MemKept
<1> DEFINE c == Pgdir(src)
           d == Pgdir(dst)
           t == TableOf(mem, c, sva)
           k == PTX(sva)
           pp == PteOf(mem, c, sva).pp
<1>1. dst \in Slot /\ c \in Dirs(mem) /\ d \in Dirs(mem) /\ MemType(mem, Slot)
  BY ReachableInUse, DirInUse DEF Shares, MemInv
<1>2. /\ ~InsertFails(mem, d, dva) /\ mem' = page_insert(mem, d, pp, dva, w)
      /\ IsMapped(mem, c, sva) /\ (w => PteOf(mem, c, sva).w)
  BY DEF Shares
<1>3. /\ t \in Tables(mem) /\ k \in UserPtx
      /\ mem.ent[t][k].p /\ mem.ent[t][k].pp = pp
      /\ mem.ent[t][k] = PteOf(mem, c, sva)
      /\ pp \in Page \ (OnList(mem) \cup Dirs(mem) \cup Tables(mem))
  BY <1>1, <1>2, MappedPage
<1>4. Mapped(pp, w)
  BY <1>2, <1>3 DEF Mapped
<1> HIDE DEF c, d, t, k, pp
<1>5. /\ MemInv(mem', Slot, {}) /\ mem'.pgdir = mem.pgdir
      /\ Adds(pp, w) /\ Apart(mem, mem', d)
  BY <1>1, <1>2, <1>3, InsertStep
<1> QED
  BY <1>1, <1>3, <1>4, <1>5, InsertEffect DEF d
LEMMA RemovesKeeps ==
    ASSUME SchedInv, SlotDirs, MemInv(mem, Slot, {}), ~Stray,
           NEW e \in Reachable, NEW va \in VA, Removes(e, va)
    PROVE  MemKept
<1> DEFINE d == Pgdir(e)
           t == TableOf(mem, d, va)
           k == PTX(va)
           H == {}
<1>1. /\ e \in Slot /\ d \in Dirs(mem) /\ MemType(mem, Slot) /\ Shape(mem)
      /\ mode = "user" /\ MemInv(mem, Slot, H)
  BY ReachableInUse, DirInUse DEF Removes, MemInv
<1>2. IsMapped(mem, d, va) /\ mem' = page_remove(mem, d, va)
  BY DEF Removes
<1>3. t \in Tables(mem) /\ k \in UserPtx /\ t \in Page
  BY <1>1, <1>2, WalkFinds DEF IsMapped
<1>4. \E i \in UserPdx : mem.ent[d][i].p /\ mem.ent[d][i].pp = t
  BY <1>2 DEF IsMapped, HasTable, TableOf, VA, PDX
<1> DEFINE n == mem'
<1>5. /\ n = page_remove(mem, d, va) /\ t = TableOf(mem, d, va)
      /\ k = PTX(va)
  BY <1>2
<1> HIDE DEF d, t, k, H, n
<1>6. /\ MemInv(n, Slot, H) /\ EntrySet(mem, n, t, k, Absent)
      /\ \A q \in Page : q # t => n.ent[q] = mem.ent[q]
      /\ Dirs(n) = Dirs(mem) /\ Tables(n) = Tables(mem)
  <2>1. MemInv(n, Slot, H) /\ Removed(mem, n, TableOf(mem, d, va), PTX(va))
    BY <1>1, <1>2, <1>5, RemoveUnmaps, SlotFinite
  <2> QED
    BY <1>5, <2>1 DEF Removed
<1>7. Apart(mem, n, d)
  BY <1>1, <1>4, <1>6, ApartFrom
<1>8. KeepsEntries(mem, n)
  <2> SUFFICES ASSUME NEW u \in Tables(n), NEW j \in UserPtx, n.ent[u][j].p
               PROVE  u \in Tables(mem) /\ n.ent[u][j] = mem.ent[u][j]
    BY DEF KeepsEntries
  <2>1. u \in Page /\ j \in Idx /\ u \in Tables(mem)
    BY <1>1, <1>6, TableFacts DEF Idx
  <2>2. ~Absent.p
    BY DEF Absent
  <2> QED
    BY <1>6, <2>1, <2>2 DEF EntrySet
<1>9. n.pgdir = mem.pgdir
  BY <1>6 DEF EntrySet
<1> QED
  BY <1>1, <1>6, <1>7, <1>8, <1>9 DEF MemKept, Effect, MapEffect, Elsewhere, d, H, n

LEMMA PrunesKeeps ==
    ASSUME SchedInv, SlotDirs, MemInv(mem, Slot, {}),
           NEW e \in Reachable, NEW i \in UserPdx, Prunes(e, i)
    PROVE  MemKept
<1> DEFINE d == Pgdir(e)
           t == mem.ent[d][i].pp
           H == {}
           n == mem'
<1>1. /\ e \in Slot /\ d \in Dirs(mem) /\ MemType(mem, Slot) /\ Shape(mem)
      /\ mode = "user" /\ MemInv(mem, Slot, H)
  BY ReachableInUse, DirInUse DEF Prunes, MemInv
<1>2. /\ mem.ent[d][i].p /\ PresentPtx(mem, t) = {}
      /\ n = env_free_table(mem, d, i)
  BY DEF Prunes
<1> HIDE DEF d, H, n
<1>3. /\ MemInv(n, Slot, H) /\ EntrySet(mem, n, d, i, Absent)
      /\ \A q \in Page : q # d => n.ent[q] = mem.ent[q]
      /\ Dirs(n) = Dirs(mem) /\ Tables(n) = Tables(mem) \ {t}
  BY <1>1, <1>2, FreeTableKeeps, SlotFinite
<1>4. d \in Page /\ \A u \in Tables(mem) : u # d /\ u \in Page
  BY <1>1, KindsApart, TypeInTree DEF InTree
<1>5. Apart(mem, n, d)
  <2>1. \A q \in Page : q # d /\ q # t => n.ent[q] = mem.ent[q]
    BY <1>3
  <2>2. mem.ent[d][i].p /\ mem.ent[d][i].pp = t
    BY <1>2
  <2> HIDE DEF t
  <2> QED
    BY <1>1, <2>1, <2>2, ApartFrom
<1>6. KeepsEntries(mem, n)
  BY <1>3, <1>4 DEF KeepsEntries
<1>7. n.pgdir = mem.pgdir
  BY <1>3 DEF EntrySet
<1> QED
  BY <1>1, <1>3, <1>5, <1>6, <1>7 DEF MemKept, Effect, MapEffect, Elsewhere, d, H, n

LEMMA TearsDownKeeps ==
    ASSUME SchedInv, SlotDirs, MemInv(mem, Slot, {}),
           NEW e \in Reachable, TearsDown(e)
    PROVE  MemKept
<1> DEFINE d == Pgdir(e)
           H == {}
           n == mem'
<1>1. /\ e \in Slot /\ d \in Dirs(mem) /\ MemType(mem, Slot) /\ mode = "user"
      /\ MemInv(mem, Slot, H)
  BY ReachableInUse, DirInUse DEF TearsDown, MemInv
<1>2. /\ d # NoPage /\ d = mem.pgdir[e] /\ PresentPdx(mem, d) = {}
      /\ n = env_free_pgdir(mem, e)
  BY <1>1 DEF TearsDown, Pgdir, Dirs
<1> HIDE DEF d, H, n
<1>3. /\ MemInv(n, Slot, H) /\ n.ent = mem.ent
      /\ n.pgdir = [mem.pgdir EXCEPT ![e] = NoPage] /\ Tables(n) = Tables(mem)
  BY <1>1, <1>2, FreePgdirKeeps, SlotFinite
<1>4. \A f \in Slot : mem'.pgdir[f] = mem.pgdir[f] \/ TearsDown(f)
  <2>1. mem.pgdir \in [Slot -> Page \cup {NoPage}]
    BY <1>1, TypeFacts
  <2> QED
    BY <1>3, <2>1 DEF n
<1>5. Effect
  BY <1>3, <1>4, SameEntries DEF n
<1> QED
  BY <1>3, <1>5 DEF MemKept, H, n

LEMMA WritesKeeps ==
    ASSUME SchedInv, SlotDirs, MemInv(mem, Slot, {}), Cr3OK,
           NEW d \in {cr3, Pgdir(curenv)}, NEW F \in SUBSET VA, Writes(d, F)
    PROVE  MemKept
<1> DEFINE D == Watched \cap {PteOf(mem, d, va).pp : va \in F}
           H == {}
<1>1. curenv \in Slot /\ env_status[curenv] # "FREE"
  BY DEF Writes, Trap, SchedInv, OneRunning, SchedTypeOK
<1>2. d \in Dirs(mem) /\ MemInv(mem, Slot, H)
  BY <1>1, DirInUse DEF Writes, Cr3OK, Pgdir, MemInv
<1>3. mem' = [mem EXCEPT !.dirty = @ \cup D] /\ \A va \in F : IsMapped(mem, d, va)
  BY DEF Writes
<1>4. D \in SUBSET Page
  BY WatchedAssumption
<1>5. D \cap (Dirs(mem) \cup Tables(mem)) = {}
  <2> SUFFICES ASSUME NEW va \in F
               PROVE  PteOf(mem, d, va).pp \notin Dirs(mem) \cup Tables(mem)
    OBVIOUS
  <2>1. va \in VA /\ IsMapped(mem, d, va)
    BY <1>3
  <2> QED
    BY <1>2, <2>1, MappedPage
<1> HIDE DEF D, H
<1>6. MemInv([mem EXCEPT !.dirty = @ \cup D], Slot, H)
  BY <1>2, <1>4, <1>5, DirtyKeeps
<1>7. MemInv(mem', Slot, {})
  BY <1>3, <1>6 DEF H
<1>8. mem'.ent = mem.ent /\ mem'.pgdir = mem.pgdir
  BY <1>2, <1>3 DEF MemInv, MemType
<1>9. Tables(mem') = Tables(mem)
  BY <1>8, SameCounts
<1> QED
  BY <1>7, <1>8, <1>9, SameEntries DEF MemKept

LEMMA SetsUpKeeps ==
    ASSUME SchedInv, SlotDirs, MemInv(mem, Slot, {}), NEW e \in Slot, SetsUp(e)
    PROVE  MemKept
<1> DEFINE d == Head(mem.free)
           H == {}
           n == mem'
<1>1. /\ mem.free # <<>> /\ mem.pgdir[e] = NoPage /\ n = env_setup_vm(mem, e)
      /\ MemInv(mem, Slot, H) /\ env_status[e] = "FREE"
  BY DEF SetsUp, SlotDirs
<1> HIDE DEF d, H, n
<1>2. /\ MemInv(n, Slot, H) /\ n.ent = mem.ent
      /\ n.pgdir = [mem.pgdir EXCEPT ![e] = d] /\ Tables(n) = Tables(mem)
  BY <1>1, SetupKeeps, SlotFinite DEF d
<1>3. \A f \in Slot : env_status[f] # "FREE" => n.pgdir[f] = mem.pgdir[f]
  BY <1>1, <1>2
<1>4. Effect
  BY <1>2, <1>3, SameEntries DEF n
<1> QED
  BY <1>2, <1>4 DEF MemKept, H, n

LEMMA LosesKeeps ==
    ASSUME SchedInv, MemInv(mem, Slot, {}), Loses
    PROVE  MemKept
<1> DEFINE m == page_alloc_raw(mem)
           pp == Head(mem.free)
<1>1. mem.free # <<>> /\ mem' = m /\ mode' = "panic"
  BY DEF Loses
<1>2. m \in {page_alloc_raw(mem), page_alloc(mem)}
  OBVIOUS
<1> HIDE DEF m
<1>3. MemInv(m, Slot, {pp}) /\ InHand(mem, m, pp)
  BY <1>1, <1>2, FromList
<1>4. pp \in Page /\ m.ent = mem.ent /\ m.pgdir = mem.pgdir
  BY <1>3 DEF InHand
<1>5. Tables(m) = Tables(mem)
  BY <1>4, SameCounts
<1>6. Effect
  BY <1>1, <1>4, <1>5, SameEntries
<1> QED
  BY <1>1, <1>3, <1>4, <1>6 DEF MemKept

LEMMA GivesBackKeeps ==
    ASSUME SchedInv, MemInv(mem, Slot, {}), GivesBack
    PROVE  MemKept
<1> DEFINE m == page_alloc(mem)
           pp == Head(mem.free)
           n == page_free(m, pp)
           H == {pp}
<1>1. mem.free # <<>> /\ mem' = n
  BY DEF GivesBack
<1>2. m \in {page_alloc_raw(mem), page_alloc(mem)}
  OBVIOUS
<1> HIDE DEF m
<1>3. MemInv(m, Slot, H) /\ InHand(mem, m, pp) /\ pp \in H
  BY <1>1, <1>2, FromList
<1>4. pp \in Page /\ m.ent = mem.ent /\ m.pgdir = mem.pgdir /\ MemType(m, Slot)
  BY <1>3 DEF InHand, MemInv
<1> HIDE DEF H
<1>5. MemInv(n, Slot, H \ {pp})
  BY <1>3, FreeKeeps
<1>6. H \ {pp} = {}
  BY DEF H
<1>7. n.ent = mem.ent /\ n.pgdir = mem.pgdir
  BY <1>4 DEF page_free, MemType
<1>8. Tables(n) = Tables(mem)
  BY <1>7, SameCounts
<1> HIDE DEF n
<1>9. Effect
  BY <1>1, <1>7, <1>8, SameEntries
<1> QED
  BY <1>1, <1>5, <1>6, <1>9 DEF MemKept

\* Every step keeps memory right.
LEMMA MemInvStep ==
    ASSUME SchedInv, Loading, SlotDirs, MemInv(mem, Slot, {}), Cr3OK, NoWrap',
           ~Stray, MemStep
    PROVE  MemKept
<1>1. CASE Still
  <2>1. mem' = mem
    BY <1>1 DEF Still
  <2>2. Effect
    BY <2>1, SameEntries
  <2> QED
    BY <2>1, <2>2 DEF MemKept
<1>2. CASE MapsStep
  BY <1>2, LoadsKeeps, AllocsKeeps, SharesKeeps DEF MapsStep
<1>3. CASE FreesStep
  BY <1>3, RemovesKeeps, PrunesKeeps, TearsDownKeeps DEF FreesStep
<1>4. CASE \E d \in {cr3, Pgdir(curenv)}, F \in SUBSET VA : Writes(d, F)
  BY <1>4, WritesKeeps
<1>5. CASE \E e \in Slot : SetsUp(e)
  BY <1>5, SetsUpKeeps
<1> QED
  BY <1>1, <1>2, <1>3, <1>4, <1>5, LosesKeeps, GivesBackKeeps DEF MemStep
\* Directories in use stay where they are, but for the one env_free gives back.
DirsKept ==
    \A f \in Slot : env_status[f] # "FREE"
        => mem'.pgdir[f] = mem.pgdir[f] \/ TearsDown(f)

\* The processor's directory after a step.
LEMMA Cr3Kept ==
    ASSUME KernInv, Shape(mem), Cr3OK, MemType(mem', Slot), SlotDirs', DirsKept,
           Cr3Step
    PROVE  Cr3OK'
<1>1. /\ MemType(mem, Slot) /\ SchedInv /\ SlotDirs /\ VictimReachable
      /\ mem.pgdir \in [Slot -> Page \cup {NoPage}] /\ DOMAIN mem.pgdir = Slot
      /\ mem'.pgdir \in [Slot -> Page \cup {NoPage}]
  BY TypeFacts DEF KernInv, TypeOK, MemType
<1>2. /\ \A q : q \in Dirs(mem) <=> q # NoPage /\ \E e \in Slot : mem.pgdir[e] = q
      /\ \A q : q \in Dirs(mem') <=> q # NoPage /\ \E e \in Slot : mem'.pgdir[e] = q
  BY <1>1, DirFacts
<1>3. \A e \in Slot : env_status[e] # "FREE" <=> mem.pgdir[e] # NoPage
  BY <1>1 DEF SlotDirs
<1>4. /\ mode = "user" => curenv \in Slot /\ env_status[curenv] # "FREE"
      /\ NoEnv \notin Slot
      /\ victim # NoEnv => mode = "user" /\ victim \in Slot /\ env_status[victim] # "FREE"
  BY <1>1, ReachableInUse, NENVAssumption
     DEF SchedInv, SchedTypeOK, OneRunning, VictimReachable, Slot, NoEnv
<1>5. CASE KeepsCr3
  <2>1. \A f \in Slot : env_status[f] # "FREE" => mem'.pgdir[f] = mem.pgdir[f]
    BY <1>4, <1>5 DEF DirsKept, KeepsCr3, TearsDown
  <2>2. cr3 \in Dirs(mem') \cup {NoPage}
    BY <1>2, <1>3, <2>1 DEF Cr3OK
  <2>3. Trap' => Trap
    BY <1>5 DEF KeepsCr3, Trap
  <2> QED
    BY <1>4, <1>5, <2>1, <2>2, <2>3 DEF KeepsCr3, Cr3OK, Trap
<1>6. CASE LeavesCr3
  <2>1. victim' \in Slot /\ env_status[victim'] # "FREE" /\ mode = "user"
    BY <1>1, <1>6, ReachableInUse DEF LeavesCr3, Trap
  <2>2. cr3' # mem.pgdir[victim']
    <3>1. CASE victim' = curenv
      BY <1>3, <1>6, <2>1, <3>1 DEF LeavesCr3
    <3>2. CASE victim' # curenv
      <4>1. cr3' = mem.pgdir[curenv]
        BY <1>6, <3>2 DEF LeavesCr3, Cr3OK
      <4> QED
        BY <1>1, <1>3, <1>4, <2>1, <3>2, <4>1 DEF Shape, OwnDir
    <3> QED
      BY <3>1, <3>2
  <2>3. ~Trap' /\ mem' = mem /\ (cr3' = cr3 \/ cr3' = NoPage)
    BY <1>4, <1>6, <2>1 DEF LeavesCr3, Trap
  <2> QED
    BY <2>2, <2>3 DEF Cr3OK
<1>7. CASE SwitchesCr3
  <2>1. CASE mode' = "user"
    <3>1. curenv' \in Slot /\ cr3' = mem'.pgdir[curenv'] /\ cr3' # NoPage
      BY <1>7, <2>1 DEF SwitchesCr3, SlotDirs
    <3>2. cr3' \in Dirs(mem')
      BY <1>2, <3>1
    <3> QED
      BY <1>7, <3>1, <3>2 DEF SwitchesCr3, Cr3OK
  <2>2. CASE mode' # "user"
    <3>1. cr3' = cr3 /\ victim' = NoEnv /\ ~Trap'
      BY <1>7, <2>2 DEF SwitchesCr3, Trap
    <3>2. cr3 \in Dirs(mem') \cup {NoPage}
      <4>1. CASE mem' = mem
        BY <4>1 DEF Cr3OK
      <4>2. CASE victim # NoEnv /\ TearsDown(victim)
        <5>1. ASSUME NEW e \in Slot, mem.pgdir[e] = cr3, cr3 # NoPage
              PROVE  mem'.pgdir[e] = cr3
          <6>1. env_status[e] # "FREE" /\ e # victim
            BY <1>3, <4>2, <5>1 DEF Cr3OK
          <6> QED
            BY <5>1, <6>1 DEF DirsKept, TearsDown
        <5> QED
          BY <1>2, <5>1 DEF Cr3OK
      <4> QED
        BY <1>7, <4>1, <4>2 DEF SwitchesCr3, Settled
    <3> QED
      BY <3>1, <3>2 DEF Cr3OK
  <2> QED
    BY <2>1, <2>2
<1>8. CASE BootsCr3
  <2>1. ~Trap' /\ victim' = NoEnv
    BY <1>8 DEF BootsCr3, Trap
  <2>2. ASSUME NEW e \in Slot, SetsUp(e), cr3' = Head(mem.free)
        PROVE  cr3' \in Dirs(mem')
    <3>1. mem'.pgdir = [mem.pgdir EXCEPT ![e] = cr3'] /\ cr3' \in Page
      BY <1>1, <2>2, TypeSetup, TypeAlloc DEF SetsUp
    <3>2. mem'.pgdir[e] = cr3' /\ cr3' # NoPage
      BY <1>1, <3>1 DEF Page, NoPage
    <3> QED
      BY <1>2, <3>2
  <2> QED
    BY <1>8, <2>1, <2>2 DEF BootsCr3, Cr3OK
<1> QED
  BY <1>5, <1>6, <1>7, <1>8 DEF Cr3Step

\* After a panic nothing moves.
LEMMA PanicStays ==
    ASSUME [SchedNext]_envVars, MemStep, mode = "panic"
    PROVE  mem' = mem /\ mode' = "panic"
<1>1. UNCHANGED envVars
  BY DEF SchedNext, env_create, boot_panic, i386_init, sys_exofork,
         sys_env_set_status, timer, destroy, kernel_panic, resume
<1>2. CASE \E e \in Slot : SetsUp(e)
  BY <1>1, <1>2 DEF SetsUp, envVars
<1> QED
  BY <1>1, <1>2 DEF envVars, MemStep, MapsStep, FreesStep, Still, Loads, Loses, Allocs,
         GivesBack, Shares, Removes, Prunes, TearsDown, Writes, Trap

MemoryInv == KernInv /\ MemOK /\ Cr3OK

LEMMA MemoryInvInit == Init => MemoryInv
<1> SUFFICES ASSUME Init PROVE MemoryInv
  OBVIOUS
<1> DEFINE H == {}
<1>1. MemInv(mem, Slot, H)
  BY InitKeeps, SlotFinite DEF Init
<1>2. H \in SUBSET Page /\ (mode # "panic" => H = {})
  OBVIOUS
<1> HIDE DEF H
<1>3. MemOK
  BY <1>1, <1>2 DEF MemOK
<1>4. Cr3OK
  BY DEF Init, env_init, Cr3OK, Trap
<1> QED
  BY <1>3, <1>4, KernInvInit DEF MemoryInv

\* A step from a good state that is not a panic.
LEMMA GoodStep ==
    ASSUME ~Stray, MemoryInv, [Next]_vars, NoWrap', mode # "panic"
    PROVE  MemInv(mem, Slot, {}) /\ MemKept
<1>1. MemInv(mem, Slot, {})
  BY DEF MemoryInv, MemOK
<1>2. MemStep
  BY StepMem DEF MemoryInv, KernInv, TypeOK, AtType
<1> QED
  BY <1>1, <1>2, MemInvStep DEF MemoryInv, KernInv

LEMMA MemoryInvNext ==
    ASSUME ~Stray
    PROVE  MemoryInv /\ NoWrap' /\ [Next]_vars => MemoryInv'
<1> SUFFICES ASSUME MemoryInv, NoWrap', [Next]_vars PROVE MemoryInv'
  OBVIOUS
<1>1. KernInv /\ KernInv'
  BY KernInvNext DEF MemoryInv
<1>2. MemStep /\ RestStep /\ [SchedNext]_envVars
  BY <1>1, StepMem, StepRest, StepImplements DEF KernInv, TypeOK, AtType
<1>3. PICK H \in SUBSET Page : MemInv(mem, Slot, H) /\ (mode # "panic" => H = {})
  BY DEF MemoryInv, MemOK
<1>4. MemType(mem', Slot) /\ SlotDirs' /\ Shape(mem)
  BY <1>1, <1>3 DEF KernInv, TypeOK, MemType, MemInv
<1>5. MemOK' /\ DirsKept
  <2>1. CASE mode = "panic"
    <3>1. mem' = mem /\ mode' = "panic"
      BY <1>2, <2>1, PanicStays
    <3> QED
      BY <1>3, <3>1 DEF MemOK, DirsKept
  <2>2. CASE mode # "panic"
    <3>1. MemKept
      BY <2>2, GoodStep
    <3>2. MemOK'
      <4>1. CASE MemInv(mem', Slot, {})
        BY <4>1 DEF MemOK
      <4>2. ASSUME NEW q \in Page, MemInv(mem', Slot, {q}), mode' = "panic"
            PROVE  MemOK'
        <5>1. {q} \in SUBSET Page
          OBVIOUS
        <5> QED
          BY <4>2, <5>1 DEF MemOK
      <4> QED
        BY <3>1, <4>1, <4>2 DEF MemKept
    <3>3. DirsKept
      BY <3>1 DEF MemKept, Effect, Elsewhere, DirsKept
    <3> QED
      BY <3>2, <3>3
  <2> QED
    BY <2>1, <2>2
<1>6. Cr3OK'
  BY <1>1, <1>2, <1>4, <1>5, Cr3Kept DEF RestStep, MemoryInv
<1> QED
  BY <1>1, <1>5, <1>6 DEF MemoryInv

-----------------------------------------------------------------------------
(* What the invariant says.                                                *)

LEMMA MemoryInvMeans ==
    MemoryInv => RefExact /\ FreeExact /\ TablesExclusive /\ Cr3Valid
<1> SUFFICES ASSUME MemoryInv
             PROVE  RefExact /\ FreeExact /\ TablesExclusive /\ Cr3Valid
  OBVIOUS
<1>1. PICK H \in SUBSET Page : MemInv(mem, Slot, H) /\ (mode # "panic" => H = {})
  BY DEF MemoryInv, MemOK
<1>2. MemType(mem, Slot) /\ Shape(mem) /\ Counts(mem) /\ Listed(mem, H)
  BY <1>1 DEF MemInv
<1>3. RefExact
  BY <1>2 DEF RefExact, Counts, RefCount
<1>4. FreeExact
  <2>1. IsInjective(mem.free) /\ \A q \in Page : mem.ref[q] = 0 <=> q \in OnList(mem) \cup H
    BY <1>2 DEF Listed
  <2>2. OnList(mem) \subseteq Page
    BY <1>1, FreeFacts, SlotFinite
  <2> QED
    BY <1>1, <2>1, <2>2 DEF FreeExact
<1>5. TablesExclusive
  <2>0. InTree(mem) /\ UserPdx \subseteq Idx
    BY <1>2, TypeInTree DEF Idx
  <2>1. ASSUME NEW q \in Dirs(mem)
        PROVE  EntRefs(mem, q) = {} /\ Cardinality(DirRefs(mem, q)) = 1
    <3>1. EntRefs(mem, q) = {}
      BY <1>2 DEF EntRefs, Shape, Placed
    <3>2. PICK e \in Slot : mem.pgdir[e] = q /\ q # NoPage
      BY <1>2, DirFacts
    <3>3. DOMAIN mem.pgdir = Slot
      BY <1>2, TypeFacts
    <3>4. DirRefs(mem, q) = {e}
      BY <1>2, <3>2, <3>3 DEF DirRefs, Shape, OwnDir
    <3> QED
      BY <3>1, <3>4, FS_Singleton
  <2>2. ASSUME NEW q \in Tables(mem)
        PROVE  Cardinality(EntRefs(mem, q)) = 1
    <3>1. PICK d \in Dirs(mem), i \in UserPdx : mem.ent[d][i].p /\ mem.ent[d][i].pp = q
      BY <1>2, TableFacts
    <3>2. d \in Page /\ i \in Idx
      BY <2>0 DEF InTree
    <3>3. \A x \in EntRefs(mem, q) : x = <<d, i>>
      BY <1>2, <3>1, <3>2 DEF EntRefs, Shape, OneEntry
    <3>4. <<d, i>> \in EntRefs(mem, q)
      BY <3>1, <3>2 DEF EntRefs
    <3>5. EntRefs(mem, q) = {<<d, i>>}
      BY <3>3, <3>4
    <3> QED
      BY <3>5, FS_Singleton
  <2> QED
    BY <1>2, <2>1, <2>2 DEF TablesExclusive, Shape, Unwritten
<1>6. Cr3Valid
  BY DEF MemoryInv, KernInv, SlotDirs, Cr3OK, Cr3Valid
<1> QED
  BY <1>3, <1>4, <1>5, <1>6

\* The invariant holds throughout when programs name only addresses where
\* something is mapped, as those of lib/ and user/ do, and as long as no page has
\* more references than pp_ref can count.
LEMMA MemoryInvAlways ==
    ASSUME ~Stray
    PROVE  Spec /\ []NoWrap => []MemoryInv
<1>1. Init => MemoryInv
  BY MemoryInvInit
<1>2. MemoryInv /\ NoWrap' /\ [Next]_vars => MemoryInv'
  BY MemoryInvNext
<1> QED
  BY <1>1, <1>2, PTL DEF Spec

\* For every size of memory: whatever page_insert, page_remove, pgdir_walk,
\* env_setup_vm and env_free do, pp_ref stays the number of references to the page.
THEOREM KernelRefs ==
    ASSUME ~Stray
    PROVE  Spec /\ []NoWrap => []RefExact
<1>1. Spec /\ []NoWrap => []MemoryInv
  BY MemoryInvAlways
<1>2. MemoryInv => RefExact
  BY MemoryInvMeans
<1> QED
  BY <1>1, <1>2, PTL

\* For every size of memory: the free list holds exactly the pages without
\* references, each once, so that page_alloc never hands out a page in use and
\* page_decref loses none; only a panic may leave one page in nobody's hands.
THEOREM KernelFreeList ==
    ASSUME ~Stray
    PROVE  Spec /\ []NoWrap => []FreeExact
<1>1. Spec /\ []NoWrap => []MemoryInv
  BY MemoryInvAlways
<1>2. MemoryInv => FreeExact
  BY MemoryInvMeans
<1> QED
  BY <1>1, <1>2, PTL

\* For every size of memory: a directory has one environment, a table one
\* directory entry, and neither is mapped in an address space or written by a
\* program.
THEOREM KernelTables ==
    ASSUME ~Stray
    PROVE  Spec /\ []NoWrap => []TablesExclusive
<1>1. Spec /\ []NoWrap => []MemoryInv
  BY MemoryInvAlways
<1>2. MemoryInv => TablesExclusive
  BY MemoryInvMeans
<1> QED
  BY <1>1, <1>2, PTL

\* For every size of memory: the slots in use are those with a directory, and
\* lcr3 is never left pointing to a directory that env_free has given back or is
\* taking apart.
THEOREM KernelCr3 ==
    ASSUME ~Stray
    PROVE  Spec /\ []NoWrap => []Cr3Valid
<1>1. Spec /\ []NoWrap => []MemoryInv
  BY MemoryInvAlways
<1>2. MemoryInv => Cr3Valid
  BY MemoryInvMeans
<1> QED
  BY <1>1, <1>2, PTL

\* The hypothesis about the counts follows when pp_ref is wider than the number
\* of entries and directories there can be.
THEOREM NoWrapSmall ==
    ASSUME RefMod > NPAGES * Cardinality(Idx) + NENV + 1
    PROVE  Spec => []NoWrap
<1>1. KernInv => NoWrap
  <2> SUFFICES ASSUME KernInv, NEW q \in Page PROVE RefCount(mem, q) < RefMod
    BY DEF NoWrap
  <2>1. MemType(mem, Slot)
    BY DEF KernInv, TypeOK, MemType
  <2>2. EntRefs(mem, q) \in SUBSET (Page \X Idx) /\ DirRefs(mem, q) \in SUBSET Slot
    BY <2>1, TypeFacts DEF EntRefs, DirRefs
  <2>3. IsFiniteSet(Page) /\ IsFiniteSet(Idx)
    <3>1. IsFiniteSet(Page) /\ IsFiniteSet(UserPdx) /\ IsFiniteSet(UserPtx)
      BY FS_Interval, NPAGESAssumption, UTOPXAssumption, NPTENTRIESAssumption
         DEF Page, UserPdx, UserPtx
    <3> QED
      BY <3>1, FS_Union DEF Idx
  <2>4. Cardinality(Page) = NPAGES /\ Cardinality(Slot) = NENV
    BY FS_Interval, NPAGESAssumption, NENVAssumption DEF Page, Slot
  <2>5. Cardinality(Page \X Idx) = NPAGES * Cardinality(Idx)
    BY <2>3, <2>4, FS_Product
  <2>6. /\ Cardinality(EntRefs(mem, q)) <= Cardinality(Page \X Idx)
        /\ Cardinality(DirRefs(mem, q)) <= Cardinality(Slot)
    BY <2>2, FinitePages, SlotFinite, FS_Subset
  <2>7. /\ Cardinality(EntRefs(mem, q)) \in Nat /\ Cardinality(DirRefs(mem, q)) \in Nat
        /\ Cardinality(Page \X Idx) \in Nat
    BY <2>1, RefsFinite, SlotFinite, FinitePages, FS_CardinalityType
  <2> DEFINE a == Cardinality(EntRefs(mem, q))
             b == Cardinality(DirRefs(mem, q))
             c == NPAGES * Cardinality(Idx)
  <2>8. /\ a \in Nat /\ b \in Nat /\ c \in Nat /\ a <= c /\ b <= NENV
        /\ RefMod > c + NENV + 1
    BY <2>4, <2>5, <2>6, <2>7
  <2>9. RefCount(mem, q) = a + b + IF q = 0 THEN 1 ELSE 0
    BY DEF RefCount
  <2> HIDE DEF a, b, c
  <2> QED
    BY <2>8, <2>9, RefModAssumption, NENVAssumption
<1> QED
  BY <1>1, KernInvInit, KernInvNext, PTL DEF Spec

-----------------------------------------------------------------------------
(* What a step may do.                                                     *)

LEMMA SameSpace ==
    ASSUME NEW m, NEW n, NEW c, NEW va \in VA, n.ent[c] = m.ent[c],
           \A i \in UserPdx : m.ent[c][i].p
              => n.ent[m.ent[c][i].pp] = m.ent[m.ent[c][i].pp]
    PROVE  /\ IsMapped(n, c, va) = IsMapped(m, c, va)
           /\ IsMapped(m, c, va) => PteOf(n, c, va) = PteOf(m, c, va)
<1>1. PDX(va) \in UserPdx
  BY DEF VA, PDX
<1>2. HasTable(n, c, va) = HasTable(m, c, va) /\ TableOf(n, c, va) = TableOf(m, c, va)
  BY DEF HasTable, TableOf
<1>3. HasTable(m, c, va) => PteOf(n, c, va) = PteOf(m, c, va)
  BY <1>1, <1>2 DEF HasTable, TableOf, PteOf
<1> QED
  BY <1>2, <1>3 DEF IsMapped

LEMMA IsolationStep ==
    ASSUME ~Stray, MemoryInv, [Next]_vars, NoWrap', NEW e \in Slot, mode = "user",
           e # curenv, env_parent_id[e] # env_id[curenv], env_status[e] # "FREE"
    PROVE  AddressSpace(mem', e) = AddressSpace(mem, e)
<1>1. MemInv(mem, Slot, {}) /\ Effect
  BY GoodStep DEF MemKept
<1>2. SchedInv /\ VictimReachable /\ SlotDirs /\ e \notin Reachable
  BY ReachableIsChild DEF MemoryInv, KernInv
<1>3. PICK r \in Reachable : Apart(mem, mem', Pgdir(r))
  BY <1>1 DEF Effect, Elsewhere
<1>4. mem'.pgdir[e] = mem.pgdir[e]
  <2>1. ASSUME TearsDown(e) PROVE FALSE
    <3>1. victim = e /\ e # NoEnv
      BY <2>1, NENVAssumption DEF TearsDown, Slot, NoEnv
    <3> QED
      BY <1>2, <3>1 DEF VictimReachable
  <2> QED
    BY <1>1, <2>1 DEF Effect, Elsewhere
<1> DEFINE c == mem.pgdir[e]
<1>5. r \in Slot /\ r # e /\ env_status[r] # "FREE"
  BY <1>2, ReachableInUse
<1>6. c \in Dirs(mem) \ {Pgdir(r)}
  <2>1. MemType(mem, Slot) /\ OwnDir(mem) /\ DOMAIN mem.pgdir = Slot
    BY <1>1, TypeFacts DEF MemInv, Shape
  <2>2. c \in Dirs(mem) /\ c # NoPage
    BY <1>2, <2>1, DirInUse DEF SlotDirs, Pgdir
  <2> QED
    BY <1>5, <2>1, <2>2 DEF OwnDir, Pgdir
<1>7. /\ mem'.ent[c] = mem.ent[c]
      /\ \A i \in UserPdx : mem.ent[c][i].p
            => mem'.ent[mem.ent[c][i].pp] = mem.ent[mem.ent[c][i].pp]
  BY <1>3, <1>6 DEF Apart
<1> HIDE DEF c
<1>8. \A va \in VA : /\ IsMapped(mem', c, va) = IsMapped(mem, c, va)
                     /\ IsMapped(mem, c, va) => PteOf(mem', c, va) = PteOf(mem, c, va)
  BY <1>7, SameSpace
<1>9. \A va \in VA :
         (IF c # NoPage /\ IsMapped(mem', c, va) THEN PteOf(mem', c, va) ELSE Absent)
         = (IF c # NoPage /\ IsMapped(mem, c, va) THEN PteOf(mem, c, va) ELSE Absent)
  BY <1>8
<1>10. mem.pgdir[e] = c /\ mem'.pgdir[e] = c
  BY <1>4 DEF c
<1> QED
  BY <1>9, <1>10 DEF AddressSpace

\* The pages mapped after a step, and those mapped writable, were mapped, or
\* writable, before, or come from the free list.
LEMMA WhereMapped ==
    ASSUME MemInv(mem, Slot, {}), Effect, NEW q
    PROVE  /\ q \in UserPages(mem') =>
                 q \in UserPages(mem) \/ (q \in OnList(mem) /\ (mode = "user" => q \notin mem'.dirty))
           /\ q \in WritablePages(mem') =>
                 q \in WritablePages(mem) \/ q \in OnList(mem)
           /\ ~(q \in UserPages(mem) /\ q \in OnList(mem))
<1>1. \A m : /\ q \in UserPages(m) <=>
                   \E t \in Tables(m), k \in UserPtx : m.ent[t][k].p /\ m.ent[t][k].pp = q
             /\ q \in WritablePages(m) <=>
                   \E t \in Tables(m), k \in UserPtx :
                       m.ent[t][k].p /\ m.ent[t][k].w /\ m.ent[t][k].pp = q
  <2> SUFFICES ASSUME NEW m
               PROVE  /\ q \in UserPages(m) <=>
                            \E t \in Tables(m), k \in UserPtx :
                                m.ent[t][k].p /\ m.ent[t][k].pp = q
                      /\ q \in WritablePages(m) <=>
                            \E t \in Tables(m), k \in UserPtx :
                                m.ent[t][k].p /\ m.ent[t][k].w /\ m.ent[t][k].pp = q
    OBVIOUS
  <2>1. \A x : x \in UserEntries(m)
                 <=> \E t \in Tables(m), k \in UserPtx : x = m.ent[t][k]
    <3>1. ASSUME NEW t \in Tables(m), NEW k \in UserPtx
          PROVE  m.ent[t][k] \in UserEntries(m)
      <4>1. <<t, k>> \in Tables(m) \X UserPtx
        OBVIOUS
      <4> QED
        BY <4>1 DEF UserEntries
    <3>2. ASSUME NEW x \in UserEntries(m)
          PROVE  \E t \in Tables(m), k \in UserPtx : x = m.ent[t][k]
      BY DEF UserEntries
    <3> QED
      BY <3>1, <3>2
  <2>2. q \in UserPages(m) <=> \E x \in UserEntries(m) : x.p /\ x.pp = q
    BY DEF UserPages
  <2>3. q \in WritablePages(m) <=> \E x \in UserEntries(m) : x.p /\ x.w /\ x.pp = q
    BY DEF WritablePages
  <2> QED
    BY <2>1, <2>2, <2>3
<1>2. ~(q \in UserPages(mem) /\ q \in OnList(mem))
  <2>1. ASSUME NEW t \in Tables(mem), NEW k \in UserPtx, mem.ent[t][k].p,
               mem.ent[t][k].pp \in OnList(mem)
        PROVE  FALSE
    <3>1. Unnamed(mem, mem.ent[t][k].pp) /\ MemType(mem, Slot)
      BY <2>1, FreeFacts, SlotFinite DEF MemInv
    <3>2. t \in Page /\ k \in Idx
      BY <3>1, TableFacts DEF Idx
    <3> QED
      BY <2>1, <3>1, <3>2 DEF Unnamed
  <2> QED
    BY <1>1, <2>1
<1>3. CASE KeepsEntries(mem, mem')
  BY <1>1, <1>2, <1>3 DEF KeepsEntries
<1>4. ASSUME NEW pp \in Page, NEW w \in BOOLEAN, Adds(pp, w), Fresh(pp) \/ Mapped(pp, w)
      PROVE  /\ q \in UserPages(mem') =>
                   q \in UserPages(mem) \/ (q \in OnList(mem) /\ (mode = "user" => q \notin mem'.dirty))
             /\ q \in WritablePages(mem') =>
                   q \in WritablePages(mem) \/ q \in OnList(mem)
  <2>1. Present(pp, w).pp = pp /\ Present(pp, w).w = w
    BY DEF Present
  <2>2. ASSUME NEW t \in Tables(mem'), NEW k \in UserPtx, mem'.ent[t][k].p,
               mem'.ent[t][k].pp = q
        PROVE  /\ q \in UserPages(mem) \/ (q \in OnList(mem) /\ (mode = "user" => q \notin mem'.dirty))
               /\ mem'.ent[t][k].w => q \in WritablePages(mem) \/ q \in OnList(mem)
    <3>1. CASE t \in Tables(mem) /\ mem'.ent[t][k] = mem.ent[t][k]
      BY <1>1, <2>2, <3>1
    <3>2. CASE mem'.ent[t][k] = Present(pp, w)
      <4>1. q = pp /\ (mem'.ent[t][k].w <=> w)
        BY <2>1, <2>2, <3>2
      <4>2. CASE Fresh(pp)
        BY <4>1, <4>2 DEF Fresh
      <4>3. CASE Mapped(pp, w)
        BY <1>1, <4>1, <4>3 DEF Mapped
      <4> QED
        BY <1>4, <4>2, <4>3
    <3> QED
      BY <1>4, <2>2, <3>1, <3>2 DEF Adds
  <2> QED
    BY <1>1, <2>2
<1> QED
  BY <1>2, <1>3, <1>4 DEF Effect, MapEffect

-----------------------------------------------------------------------------
(* Calls that fail for want of memory.                                     *)

\* A call that ends with -E_NO_MEM.
NoMemOutcome ==
    /\ Len(mem.free) <= 1
    /\ UNCHANGED <<envVars, upcall, cr3, victim>>
    /\ \/ mem' = mem
       \/ mem.free # <<>> /\ mem' = page_free(page_alloc(mem), Head(mem.free))

LEMMA OtherErrors ==
    ASSUME NEW error \in {"none", "E_BAD_ENV", "E_INVAL", "E_NO_FREE_ENV"}, Return(error)
    PROVE  ~nomem'
BY DEF Return

LEMMA OtherEnds ==
    ASSUME \/ Panic \/ (\E m : Succeed(m)) \/ \E e, up : Destroy(e, up)
    PROVE  ~nomem'
BY DEF Panic, Succeed, Destroy

LEMMA EmptyList ==
    ASSUME mem.free = <<>>, Return("E_NO_MEM")
    PROVE  NoMemOutcome
<1>1. Len(mem.free) = 0
  OBVIOUS
<1> QED
  BY <1>1 DEF Return, NoMemOutcome

LEMMA AllocNoMem ==
    ASSUME ~Stray, MemType(mem, Slot), NEW e \in Target, NEW a \in PageArgs,
           sys_page_alloc(e, a[1], a[2]), nomem'
    PROVE  NoMemOutcome
<1>1. CASE \/ e = NoEnv /\ Return("E_BAD_ENV")
           \/ e # NoEnv /\ (a[1] = NoVa \/ a[2] = "bad") /\ Return("E_INVAL")
  BY <1>1, OtherErrors
<1>2. a[2] # "extra"
  BY DEF PageArgs
<1>3. CASE mem.free = <<>> /\ Return("E_NO_MEM")
  BY <1>3, EmptyList
<1>4. CASE /\ mem.free # <<>> /\ InsertFails(page_alloc(mem), Pgdir(e), a[1])
           /\ mem' = InsertFailed(page_alloc(mem), Head(mem.free))
           /\ UNCHANGED <<envVars, upcall, cr3, victim, at, loading>>
  <2>1. mem.free \in Seq(Page)
    BY TypeFacts
  <2>2. page_alloc(mem).free = Tail(mem.free)
    BY TypeFacts DEF page_alloc, page_alloc_raw, MemType
  <2>3. Tail(mem.free) = <<>>
    BY <1>4, <2>2 DEF InsertFails
  <2>4. \A s : s = <<>> => Len(s) = 0
    OBVIOUS
  <2>5. Len(Tail(mem.free)) = Len(mem.free) - 1 /\ Len(mem.free) \in Nat
    BY <1>4, <2>1
  <2>6. Len(mem.free) <= 1
    <3> DEFINE t == Tail(mem.free)
    <3>1. Len(t) = 0
      <4>1. t = <<>>
        BY <2>3
      <4> HIDE DEF t
      <4> QED
        BY <2>4, <4>1
    <3> DEFINE k == Len(t)
               l == Len(mem.free)
    <3>2. k = 0 /\ k = l - 1 /\ l \in Nat
      BY <2>5, <3>1
    <3> HIDE DEF k, l
    <3>3. l <= 1
      BY <3>2
    <3> QED
      BY <3>3 DEF l
  <2> QED
    BY <1>4, <2>6 DEF InsertFailed, NoMemOutcome
<1>5. CASE \E m : Succeed(m)
  BY <1>5, OtherEnds
<1> QED
  BY <1>1, <1>2, <1>3, <1>4, <1>5 DEF sys_page_alloc

LEMMA MapNoMem ==
    ASSUME NEW src, NEW sva, NEW dst, NEW dva, NEW perm,
           sys_page_map(src, sva, dst, dva, perm), nomem'
    PROVE  NoMemOutcome
<1>1. CASE Return("E_BAD_ENV") \/ Return("E_INVAL")
  BY <1>1, OtherErrors
<1>2. CASE \E m : Succeed(m)
  BY <1>2, OtherEnds
<1>3. CASE InsertFails(mem, Pgdir(dst), dva) /\ Return("E_NO_MEM")
  BY <1>3, EmptyList DEF InsertFails
<1> QED
  BY <1>1, <1>2, <1>3 DEF sys_page_map

LEMMA TrapNoMem ==
    ASSUME ~Stray, MemType(mem, Slot), TrapNext, nomem'
    PROVE  NoMemOutcome
<1>1. CASE \/ ktimer
           \/ unexpected_trap
           \/ syscall_panic
           \/ \E va \in VA : user_store(va)
  BY <1>1, OtherEnds DEF ktimer, unexpected_trap, syscall_panic, user_store
<1>2. CASE \E va \in VA : \E two \in Two(va) : sys_cputs(va, two)
  BY <1>2, OtherEnds, OtherErrors DEF sys_cputs
<1>3. CASE \E e \in Target : sys_env_destroy(e)
  BY <1>3, OtherEnds, OtherErrors DEF sys_env_destroy
<1>4. CASE ksys_exofork
  BY <1>4, EmptyList, OtherErrors DEF ksys_exofork
<1>5. CASE \E e \in Target, status \in Status : ksys_env_set_status(e, status)
  BY <1>5, OtherErrors DEF ksys_env_set_status
<1>6. CASE \/ \E e \in Target, va \in VA : \E two \in Two(va) :
                 sys_env_set_pgfault_upcall(e, FALSE, va, two)
           \/ \E e \in Target :
                 sys_env_set_pgfault_upcall(e, TRUE, <<0, 0>>, FALSE)
  BY <1>6, OtherEnds, OtherErrors DEF sys_env_set_pgfault_upcall
<1>7. CASE \E e \in Target, a \in PageArgs : sys_page_alloc(e, a[1], a[2])
  BY <1>7, AllocNoMem
<1>8. CASE \E a \in MapArgs : sys_page_map(a[1], a[2], a[3], a[4], a[5])
  BY <1>8, MapNoMem
<1>9. CASE \E e \in Target, va \in VA \cup {NoVa} : sys_page_unmap(e, va)
  BY <1>9, OtherEnds, OtherErrors DEF sys_page_unmap
<1>10. CASE \E frame \in FramePages : page_fault_handler(frame)
  BY <1>10, OtherEnds DEF page_fault_handler
<1> QED
  BY <1>1, <1>2, <1>3, <1>4, <1>5, <1>6, <1>7, <1>8, <1>9, <1>10 DEF TrapNext

LEMMA NoMemStep ==
    ASSUME ~Stray, MemoryInv, Next, nomem', Trap
    PROVE  \/ UNCHANGED vars
           \/ /\ Len(mem.free) <= 1
              /\ UNCHANGED <<envVars, upcall, cr3, victim>>
              /\ mem' = [mem EXCEPT !.dirty = mem'.dirty]
              /\ mem.dirty \ mem'.dirty \subseteq OnList(mem)
<1>1. CASE idle
  BY <1>1 DEF idle, resume, vars
<1>2. ~BootNext /\ ~env_free
  BY DEF Trap, BootNext, kenv_create, env_create, load_segment, load_stack, region_alloc,
         kboot_panic, boot_panic, ki386_init, i386_init,
         env_free, env_free_pte, env_free_pt, env_free_skip, env_free_done, InLoop
<1>3. CASE TrapNext
  <2>0. MemType(mem, Slot) /\ MemInv(mem, Slot, {})
    BY DEF MemoryInv, KernInv, TypeOK, MemType, MemOK, Trap
  <2>1. NoMemOutcome
    BY <1>3, <2>0, TrapNoMem
  <2>2. CASE mem' = mem
    BY <2>0, <2>1, <2>2 DEF NoMemOutcome, MemType
  <2>3. CASE mem.free # <<>> /\ mem' = page_free(page_alloc(mem), Head(mem.free))
    <3> DEFINE m == page_alloc(mem)
               pp == Head(mem.free)
    <3>1. m \in {page_alloc_raw(mem), page_alloc(mem)}
      OBVIOUS
    <3> HIDE DEF m
    <3>2. MemInv(m, Slot, {pp}) /\ InHand(mem, m, pp)
      BY <2>0, <2>3, <3>1, FromList
    <3>3. MemType(m, Slot)
      BY <3>2 DEF MemInv
    <3>4. mem' = [m EXCEPT !.free = <<pp>> \o @]
      BY <2>3 DEF m, page_free
    <3>5. <<pp>> \o Tail(mem.free) = mem.free
      BY <2>0, <2>3, TypeFacts
    <3>6. /\ mem'.free = mem.free /\ mem'.ref = mem.ref /\ mem'.ent = mem.ent
          /\ mem'.pgdir = mem.pgdir /\ mem'.dirty = m.dirty /\ MemType(mem', Slot)
      <4>1. MemType(mem', Slot)
        BY <2>0, <2>3, <3>2, <3>3, TypeFree DEF m, InHand, TypeKept
      <4> QED
        BY <3>2, <3>3, <3>4, <3>5, <4>1 DEF InHand, MemType
    <3>7. mem' = [mem EXCEPT !.dirty = mem'.dirty]
      BY <2>0, <3>6 DEF MemType
    <3>8. m.dirty = mem.dirty \ {pp}
      BY <2>0, <2>3, TypeFacts DEF m, page_alloc, page_alloc_raw, MemType
    <3>9. pp \in OnList(mem)
      BY <3>2 DEF InHand
    <3> QED
      BY <2>1, <3>6, <3>7, <3>8, <3>9 DEF NoMemOutcome
  <2> QED
    BY <2>1, <2>2, <2>3 DEF NoMemOutcome
<1> QED
  BY <1>1, <1>2, <1>3 DEF Next
-----------------------------------------------------------------------------
(* The action properties.                                                  *)

LEMMA IsolationNext ==
    ASSUME ~Stray
    PROVE  MemoryInv /\ NoWrap' /\ [Next]_vars =>
             [\A e \in Slot :
                 mode = "user" /\ e # curenv /\ env_parent_id[e] # env_id[curenv]
                 /\ env_status[e] # "FREE"
                 => AddressSpace(mem', e) = AddressSpace(mem, e)]_vars
BY IsolationStep

\* For every size of memory: no step taken while an environment runs changes the
\* translation of an address of one that is neither the running one nor its
\* child, not through a system call, env_free, or a page handed on by the
\* allocator.
THEOREM KernelIsolation ==
    ASSUME ~Stray
    PROVE  Spec /\ []NoWrap => Isolation
<1>1. Spec /\ []NoWrap => []MemoryInv
  BY MemoryInvAlways
<1>2. MemoryInv /\ NoWrap' /\ [Next]_vars =>
             [\A e \in Slot :
                 mode = "user" /\ e # curenv /\ env_parent_id[e] # env_id[curenv]
                 /\ env_status[e] # "FREE"
                 => AddressSpace(mem', e) = AddressSpace(mem, e)]_vars
  BY IsolationNext
<1> QED
  BY <1>1, <1>2, PTL DEF Spec, Isolation

LEMMA EscalationNext ==
    ASSUME ~Stray
    PROVE  MemoryInv /\ NoWrap' /\ [Next]_vars =>
             [(UserPages(mem) \ WritablePages(mem)) \cap WritablePages(mem') = {}]_vars
<1> SUFFICES ASSUME MemoryInv, NoWrap', [Next]_vars
             PROVE  (UserPages(mem) \ WritablePages(mem)) \cap WritablePages(mem') = {}
  OBVIOUS
<1>1. CASE mode = "panic"
  <2>1. mem' = mem
    <3>1. MemStep
      BY StepMem DEF MemoryInv, KernInv, TypeOK, AtType
    <3>2. [SchedNext]_envVars
      BY StepImplements DEF MemoryInv, KernInv
    <3> QED
      BY <1>1, <3>1, <3>2, PanicStays
  <2> QED
    BY <2>1
<1>2. CASE mode # "panic"
  <2>1. MemInv(mem, Slot, {}) /\ Effect
    BY <1>2, GoodStep DEF MemKept
  <2> QED
    BY <2>1, WhereMapped
<1> QED
  BY <1>1, <1>2

\* For every size of memory: while a page is mapped and nowhere writable, no
\* step makes it writable; the PTE_W check of sys_page_map is enough.
THEOREM KernelNoWriteEscalation ==
    ASSUME ~Stray
    PROVE  Spec /\ []NoWrap => NoWriteEscalation
<1>1. Spec /\ []NoWrap => []MemoryInv
  BY MemoryInvAlways
<1>2. MemoryInv /\ NoWrap' /\ [Next]_vars =>
         [(UserPages(mem) \ WritablePages(mem)) \cap WritablePages(mem') = {}]_vars
  BY EscalationNext
<1> QED
  BY <1>1, <1>2, PTL DEF Spec, NoWriteEscalation

LEMMA ResidueNext ==
    ASSUME ~Stray
    PROVE  MemoryInv /\ NoWrap' /\ [Next]_vars =>
             [mode = "user" => OnList(mem) \cap UserPages(mem') \cap mem'.dirty = {}]_vars
<1> SUFFICES ASSUME MemoryInv, NoWrap', [Next]_vars, mode = "user"
             PROVE  OnList(mem) \cap UserPages(mem') \cap mem'.dirty = {}
  OBVIOUS
<1>1. MemInv(mem, Slot, {}) /\ Effect
  BY GoodStep DEF MemKept
<1> QED
  BY <1>1, WhereMapped

\* For every size of memory: a page that a system call takes from the free list
\* and maps holds nothing another program wrote.
THEOREM KernelNoResidue ==
    ASSUME ~Stray
    PROVE  Spec /\ []NoWrap => NoResidue
<1>1. Spec /\ []NoWrap => []MemoryInv
  BY MemoryInvAlways
<1>2. MemoryInv /\ NoWrap' /\ [Next]_vars =>
         [mode = "user" => OnList(mem) \cap UserPages(mem') \cap mem'.dirty = {}]_vars
  BY ResidueNext
<1> QED
  BY <1>1, <1>2, PTL DEF Spec, NoResidue

LEMMA NoMemNext ==
    ASSUME ~Stray
    PROVE  MemoryInv /\ [Next]_vars =>
             [nomem' /\ Trap =>
                /\ Len(mem.free) <= 1
                /\ UNCHANGED <<envVars, upcall, cr3, victim>>
                /\ mem' = [mem EXCEPT !.dirty = mem'.dirty]
                /\ mem.dirty \ mem'.dirty \subseteq OnList(mem)]_vars
BY NoMemStep

\* For every size of memory: a call that returns -E_NO_MEM found at most one
\* free page and has changed nothing, but that this page may have been cleared
\* and put back.
THEOREM KernelNoMem ==
    ASSUME ~Stray
    PROVE  Spec /\ []NoWrap => NoMemChangesNothing
<1>1. Spec /\ []NoWrap => []MemoryInv
  BY MemoryInvAlways
<1>2. MemoryInv /\ [Next]_vars =>
         [nomem' /\ Trap =>
            /\ Len(mem.free) <= 1
            /\ UNCHANGED <<envVars, upcall, cr3, victim>>
            /\ mem' = [mem EXCEPT !.dirty = mem'.dirty]
            /\ mem.dirty \ mem'.dirty \subseteq OnList(mem)]_vars
  BY NoMemNext
<1> QED
  BY <1>1, <1>2, PTL DEF Spec, NoMemChangesNothing

=============================================================================
