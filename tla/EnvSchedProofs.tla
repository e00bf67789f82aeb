--------------------------- MODULE EnvSchedProofs ---------------------------
(***************************************************************************)
(* Proofs about EnvSched, for every number of slots, generation step and   *)
(* id limit that satisfy the assumptions of the module.                    *)
(***************************************************************************)
EXTENDS EnvSched, WellFoundedInduction, TLAPS

\* Pushing adds one member, and keeps the list without repetition when the
\* member is new: env_free.
LEMMA PushEnv ==
    ASSUME NEW S, NEW f \in Seq(S), NEW e \in S
    PROVE  /\ <<e>> \o f \in Seq(S)
           /\ <<e>> \o f # <<>>
           /\ Head(<<e>> \o f) = e
           /\ Tail(<<e>> \o f) = f
           /\ Range(<<e>> \o f) = {e} \cup Range(f)
           /\ IsInjective(f) /\ e \notin Range(f) => IsInjective(<<e>> \o f)
<1> DEFINE g == <<e>> \o f
<1>1. g \in Seq(S) /\ Len(g) = Len(f) + 1 /\ g[1] = e
  OBVIOUS
<1>2. \A i \in 2 .. Len(f) + 1 : g[i] = f[i - 1]
  OBVIOUS
<1>3. DOMAIN g = 1 .. Len(f) + 1 /\ DOMAIN f = 1 .. Len(f) /\ Len(f) \in Nat
  BY <1>1
<1>4. \A i \in DOMAIN f : i + 1 \in DOMAIN g /\ g[i + 1] = f[i]
  BY <1>2, <1>3
<1>5. \A i \in DOMAIN g : i = 1 \/ (i - 1 \in DOMAIN f /\ g[i] = f[i - 1])
  BY <1>2, <1>3
<1>6. g # <<>> /\ Head(g) = e /\ Tail(g) = f
  OBVIOUS
<1> HIDE DEF g
<1>7. Range(g) = {e} \cup Range(f)
  <2>1. 1 \in DOMAIN g
    BY <1>3
  <2> QED
    BY SMTT(40), <1>1, <1>4, <1>5, <2>1 DEF Range
<1>8. ASSUME IsInjective(f), e \notin Range(f) PROVE IsInjective(g)
  BY <1>8, <1>1, <1>3, <1>5 DEF IsInjective, Range
<1> QED
  BY <1>1, <1>6, <1>7, <1>8 DEF g

\* Popping removes the head and nothing else: env_alloc.
LEMMA PopEnv ==
    ASSUME NEW S, NEW f \in Seq(S), f # <<>>, IsInjective(f)
    PROVE  /\ Head(f) \in Range(f) /\ Head(f) \in S
           /\ Tail(f) \in Seq(S)
           /\ Range(Tail(f)) = Range(f) \ {Head(f)}
           /\ IsInjective(Tail(f))
<1> DEFINE g == Tail(f)
<1>1. /\ g \in Seq(S) /\ Len(g) = Len(f) - 1
      /\ f[1] = Head(f) /\ 1 \in DOMAIN f /\ Head(f) \in S
  OBVIOUS
<1>2. /\ DOMAIN g = 1 .. Len(f) - 1 /\ DOMAIN f = 1 .. Len(f)
      /\ Len(f) \in Nat \ {0}
  BY <1>1
<1>3. \A i \in DOMAIN g : i + 1 \in DOMAIN f /\ g[i] = f[i + 1] /\ i \in Nat
  BY <1>2
<1>4. \A i \in DOMAIN f : i = 1 \/ (i - 1 \in DOMAIN g /\ f[i] = g[i - 1])
  BY <1>2
<1> HIDE DEF g
<1>5. Range(g) = Range(f) \ {Head(f)}
  <2>1. \A i \in DOMAIN g : g[i] \in Range(f) \ {Head(f)}
    BY <1>1, <1>2, <1>3 DEF Range, IsInjective
  <2>2. \A x \in Range(f) \ {Head(f)} : x \in Range(g)
    BY <1>1, <1>2, <1>4 DEF Range
  <2> QED
    BY <2>1, <2>2 DEF Range
<1>6. IsInjective(g)
  BY <1>2, <1>3 DEF IsInjective
<1> QED
  BY <1>1, <1>5, <1>6 DEF g, Range

\* A set of naturals that is not empty has a least element.
LEMMA LeastNat ==
    ASSUME NEW D, D \subseteq Nat, D # {}
    PROVE  \E d \in D : \A x \in D : d <= x
<1> DEFINE Less == {ss \in Nat \X Nat : ss[1] < ss[2]}
<1>1. IsWellFoundedOn(Less, Nat)
  BY NatLessThanWellFounded, Zenon DEF OpToRel
<1> HIDE DEF Less
<1>2. PICK d \in D : \A x \in D : ~(<<x, d>> \in Less)
  BY <1>1, WFMin
<1>3. ASSUME NEW x \in D PROVE d <= x
  <2>1. <<x, d>> \in Nat \X Nat /\ ~(x < d)
    BY <1>2 DEF Less
  <2> QED
    BY <2>1
<1> QED
  BY <1>3

\* The invariant that is inductive: with what the properties say, nobody runs
\* before the first sched_yield, and a free slot keeps its last id.
SchedInv ==
    /\ SchedTypeOK
    /\ OneRunning
    /\ EnvFreeListExact
    /\ SomethingToRun
    /\ mode = "boot" => curenv = NoEnv
    /\ \A s \in Slot : \/ env_id[s] = 0 /\ env_status[s] = "FREE"
                       \/ ENVX(env_id[s]) = s /\ env_id[s] > 0

-----------------------------------------------------------------------------
(* The id env_alloc gives to slot e is positive, fits, and names e.        *)

LEMMA GenerationMultiple ==
    ASSUME NEW id \in 0 .. IDLIM - 1
    PROVE  \E k \in Nat : generation(id) = k * NENV /\ generation(id) < IDLIM
                          /\ k * NENV > 0
<1>1. PICK l \in Nat : ENVGEN = l * NENV
  BY NENVAssumption, ENVGENAssumption, SMT
<1> DEFINE q == (id + ENVGEN) \div NENV
<1>2. q \in Nat /\ id + ENVGEN = q * NENV + ((id + ENVGEN) % NENV)
      /\ (id + ENVGEN) % NENV < NENV
  BY NENVAssumption, ENVGENAssumption, IDLIMAssumption, SMT
<1>3. q * NENV > 0
  <2>1. q # 0
    BY <1>1, <1>2, NENVAssumption, ENVGENAssumption, SMT
  <2> QED
    BY <2>1, <1>2, NENVAssumption, SMT
<1>4. CASE q * NENV >= IDLIM
  BY <1>4, <1>1, ENVGENAssumption, IDLIMAssumption DEF generation
<1>5. CASE ~(q * NENV >= IDLIM)
  BY <1>5, <1>2, <1>3, IDLIMAssumption, NENVAssumption DEF generation
<1> QED
  BY <1>4, <1>5

LEMMA NewId ==
    ASSUME NEW id \in 0 .. IDLIM - 1, NEW e \in Slot
    PROVE  /\ generation(id) + e \in 1 .. IDLIM - 1
           /\ ENVX(generation(id) + e) = e
<1>1. PICK k \in Nat : generation(id) = k * NENV /\ generation(id) < IDLIM
                       /\ k * NENV > 0
  BY GenerationMultiple
<1>2. PICK l \in Nat : IDLIM = l * NENV
  BY NENVAssumption, IDLIMAssumption, SMT
<1>3. k * NENV + e < l * NENV
  BY <1>1, <1>2, NENVAssumption DEF Slot
<1>4. (k * NENV + e) % NENV = e
  BY NENVAssumption DEF Slot
<1> QED
  BY <1>1, <1>2, <1>3, <1>4, NENVAssumption DEF Slot, ENVX

-----------------------------------------------------------------------------
(* What the ways out of the kernel do to the statuses they are given.      *)

\* Nobody but cur is RUNNING in st, and nobody is a zombie.
GoodStatus(st, cur) ==
    /\ st \in [Slot -> Status]
    /\ cur \in Slot \cup {NoEnv}
    /\ \A s \in Slot : (st[s] = "RUNNING" => s = cur) /\ st[s] # "DYING"

\* The state after the scheduler: well formed, somebody runs or nobody can, and
\* the same slots are FREE and the same ones are NOT_RUNNABLE.
Scheduled(st) ==
    /\ GoodStatus(env_status', curenv')
    /\ mode' \in {"user", "monitor"}
    /\ mode' = "user" => curenv' \in Slot /\ env_status'[curenv'] = "RUNNING"
    /\ mode' = "monitor" =>
          \A s \in Slot : env_status'[s] \notin {"RUNNABLE", "RUNNING"}
    /\ \A s \in Slot : /\ env_status'[s] = "FREE" <=> st[s] = "FREE"
                       /\ env_status'[s] = "NOT_RUNNABLE" <=> st[s] = "NOT_RUNNABLE"

LEMMA EnvRun ==
    ASSUME NEW st, NEW cur, NEW e \in Slot, GoodStatus(st, cur),
           st[e] \in {"RUNNABLE", "RUNNING"}, env_run(st, cur, e)
    PROVE  Scheduled(st)
BY DEF env_run, GoodStatus, Scheduled, Status

\* The scan of sched_yield finds an environment when there is one: the distances
\* of the RUNNABLE slots have a least element.
LEMMA ScanFinds ==
    ASSUME SchedTypeOK, NEW st, NEW cur \in Slot \cup {NoEnv},
           NEW r \in Slot, st[r] = "RUNNABLE"
    PROVE  ScanFirst(st, cur) # {}
<1> DEFINE R == {s \in Slot : st[s] = "RUNNABLE"}
           D == {ScanDistance(cur, s) : s \in R}
<1>1. \A s \in Slot : ScanDistance(cur, s) \in Nat
  <2> DEFINE start == IF cur = NoEnv THEN 0 ELSE ENVX(env_id[cur])
  <2>1. \A id \in 0 .. IDLIM - 1 : ENVX(id) \in 0 .. NENV - 1
    BY NENVAssumption, IDLIMAssumption DEF ENVX
  <2>2. start \in 0 .. NENV - 1
    BY <2>1, NENVAssumption DEF SchedTypeOK
  <2> HIDE DEF start
  <2>3. \A s \in Slot : (s + NENV - start) % NENV \in Nat
    BY <2>2, NENVAssumption DEF Slot
  <2> QED
    BY <2>3 DEF ScanDistance, start
<1>2. D \subseteq Nat /\ D # {}
  BY <1>1
<1>3. PICK d \in D : \A x \in D : d <= x
  BY <1>2, LeastNat
<1>4. PICK s \in R : d = ScanDistance(cur, s)
  OBVIOUS
<1>5. \A t \in R : ScanDistance(cur, s) <= ScanDistance(cur, t)
  BY <1>3, <1>4
<1>6. s \in ScanFirst(st, cur)
  BY <1>4, <1>5 DEF ScanFirst, Scanned
<1> QED
  BY <1>6

\* When there is none, sched_halt finds nothing to wait for.
LEMMA SchedHalt ==
    ASSUME SchedTypeOK, NEW st, NEW cur, GoodStatus(st, cur),
           ~IsRunning(st, cur), ScanFirst(st, cur) = {}, sched_halt(st, cur)
    PROVE  Scheduled(st)
<1>1. \A s \in Slot : st[s] # "RUNNABLE"
  BY ScanFinds DEF GoodStatus
<1>2. \A s \in Slot : st[s] \notin {"RUNNING", "DYING"}
  BY DEF GoodStatus, IsRunning, Slot, NoEnv
<1> QED
  BY <1>1, <1>2 DEF sched_halt, GoodStatus, Scheduled

LEMMA SchedYield ==
    ASSUME SchedTypeOK, NEW st, NEW cur, GoodStatus(st, cur), sched_yield(st, cur)
    PROVE  Scheduled(st)
<1>1. CASE \E s \in ScanFirst(st, cur) : env_run(st, cur, s)
  <2>1. PICK s \in ScanFirst(st, cur) : env_run(st, cur, s)
    BY <1>1
  <2>2. s \in Slot /\ st[s] = "RUNNABLE"
    BY <2>1 DEF ScanFirst, Scanned
  <2> QED
    BY <2>1, <2>2, EnvRun
<1>2. CASE IsRunning(st, cur) /\ env_run(st, cur, cur)
  <2>1. cur \in Slot /\ st[cur] = "RUNNING"
    BY <1>2 DEF IsRunning, GoodStatus
  <2> QED
    BY <1>2, <2>1, EnvRun
<1>3. CASE ScanFirst(st, cur) = {} /\ ~IsRunning(st, cur) /\ sched_halt(st, cur)
  BY <1>3, SchedHalt
<1> QED
  BY <1>1, <1>2, <1>3 DEF sched_yield

LEMMA TrapReturn ==
    ASSUME SchedTypeOK, NEW st, GoodStatus(st, curenv), trap_return(st)
    PROVE  Scheduled(st)
<1>1. CASE IsRunning(st, curenv) /\ env_run(st, curenv, curenv)
  <2>1. curenv \in Slot /\ st[curenv] = "RUNNING"
    BY <1>1 DEF IsRunning, GoodStatus
  <2> QED
    BY <1>1, <2>1, EnvRun
<1>2. CASE sched_yield(st, curenv)
  BY <1>2, SchedYield
<1> QED
  BY <1>1, <1>2 DEF trap_return

\* A step that ends in the scheduler and leaves ids and the free list alone.
LEMMA ScheduledInv ==
    ASSUME SchedInv, NEW st, Scheduled(st),
           \A s \in Slot : st[s] = "FREE" <=> env_status[s] = "FREE",
           UNCHANGED <<env_id, env_parent_id, env_free_list>>
    PROVE  SchedInv'
<1>1. SchedTypeOK'
  BY DEF SchedInv, SchedTypeOK, Scheduled, GoodStatus, Mode
<1>2. OneRunning'
  BY DEF Scheduled, GoodStatus, OneRunning, Slot, NoEnv
<1>3. EnvFreeListExact'
  BY DEF SchedInv, EnvFreeListExact, Scheduled
<1>4. SomethingToRun'
  BY DEF Scheduled, SomethingToRun
<1> QED
  BY <1>1, <1>2, <1>3, <1>4 DEF SchedInv, Scheduled, ENVX

-----------------------------------------------------------------------------
(* The free list.                                                          *)

LEMMA EnvAlloc ==
    ASSUME SchedInv, NEW parent \in 0 .. IDLIM - 1,
           NEW status \in {"RUNNABLE", "NOT_RUNNABLE"},
           mode \in {"boot", "user"}, env_alloc(parent, status)
    PROVE  SchedInv'
<1> DEFINE e == Head(env_free_list)
<1>1. /\ e \in Slot /\ env_status[e] = "FREE"
      /\ Tail(env_free_list) \in Seq(Slot)
      /\ Range(Tail(env_free_list)) = Range(env_free_list) \ {e}
      /\ IsInjective(Tail(env_free_list))
  BY PopEnv DEF SchedInv, SchedTypeOK, EnvFreeListExact, env_alloc
<1>2. /\ generation(env_id[e]) + e \in 1 .. IDLIM - 1
      /\ ENVX(generation(env_id[e]) + e) = e
  BY <1>1, NewId DEF SchedInv, SchedTypeOK
<1> HIDE DEF e
<1>3. /\ env_id' = [env_id EXCEPT ![e] = generation(env_id[e]) + e]
      /\ env_parent_id' = [env_parent_id EXCEPT ![e] = parent]
      /\ env_status' = [env_status EXCEPT ![e] = status]
      /\ env_free_list' = Tail(env_free_list)
      /\ UNCHANGED <<curenv, mode>>
  BY DEF env_alloc, e
<1>4. SchedTypeOK'
  BY <1>1, <1>2, <1>3 DEF SchedInv, SchedTypeOK, Status
<1>5. OneRunning'
  BY <1>1, <1>3 DEF SchedInv, SchedTypeOK, OneRunning
<1>6. EnvFreeListExact'
  BY <1>1, <1>3 DEF SchedInv, SchedTypeOK, EnvFreeListExact
<1>7. ASSUME NEW s \in Slot
      PROVE  \/ env_id'[s] = 0 /\ env_status'[s] = "FREE"
             \/ ENVX(env_id'[s]) = s /\ env_id'[s] > 0
  BY <1>1, <1>2, <1>3 DEF SchedInv, SchedTypeOK
<1>8. SomethingToRun'
  BY <1>3 DEF SomethingToRun
<1> QED
  BY <1>3, <1>4, <1>5, <1>6, <1>7, <1>8 DEF SchedInv, ENVX

\* env_destroy frees the slot at once and schedules with it FREE.
LEMMA DestroyKeeps ==
    ASSUME SchedInv, NEW e \in Slot, env_status[e] # "FREE", mode = "user",
           env_destroy(e)
    PROVE  /\ Scheduled([env_status EXCEPT ![e] = "FREE"])
           /\ env_free_list' = <<e>> \o env_free_list
           /\ UNCHANGED <<env_id, env_parent_id>>
<1> DEFINE st == [env_status EXCEPT ![e] = "FREE"]
<1>1. curenv \in Slot /\ ~(env_status[e] = "RUNNING" /\ e # curenv)
  BY DEF SchedInv, SchedTypeOK, OneRunning
<1>2. /\ env_free_list' = <<e>> \o env_free_list
      /\ UNCHANGED <<env_id, env_parent_id>>
      /\ \/ e = curenv /\ sched_yield(st, NoEnv)
         \/ e # curenv /\ trap_return(st)
  BY <1>1 DEF env_destroy
<1>3. CASE e = curenv /\ sched_yield(st, NoEnv)
  <2>1. GoodStatus(st, NoEnv)
    BY <1>3 DEF GoodStatus, SchedInv, SchedTypeOK, OneRunning, Status
  <2> QED
    BY <1>2, <1>3, <2>1, SchedYield DEF SchedInv
<1>4. CASE e # curenv /\ trap_return(st)
  <2>1. GoodStatus(st, curenv)
    BY <1>4 DEF GoodStatus, SchedInv, SchedTypeOK, OneRunning, Status
  <2> QED
    BY <1>2, <1>4, <2>1, TrapReturn DEF SchedInv
<1> QED
  BY <1>2, <1>3, <1>4

LEMMA EnvDestroy ==
    ASSUME SchedInv, NEW e \in Slot, env_status[e] # "FREE", mode = "user",
           env_destroy(e)
    PROVE  SchedInv'
<1> DEFINE st == [env_status EXCEPT ![e] = "FREE"]
<1>1. /\ Scheduled(st)
      /\ env_free_list' = <<e>> \o env_free_list
      /\ UNCHANGED <<env_id, env_parent_id>>
  BY DestroyKeeps
<1>2. /\ env_free_list' \in Seq(Slot)
      /\ Range(env_free_list') = {e} \cup Range(env_free_list)
      /\ IsInjective(env_free_list')
  <2>1. /\ env_free_list \in Seq(Slot) /\ e \notin Range(env_free_list)
        /\ IsInjective(env_free_list)
    BY DEF SchedInv, SchedTypeOK, EnvFreeListExact
  <2> QED
    BY <1>1, <2>1, PushEnv
<1>3. SchedTypeOK'
  BY <1>1, <1>2 DEF SchedInv, SchedTypeOK, Scheduled, GoodStatus, Mode
<1>4. OneRunning'
  BY <1>1 DEF Scheduled, GoodStatus, OneRunning, Slot, NoEnv
<1>5. EnvFreeListExact'
  BY <1>1, <1>2 DEF SchedInv, SchedTypeOK, EnvFreeListExact, Scheduled
<1>6. ASSUME NEW s \in Slot
      PROVE  \/ env_id'[s] = 0 /\ env_status'[s] = "FREE"
             \/ ENVX(env_id'[s]) = s /\ env_id'[s] > 0
  BY <1>1 DEF SchedInv, SchedTypeOK, Scheduled
<1>7. SomethingToRun'
  BY <1>1 DEF Scheduled, SomethingToRun
<1> QED
  BY <1>1, <1>3, <1>4, <1>5, <1>6, <1>7 DEF SchedInv, Scheduled, ENVX

\* envid2env answers with a slot in use.
LEMMA ReachableInUse ==
    ASSUME SchedInv, mode = "user", NEW e \in Reachable
    PROVE  e \in Slot /\ env_status[e] # "FREE"
<1>1. PICK id \in Envid : e = envid2env(id) /\ e # NoEnv
  BY DEF Reachable
<1>2. curenv \in Slot /\ env_status[curenv] # "FREE"
  BY DEF SchedInv, SchedTypeOK, OneRunning
<1>3. ENVX(id) \in Slot
  BY NENVAssumption, IDLIMAssumption DEF ENVX, Slot, Envid
<1> QED
  BY <1>1, <1>2, <1>3 DEF envid2env

\* sys_env_set_status changes the status of a slot in use, then trap() returns.
LEMMA SetStatusKeeps ==
    ASSUME SchedInv, NEW e \in Slot, NEW status \in Status,
           sys_env_set_status(e, status)
    PROVE  /\ env_status[e] # "FREE" /\ status \in {"RUNNABLE", "NOT_RUNNABLE"}
           /\ Scheduled([env_status EXCEPT ![e] = status])
           /\ \A s \in Slot : env_status'[s] = "FREE" <=> env_status[s] = "FREE"
<1> DEFINE st == [env_status EXCEPT ![e] = status]
<1>1. env_status[e] # "FREE" /\ status \in {"RUNNABLE", "NOT_RUNNABLE"}
  BY ReachableInUse DEF sys_env_set_status
<1>2. GoodStatus(st, curenv)
  BY <1>1 DEF GoodStatus, SchedInv, SchedTypeOK, OneRunning
<1>3. Scheduled(st)
  BY <1>2, TrapReturn DEF sys_env_set_status, SchedInv
<1> QED
  BY <1>1, <1>3 DEF Scheduled, SchedInv, SchedTypeOK

LEMMA SetStatus ==
    ASSUME SchedInv, NEW e \in Slot, NEW status \in Status,
           sys_env_set_status(e, status)
    PROVE  SchedInv'
BY SetStatusKeeps, ScheduledInv DEF sys_env_set_status, Scheduled

-----------------------------------------------------------------------------
(* The invariant is inductive.                                             *)

LEMMA SchedInvInit == env_init => SchedInv
<1> SUFFICES ASSUME env_init PROVE SchedInv
  OBVIOUS
<1> DEFINE f == [i \in 1 .. NENV |-> i - 1]
<1>1. f \in Seq(Slot) /\ DOMAIN f = 1 .. NENV
  BY NENVAssumption DEF Slot
<1>2. Range(f) = Slot
  <2>1. \A s \in Slot : s + 1 \in DOMAIN f /\ f[s + 1] = s
    BY <1>1, NENVAssumption DEF Slot
  <2>2. \A i \in DOMAIN f : f[i] \in Slot
    BY <1>1, NENVAssumption DEF Slot
  <2> QED
    BY <2>1, <2>2 DEF Range
<1>3. IsInjective(f)
  BY <1>1, NENVAssumption DEF IsInjective
<1>4. SchedTypeOK
  BY <1>1, IDLIMAssumption, ENVGENAssumption
     DEF env_init, SchedTypeOK, Status, Mode
<1>5. EnvFreeListExact
  BY <1>2, <1>3 DEF env_init, EnvFreeListExact
<1> QED
  BY <1>4, <1>5 DEF env_init, SchedInv, OneRunning, SomethingToRun

LEMMA SchedInvNext == SchedInv /\ [SchedNext]_envVars => SchedInv'
<1> SUFFICES ASSUME SchedInv, [SchedNext]_envVars PROVE SchedInv'
  OBVIOUS
<1>1. CASE env_create
  BY <1>1, EnvAlloc, IDLIMAssumption, ENVGENAssumption DEF env_create
<1>2. CASE boot_panic
  BY <1>2 DEF boot_panic, SchedInv, SchedTypeOK, OneRunning, EnvFreeListExact,
              SomethingToRun, Mode, ENVX
<1>3. CASE i386_init
  <2>1. GoodStatus(env_status, curenv)
    BY <1>3 DEF i386_init, SchedInv, SchedTypeOK, OneRunning, GoodStatus
  <2> QED
    BY <1>3, <2>1, SchedYield, ScheduledInv DEF i386_init, SchedInv
<1>4. CASE sys_exofork
  <2>1. env_id[curenv] \in 0 .. IDLIM - 1
    BY <1>4 DEF sys_exofork, SchedInv, SchedTypeOK, OneRunning
  <2> QED
    BY <1>4, <2>1, EnvAlloc DEF sys_exofork
<1>5. ASSUME NEW e \in Slot, NEW status \in Status, sys_env_set_status(e, status)
      PROVE  SchedInv'
  BY <1>5, SetStatus
<1>6. CASE timer
  <2>1. GoodStatus(env_status, curenv)
    BY <1>6 DEF timer, SchedInv, SchedTypeOK, OneRunning, GoodStatus
  <2> QED
    BY <1>6, <2>1, SchedYield, ScheduledInv DEF timer, SchedInv
<1>7. ASSUME NEW e \in Slot, destroy(e) PROVE SchedInv'
  BY <1>7, ReachableInUse, EnvDestroy DEF destroy
<1>8. CASE kernel_panic
  BY <1>8 DEF kernel_panic, SchedInv, SchedTypeOK, OneRunning, EnvFreeListExact,
              SomethingToRun, Mode, ENVX
<1>9. CASE UNCHANGED envVars
  BY <1>9 DEF envVars, SchedInv, SchedTypeOK, OneRunning, EnvFreeListExact,
              SomethingToRun, ENVX
<1> QED
  BY <1>1, <1>2, <1>3, <1>4, <1>5, <1>6, <1>7, <1>8, <1>9 DEF SchedNext, resume

\* For every number of slots: the environment table stays well typed, one
\* environment at most is RUNNING, the free list is exact, ids name slots, and
\* the processor gives up only when no environment can run.
THEOREM SchedSafety ==
    SchedSpec => [](/\ SchedTypeOK /\ OneRunning /\ EnvFreeListExact
                     /\ IdNamesSlot /\ SomethingToRun)
<1>1. SchedInv => /\ SchedTypeOK /\ OneRunning /\ EnvFreeListExact
                  /\ IdNamesSlot /\ SomethingToRun
  BY DEF SchedInv, IdNamesSlot
<1> QED
  BY <1>1, SchedInvInit, SchedInvNext, PTL DEF SchedSpec

-----------------------------------------------------------------------------
(* Action properties.                                                      *)

\* The id of a new tenant differs from the one the slot had: the generation
\* moves on, or wraps to ENVGEN from far above it.
LEMMA NewIdDiffers ==
    ASSUME IDLIM > 2 * ENVGEN, NEW id \in 0 .. IDLIM - 1, NEW e \in Slot,
           id = 0 \/ ENVX(id) = e
    PROVE  generation(id) + e # id
<1>1. PICK l \in Nat : ENVGEN = l * NENV
  BY NENVAssumption, ENVGENAssumption, SMT
<1>2. CASE id = 0
  BY <1>2, NewId
<1>3. CASE id # 0
  <2>1. PICK k \in Nat : id = k * NENV + e
    BY <1>3, NENVAssumption, IDLIMAssumption DEF ENVX, Slot
  <2>2. id + ENVGEN = (k + l) * NENV + e
    BY <1>1, <2>1, NENVAssumption DEF Slot
  <2>3. (id + ENVGEN) \div NENV = k + l
    BY <2>2, NENVAssumption DEF Slot
  <2>4. ((id + ENVGEN) \div NENV) * NENV = id - e + ENVGEN
    BY <2>2, <2>3, <2>1, <1>1, NENVAssumption DEF Slot
  <2> QED
    BY <2>4, NENVAssumption, ENVGENAssumption, IDLIMAssumption DEF generation, Slot
<1> QED
  BY <1>2, <1>3

\* A step makes a FREE slot something else only as env_alloc does.
LEMMA OnlyAllocTakes ==
    ASSUME SchedInv, [SchedNext]_envVars, NEW s \in Slot,
           env_status[s] = "FREE", env_status'[s] # "FREE"
    PROVE  env_id'[s] = generation(env_id[s]) + s
<1>1. ASSUME NEW parent, NEW status, env_alloc(parent, status)
      PROVE  env_id'[s] = generation(env_id[s]) + s
  BY <1>1 DEF env_alloc, SchedInv, SchedTypeOK
<1>2. CASE env_create
  BY <1>1, <1>2 DEF env_create
<1>3. CASE boot_panic \/ kernel_panic \/ UNCHANGED envVars
  BY <1>3 DEF boot_panic, kernel_panic, envVars
<1>4. CASE i386_init \/ timer
  <2>1. GoodStatus(env_status, curenv)
    BY <1>4 DEF SchedInv, SchedTypeOK, OneRunning, GoodStatus
  <2>2. Scheduled(env_status)
    BY <1>4, <2>1, SchedYield DEF i386_init, timer, SchedInv
  <2> QED
    BY <2>2 DEF Scheduled
<1>5. CASE sys_exofork
  BY <1>1, <1>5 DEF sys_exofork
<1>6. ASSUME NEW e \in Slot, NEW status \in Status, sys_env_set_status(e, status)
      PROVE  FALSE
  BY <1>6, SetStatusKeeps
<1>7. ASSUME NEW e \in Slot, destroy(e) PROVE FALSE
  <2>1. e \in Slot /\ env_status[e] # "FREE" /\ mode = "user" /\ env_destroy(e)
    BY <1>7, ReachableInUse DEF destroy
  <2> QED
    BY <2>1, DestroyKeeps DEF Scheduled, SchedInv, SchedTypeOK
<1> QED
  BY <1>2, <1>3, <1>4, <1>5, <1>6, <1>7 DEF SchedNext, resume

\* A reused slot gets a new id, when there is room for two generations.
THEOREM SchedFreshId ==
    ASSUME IDLIM > 2 * ENVGEN
    PROVE  SchedSpec => FreshId
<1>1. SchedInv /\ [SchedNext]_envVars =>
        [\A s \in Slot : env_status[s] = "FREE" /\ env_status'[s] # "FREE"
                             => env_id'[s] # env_id[s]]_envVars
  <2> SUFFICES ASSUME SchedInv, [SchedNext]_envVars, NEW s \in Slot,
                      env_status[s] = "FREE", env_status'[s] # "FREE"
               PROVE  env_id'[s] # env_id[s]
    OBVIOUS
  <2>1. env_id'[s] = generation(env_id[s]) + s
    BY OnlyAllocTakes
  <2>2. env_id[s] \in 0 .. IDLIM - 1 /\ (env_id[s] = 0 \/ ENVX(env_id[s]) = s)
    BY DEF SchedInv, SchedTypeOK
  <2> QED
    BY <2>1, <2>2, NewIdDiffers
<1> QED
  BY <1>1, SchedInvInit, SchedInvNext, PTL DEF SchedSpec, FreshId

\* envid2env answers with the caller or with a child of the caller.
LEMMA ReachableIsChild ==
    ASSUME SchedInv, NEW e \in Reachable, e # curenv
    PROVE  env_parent_id[e] = env_id[curenv]
BY DEF Reachable, envid2env

\* Scheduling disturbs nobody.
LEMMA ScheduledKeeps ==
    ASSUME NEW st, Scheduled(st), NEW s \in Slot, st[s] = env_status[s]
    PROVE  ~Disturbed(s)
BY DEF Scheduled, GoodStatus, Disturbed

\* A system call disturbs the caller and its children, nobody else.
THEOREM SchedChildrenOnly == SchedSpec => ChildrenOnly
<1>1. ASSUME SchedInv, [SchedNext]_envVars, NEW s \in Slot, Disturbed(s)
      PROVE  env_parent_id[s] = env_id[curenv]
  <2>1. CASE env_create \/ boot_panic \/ i386_init
    BY <1>1, <2>1 DEF Disturbed, env_create, boot_panic, i386_init
  <2>2. CASE sys_exofork
    <3>1. Head(env_free_list) \in Slot /\ env_status[Head(env_free_list)] = "FREE"
      BY <1>1, <2>2, PopEnv DEF sys_exofork, env_alloc, SchedInv, SchedTypeOK,
                             EnvFreeListExact
    <3> QED
      BY <1>1, <2>2, <3>1 DEF Disturbed, sys_exofork, env_alloc, SchedInv, SchedTypeOK
  <2>3. ASSUME NEW e \in Slot, NEW status \in Status, sys_env_set_status(e, status)
        PROVE  env_parent_id[s] = env_id[curenv]
    <3>1. CASE s = e
      BY <1>1, <2>3, <3>1, ReachableIsChild DEF sys_env_set_status, Disturbed
    <3>2. CASE s # e
      <4>1. [env_status EXCEPT ![e] = status][s] = env_status[s]
        BY <1>1, <3>2 DEF SchedInv, SchedTypeOK
      <4> QED
        BY <1>1, <2>3, <4>1, SetStatusKeeps, ScheduledKeeps
    <3> QED
      BY <3>1, <3>2
  <2>4. CASE timer
    <3>1. GoodStatus(env_status, curenv)
      BY <1>1 DEF SchedInv, SchedTypeOK, OneRunning, GoodStatus
    <3> QED
      BY <1>1, <2>4, <3>1, SchedYield, ScheduledKeeps DEF timer, SchedInv
  <2>5. ASSUME NEW e \in Slot, destroy(e)
        PROVE  env_parent_id[s] = env_id[curenv]
    <3>1. CASE s = e
      BY <1>1, <2>5, <3>1, ReachableIsChild DEF destroy, Disturbed
    <3>2. CASE s # e
      <4>1. Scheduled([env_status EXCEPT ![e] = "FREE"])
        BY <1>1, <2>5, ReachableInUse, DestroyKeeps DEF destroy
      <4>2. [env_status EXCEPT ![e] = "FREE"][s] = env_status[s]
        BY <1>1, <3>2 DEF SchedInv, SchedTypeOK
      <4> QED
        BY <1>1, <4>1, <4>2, ScheduledKeeps
    <3> QED
      BY <3>1, <3>2
  <2>6. CASE kernel_panic \/ UNCHANGED envVars
    BY <1>1, <2>6 DEF Disturbed, kernel_panic, envVars
  <2> QED
    BY <1>1, <2>1, <2>2, <2>3, <2>4, <2>5, <2>6 DEF SchedNext, resume
<1>2. SchedInv /\ [SchedNext]_envVars =>
        [\A s \in Slot : Disturbed(s) => env_parent_id[s] = env_id[curenv]]_envVars
  BY <1>1
<1> QED
  BY <1>2, SchedInvInit, SchedInvNext, PTL DEF SchedSpec, ChildrenOnly

=============================================================================
