------------------------------ MODULE EnvSched ------------------------------
(***************************************************************************)
(* The environment table and the round-robin scheduler: kern/env.c and     *)
(* kern/sched.c, driven by the traps of kern/trap.c and the environment    *)
(* system calls of kern/syscall.c.                                         *)
(*                                                                         *)
(* One processor (cpunum() is 0 at this revision, README.md) and interrupt *)
(* gates only, so every handler runs to its env_run() without being        *)
(* interleaved: one handler is one action.  Address spaces are left to     *)
(* module Kernel, which conjoins its memory to the actions below; here a   *)
(* failure that depends on memory is a nondeterministic choice.            *)
(***************************************************************************)
EXTENDS Integers, Sequences, FiniteSets, Functions

CONSTANTS NENV,     \* entries of envs[]
          ENVGEN,   \* 1 << ENVGENSHIFT, the step between generations
          IDLIM     \* the first positive value int32_t cannot hold (2^31)

ASSUME NENVAssumption == NENV \in Nat \ {0}
ASSUME ENVGENAssumption == ENVGEN \in Nat \ {0} /\ ENVGEN % NENV = 0
ASSUME IDLIMAssumption == IDLIM \in Nat /\ IDLIM > ENVGEN /\ IDLIM % NENV = 0

Slot == 0 .. NENV - 1
NoEnv == -1                     \* the NULL struct Env pointer
Envid == 0 .. IDLIM - 1         \* the ids a program may pass

Status == {"FREE", "DYING", "RUNNABLE", "RUNNING", "NOT_RUNNABLE"}

VARIABLES env_status,       \* envs[i].env_status
          env_id,           \* envs[i].env_id
          env_parent_id,    \* envs[i].env_parent_id
          env_free_list,    \* the list linked through env_link
          curenv,           \* thiscpu->cpu_env
          mode              \* where the processor is: see Mode

envVars == <<env_status, env_id, env_parent_id, env_free_list, curenv, mode>>

\* "boot": i386_init before its sched_yield; "user": curenv runs in user mode;
\* "monitor": sched_halt's endless monitor(NULL); "panic": _panic's; "halted":
\* the end of sched_halt, which SomethingToRun shows is never reached.
Mode == {"boot", "user", "monitor", "panic", "halted"}

ENVX(id) == id % NENV

-----------------------------------------------------------------------------
(* envid2env with checkperm set: the slot named by id, or NoEnv.           *)

envid2env_noperm(id) ==
    IF id = 0 THEN curenv
    ELSE LET e == ENVX(id)
         IN  IF env_status[e] = "FREE" \/ env_id[e] # id THEN NoEnv ELSE e

envid2env(id) ==
    IF id = 0 THEN curenv
    ELSE LET e == ENVX(id)
         IN  IF \/ env_status[e] = "FREE"
                \/ env_id[e] # id
                \/ e # curenv /\ env_parent_id[e] # env_id[curenv]
             THEN NoEnv ELSE e

\* The slots the running environment may name in a system call.
Reachable == {envid2env(id) : id \in Envid} \ {NoEnv}

-----------------------------------------------------------------------------
(* env_alloc, minus the page directory.                                    *)

\* The generation is the old id stepped by ENVGEN without its slot bits; an
\* int32_t that overflows is negative, and then the generation restarts.
generation_stuck(id) == IF id < ENVGEN THEN ENVGEN ELSE (id \div NENV) * NENV

generation_nowrap(id) == ((id + ENVGEN) \div NENV) * NENV

generation(id) ==
    LET g == ((id + ENVGEN) \div NENV) * NENV
    IN  IF g >= IDLIM THEN ENVGEN ELSE g

env_alloc_keep(parent, status) ==
    /\ env_free_list # <<>>
    /\ LET e == Head(env_free_list)
       IN  /\ env_id' = [env_id EXCEPT ![e] = generation(env_id[e]) + e]
           /\ env_parent_id' = [env_parent_id EXCEPT ![e] = parent]
           /\ env_status' = [env_status EXCEPT ![e] = status]
    /\ UNCHANGED <<env_free_list, curenv, mode>>

env_alloc(parent, status) ==
    /\ env_free_list # <<>>
    /\ LET e == Head(env_free_list)
       IN  /\ env_id' = [env_id EXCEPT ![e] = generation(env_id[e]) + e]
           /\ env_parent_id' = [env_parent_id EXCEPT ![e] = parent]
           /\ env_status' = [env_status EXCEPT ![e] = status]
           /\ env_free_list' = Tail(env_free_list)
    /\ UNCHANGED <<curenv, mode>>

-----------------------------------------------------------------------------
(* Leaving the kernel.  These take the statuses and the current            *)
(* environment the handler has computed so far, and assign env_status,     *)
(* curenv and mode.                                                        *)

env_run_nodemote(st, cur, e) ==
    /\ env_status' = [st EXCEPT ![e] = "RUNNING"]
    /\ curenv' = e
    /\ mode' = "user"

env_run(st, cur, e) ==
    /\ env_status' = [s \in Slot |->
                        IF s = e THEN "RUNNING"
                        ELSE IF s = cur /\ st[s] = "RUNNING" THEN "RUNNABLE"
                        ELSE st[s]]
    /\ curenv' = e
    /\ mode' = "user"

\* With work left for another processor, sched_halt goes on to unlock the kernel
\* and to halt.
sched_halt(st, cur) ==
    LET idle == \A s \in Slot : st[s] \notin {"RUNNABLE", "RUNNING", "DYING"}
    IN  /\ env_status' = st
        /\ curenv' = IF idle THEN cur ELSE NoEnv
        /\ mode' = IF idle THEN "monitor" ELSE "halted"

\* How far the scan of sched_yield goes before it looks at slot s.
ScanDistance(cur, s) ==
    LET start == IF cur = NoEnv THEN 0 ELSE ENVX(env_id[cur])
    IN  (s + NENV - start) % NENV

\* The scan is over every slot: envs[i] with the wrap at NENV.
Scanned(cur) == Slot

\* The scan always restarts at envs[0].
ScanFirst_zero(st, cur) ==
    {s \in Scanned(cur) :
        /\ st[s] = "RUNNABLE"
        /\ \A t \in Scanned(cur) : st[t] = "RUNNABLE" => s <= t}

ScanFirst(st, cur) ==
    {s \in Scanned(cur) :
        /\ st[s] = "RUNNABLE"
        /\ \A t \in Scanned(cur) :
              st[t] = "RUNNABLE" => ScanDistance(cur, s) <= ScanDistance(cur, t)}

IsRunning(st, cur) == IF cur = NoEnv THEN FALSE ELSE st[cur] = "RUNNING"

sched_yield(st, cur) ==
    \/ \E s \in ScanFirst(st, cur) : env_run(st, cur, s)
    \/ /\ ScanFirst(st, cur) = {}
       /\ IsRunning(st, cur)
       /\ env_run(st, cur, cur)
    \/ /\ ScanFirst(st, cur) = {}
       /\ ~IsRunning(st, cur)
       /\ sched_halt(st, cur)

\* The end of trap(), reached with curenv still set.
trap_return(st) ==
    \/ IsRunning(st, curenv) /\ env_run(st, curenv, curenv)
    \/ ~IsRunning(st, curenv) /\ sched_yield(st, curenv)

\* env_destroy (with env_free but for its memory), then whatever follows it:
\* the scheduler when e was running, else the end of the trap.
env_destroy(e) ==
    LET dying == env_status[e] = "RUNNING" /\ e # curenv
        st == [env_status EXCEPT ![e] = IF dying THEN "DYING" ELSE "FREE"]
    IN  /\ env_free_list' = IF dying THEN env_free_list
                            ELSE <<e>> \o env_free_list
        /\ UNCHANGED <<env_id, env_parent_id>>
        /\ \/ e = curenv /\ sched_yield(st, NoEnv)
           \/ e # curenv /\ trap_return(st)

-----------------------------------------------------------------------------
(* The boot sequence of i386_init, from env_init on.                       *)

env_init ==
    /\ env_status = [s \in Slot |-> "FREE"]
    /\ env_id = [s \in Slot |-> 0]
    /\ env_parent_id = [s \in Slot |-> 0]
    /\ env_free_list = [i \in 1 .. NENV |-> i - 1]
    /\ curenv = NoEnv
    /\ mode = "boot"

env_create == mode = "boot" /\ env_alloc(0, "RUNNABLE")

\* env_create and region_alloc panic when they run out of anything.
boot_panic ==
    /\ mode = "boot"
    /\ mode' = "panic"
    /\ UNCHANGED <<env_status, env_id, env_parent_id, env_free_list, curenv>>

\* i386_init has created at least one environment and schedules.
i386_init ==
    /\ mode = "boot"
    /\ \E s \in Slot : env_status[s] # "FREE"
    /\ sched_yield(env_status, curenv)
    /\ UNCHANGED <<env_id, env_parent_id, env_free_list>>

-----------------------------------------------------------------------------
(* Traps from user mode.                                                   *)

sys_exofork ==
    mode = "user" /\ env_alloc(env_id[curenv], "NOT_RUNNABLE")

\* The status is checked after the id and before it is stored.
sys_env_set_status(e, status) ==
    /\ mode = "user"
    /\ e \in Reachable
    /\ status \in {"RUNNABLE", "NOT_RUNNABLE"}
    /\ trap_return([env_status EXCEPT ![e] = status])
    /\ UNCHANGED <<env_id, env_parent_id, env_free_list>>

\* A timer interrupt, or sys_yield.
timer ==
    /\ mode = "user"
    /\ sched_yield(env_status, curenv)
    /\ UNCHANGED <<env_id, env_parent_id, env_free_list>>

\* sys_env_destroy, or a failed user_mem_assert: the caller or its child.
destroy(e) == mode = "user" /\ e \in Reachable /\ env_destroy(e)

\* An unknown or unimplemented system call, or a fault inside a handler.
kernel_panic ==
    /\ mode = "user"
    /\ mode' = "panic"
    /\ UNCHANGED <<env_status, env_id, env_parent_id, env_free_list, curenv>>

\* Any trap that leaves the environment table alone: trap() runs curenv again.
\* The endless monitor loop stays where it is.
resume == mode # "boot" /\ UNCHANGED envVars

SchedNext ==
    \/ env_create
    \/ boot_panic
    \/ i386_init
    \/ sys_exofork
    \/ \E e \in Slot, status \in Status : sys_env_set_status(e, status)
    \/ timer
    \/ \E e \in Slot : destroy(e)
    \/ kernel_panic
    \/ resume

SchedSpec == env_init /\ [][SchedNext]_envVars

\* i386_init goes on to its sched_yield, and the LAPIC timer is periodic
\* (lapic.c) with interrupts on in user mode (FL_IF, env_alloc).
SchedFairness == WF_envVars(i386_init) /\ WF_envVars(timer)

FairSchedSpec == SchedSpec /\ SchedFairness

-----------------------------------------------------------------------------
(* Properties.                                                             *)

SchedTypeOK ==
    /\ env_status \in [Slot -> Status]
    /\ env_id \in [Slot -> 0 .. IDLIM - 1]
    /\ env_parent_id \in [Slot -> 0 .. IDLIM - 1]
    /\ env_free_list \in Seq(Slot)
    /\ curenv \in Slot \cup {NoEnv}
    /\ mode \in Mode

\* In user mode the running environment is curenv and nobody else is RUNNING,
\* and with one processor no environment is ever left a zombie: env_run demotes
\* the environment it switches away from, and env_destroy frees at once.
OneRunning ==
    /\ mode = "user" => curenv # NoEnv /\ env_status[curenv] = "RUNNING"
    /\ \A s \in Slot :
          /\ env_status[s] = "RUNNING" => s = curenv
          /\ env_status[s] # "DYING"

\* The free list holds each FREE slot exactly once: env_alloc never hands out a
\* slot in use, env_free never loses one nor lists one twice.
EnvFreeListExact ==
    /\ Range(env_free_list) = {s \in Slot : env_status[s] = "FREE"}
    /\ IsInjective(env_free_list)

\* inc/env.h: the index part of an id is the slot, and a real id is positive.
\* sched_yield starts its scan from the index part; ids survive the wrap of the
\* 31-bit generation.
IdNamesSlot ==
    \A s \in Slot : env_status[s] # "FREE" =>
        ENVX(env_id[s]) = s /\ env_id[s] > 0

\* A reused slot gets an id its previous tenant did not have, so envid2env
\* refuses the stale id instead of resolving it to the newcomer.
FreshId ==
    [][\A s \in Slot : env_status[s] = "FREE" /\ env_status'[s] # "FREE"
                          => env_id'[s] # env_id[s]]_envVars

\* Slot s is in use by another than the caller, and begins or stops to be able
\* to run, or dies.
Disturbed(s) ==
    /\ mode = "user" /\ s # curenv
    /\ env_status[s] # "FREE" /\ env_status'[s] # env_status[s]
    /\ \/ env_status[s] = "NOT_RUNNABLE"
       \/ env_status'[s] \in {"FREE", "DYING", "NOT_RUNNABLE"}

\* Other than by scheduling, a step changes the life of an environment only if
\* it is the running one, or a child the running one created.
ChildrenOnly ==
    [][\A s \in Slot : Disturbed(s) => env_parent_id[s] = env_id[curenv]]_envVars

\* The processor gives up (the endless monitor of sched_halt, or its hlt) only
\* when no environment can run: the scan of sched_yield misses no slot.
SomethingToRun ==
    mode \in {"monitor", "halted"} =>
        \A s \in Slot : env_status[s] \notin {"RUNNABLE", "RUNNING"}

\* A RUNNABLE environment is scheduled, destroyed, or stopped by its parent
\* eventually; unless the kernel panics.
Starved(s) == mode # "panic" /\ env_status[s] = "RUNNABLE"
Served(s) == Starved(s) ~> ~Starved(s)

\* The running environment is destroyed.
Exits == curenv \in Slot /\ env_status'[curenv] = "FREE"

\* Round robin is fair unless running environments keep exiting forever.
FairUnlessExits == \A s \in Slot : Served(s) \/ []<><<Exits>>_envVars

=============================================================================
