-------------------------------- MODULE Smp ---------------------------------
(***************************************************************************)
(* Start of the other processors: mp_init reads the configuration table,   *)
(* boot_aps wakes the processors one at a time with INIT and STARTUP       *)
(* messages and hands each its stack in one global variable, mpentry.S     *)
(* loads it and mp_main reports back.  Processors that are up contend for  *)
(* the kernel lock (Spinlock).                                             *)
(*                                                                         *)
(* A processor is named by its local APIC id, and processor k is the k-th  *)
(* of the table, as the code takes for granted (cpu_id = ncpu).            *)
(***************************************************************************)
EXTENDS Spinlock, Integers, Sequences, FiniteSets

CONSTANTS NCPU,     \* entries of cpus[] and percpu_kstacks[]
          Tables,   \* configuration tables the machine may have
          NoTable   \* mpconfig() found none it accepts

\* Entries: a processor is MPPROC, "boot" with MPPROC_BOOT; "bus" the 8-byte ones.
Entries == {"boot", "proc", "bus", "unknown"}
IsProc(e) == e \in {"boot", "proc"}

\* How many processors are listed before position p.
ProcsBefore(t, p) == Cardinality({j \in 1..p-1 : IsProc(t[j])})

\* Each table lists one boot processor, among its first NCPU, and processors that exist.
ASSUME SmpAssumption ==
  /\ NCPU \in Nat \ {0}
  /\ NoTable \notin Tables
  /\ Cpus \subseteq Nat /\ 0 \in Cpus
  /\ \A t \in Tables :
       /\ t \in Seq(Entries)
       /\ \E p \in DOMAIN t : /\ t[p] = "boot" /\ ProcsBefore(t, p) < NCPU
                              /\ \A q \in DOMAIN t : t[q] = "boot" => q = p
       /\ \A p \in DOMAIN t : IsProc(t[p]) => ProcsBefore(t, p) \in Cpus

VARIABLES table,          \* what the firmware left in memory
          mp,             \* [ismp, ncpu, bootcpu, lapic]
          i,              \* mp_init: its loop variable
          bpc, c,         \* boot_aps: where it is, and its loop variable
          mpentry_kstack, \* index of the stack handed to the next processor
          cpu_status,     \* cpus[].cpu_status
          apc,            \* what each processor executes
          esp             \* the stack each runs on, an index or NoCpu

bootVars == <<table, mp, i, bpc, c, mpentry_kstack, cpu_status, apc, esp>>
vars == <<bootVars, lockVars>>

\* The processor the machine starts on.
BootId(t) == IF t = NoTable THEN 0
             ELSE ProcsBefore(t, CHOOSE p \in DOMAIN t : t[p] = "boot")

\* cpunum(): the local APIC's id once it is mapped.
cpunum(h) == IF mp.lapic THEN h ELSE 0

Init ==
  /\ table \in Tables \cup {NoTable}
  /\ mp = [ismp |-> FALSE, ncpu |-> 0, bootcpu |-> 0, lapic |-> FALSE]
  /\ bpc = "mp_init" /\ i = 0 /\ c = 0
  /\ mpentry_kstack = NoCpu
  /\ cpu_status = [n \in 0..NCPU-1 |-> "unused"]
  /\ apc = [h \in Cpus |-> IF h = BootId(table) THEN "up" ELSE "off"]
  /\ esp = [h \in Cpus |-> NoCpu]
  /\ SpinInit

(***************************************************************************)
(* mp_init                                                                 *)
(***************************************************************************)
mp_init_start ==
  /\ bpc = "mp_init"
  /\ IF table = NoTable THEN bpc' = "loop" /\ UNCHANGED mp
     ELSE bpc' = "entry" /\ mp' = [mp EXCEPT !.ismp = TRUE]
  /\ UNCHANGED <<table, i, c, mpentry_kstack, cpu_status, apc, esp, lockVars>>

\* One turn of the loop.  After an unknown entry, whose length is not known, the
\* rest is skipped.
mp_entry(e) ==
  \/ /\ IsProc(e)
     /\ mp' = [mp EXCEPT !.bootcpu = IF e = "boot" THEN mp.ncpu ELSE mp.bootcpu,
                         !.ncpu = IF mp.ncpu < NCPU THEN mp.ncpu + 1 ELSE mp.ncpu]
     /\ i' = i + 1
  \/ e = "bus" /\ i' = i + 1 /\ UNCHANGED mp
  \/ e = "unknown" /\ mp' = [mp EXCEPT !.ismp = FALSE] /\ i' = Len(table) + 1

mp_init_loop ==
  /\ bpc = "entry" /\ i < Len(table)
  /\ mp_entry(table[i + 1])
  /\ UNCHANGED <<table, bpc, c, mpentry_kstack, cpu_status, apc, esp, lockVars>>

mp_init_end ==
  /\ bpc = "entry" /\ i >= Len(table)
  /\ cpu_status' = [cpu_status EXCEPT ![mp.bootcpu] = "started"]
  /\ mp' = [mp EXCEPT !.lapic = mp.ismp, !.ncpu = IF mp.ismp THEN mp.ncpu ELSE 1]
  /\ bpc' = "loop"
  /\ UNCHANGED <<table, i, c, mpentry_kstack, apc, esp, lockVars>>

mp_init == mp_init_start \/ mp_init_loop \/ mp_init_end

(***************************************************************************)
(* boot_aps and lapic_startap                                              *)
(***************************************************************************)
\* Mutant: the boot processor is not skipped.
SkipSelf_never == FALSE

SkipSelf == c = cpunum(BootId(table))

boot_aps_next ==
  /\ bpc = "loop"
  /\ CASE c >= mp.ncpu -> bpc' = "done" /\ UNCHANGED <<c, mpentry_kstack>>
       [] c < mp.ncpu /\ SkipSelf -> c' = c + 1 /\ UNCHANGED <<bpc, mpentry_kstack>>
       [] OTHER -> mpentry_kstack' = c /\ bpc' = "init" /\ UNCHANGED c
  /\ UNCHANGED <<table, mp, i, cpu_status, apc, esp, lockVars>>

\* INIT resets processor cpu_id = c whatever it is doing.
startap_init ==
  /\ bpc = "init"
  /\ apc' = [apc EXCEPT ![c] = "reset"]
  /\ bpc' = "startup1"
  /\ UNCHANGED <<table, mp, i, c, mpentry_kstack, cpu_status, esp, lockVars>>

\* STARTUP, sent twice; a processor accepts it only after INIT.
startap_startup ==
  /\ bpc \in {"startup1", "startup2"}
  /\ apc' = [apc EXCEPT ![c] = IF @ = "reset" THEN "mpentry" ELSE @]
  /\ bpc' = IF bpc = "startup1" THEN "startup2" ELSE "wait"
  /\ UNCHANGED <<table, mp, i, c, mpentry_kstack, cpu_status, esp, lockVars>>

\* Mutant: the next processor is started without waiting for this one.
boot_aps_wait_not ==
  /\ bpc = "wait"
  /\ c' = c + 1
  /\ bpc' = "loop"
  /\ UNCHANGED <<table, mp, i, mpentry_kstack, cpu_status, apc, esp, lockVars>>

boot_aps_wait ==
  /\ bpc = "wait"
  /\ cpu_status[c] = "started"
  /\ c' = c + 1
  /\ bpc' = "loop"
  /\ UNCHANGED <<table, mp, i, mpentry_kstack, cpu_status, apc, esp, lockVars>>

(***************************************************************************)
(* The other processors: mpentry.S and mp_main                             *)
(***************************************************************************)
mpentry_start(h) ==
  /\ apc[h] = "mpentry"
  /\ esp' = [esp EXCEPT ![h] = mpentry_kstack]
  /\ apc' = [apc EXCEPT ![h] = "mp_main"]
  /\ UNCHANGED <<table, mp, i, bpc, c, mpentry_kstack, cpu_status, lockVars>>

\* Mutant: the boot processor's status is set instead of this one's.
mp_main_boot(h) ==
  /\ apc[h] = "mp_main"
  /\ cpu_status' = [cpu_status EXCEPT ![mp.bootcpu] = "started"]
  /\ apc' = [apc EXCEPT ![h] = "up"]
  /\ UNCHANGED <<table, mp, i, bpc, c, mpentry_kstack, esp, lockVars>>

\* lapic_init, env_init_percpu and trap_init_percpu, then the report.
mp_main(h) ==
  /\ apc[h] = "mp_main"
  /\ cpu_status' = [cpu_status EXCEPT ![cpunum(h)] = "started"]
  /\ apc' = [apc EXCEPT ![h] = "up"]
  /\ UNCHANGED <<table, mp, i, bpc, c, mpentry_kstack, esp, lockVars>>

\* lock_kernel and unlock_kernel by a processor that is up.
KernelLock(h) ==
  /\ apc[h] = "up"
  /\ h = BootId(table) => bpc = "done"
  /\ spin_lock(h) \/ spin_unlock(h)
  /\ UNCHANGED bootVars

boot_aps == boot_aps_next \/ startap_init \/ startap_startup \/ boot_aps_wait

Next ==
  \/ mp_init
  \/ boot_aps
  \/ \E h \in Cpus : mpentry_start(h) \/ mp_main(h) \/ KernelLock(h)

\* Every processor goes on executing; a processor that does not want the lock
\* may stay out of it.
Fairness ==
  /\ WF_vars(mp_init \/ boot_aps)
  /\ \A h \in Cpus : /\ WF_vars(mpentry_start(h) \/ mp_main(h))
                     /\ WF_vars(at[h] # "out" /\ KernelLock(h))

Spec == Init /\ [][Next]_vars /\ Fairness

-----------------------------------------------------------------------------
(***************************************************************************)
(* Properties                                                              *)
(***************************************************************************)
\* mpentry_kstack is one variable for all processors (kern/init.c:89): each still
\* runs on the stack of its own number, so no two share one.
StacksOwn == \A h \in Cpus : apc[h] \in {"mp_main", "up"} /\ h # BootId(table) => esp[h] = h

\* INIT resets its target: boot_aps never sends it to a processor that runs
\* (kern/init.c:105, "We've started already").
NeverReset == [][\A h \in Cpus : apc[h] = "up" => apc'[h] = "up"]_vars

\* boot_aps returns, with every processor of a table it understood (up to NCPU)
\* running; with no table, or one it did not understand, none but the boot processor.
Started ==
  <>[](/\ bpc = "done"
       /\ \A h \in Cpus : apc[h] = "up" <=>
            \/ h = BootId(table)
            \/ /\ table # NoTable /\ \A p \in DOMAIN table : table[p] # "unknown"
               /\ h < NCPU /\ h < ProcsBefore(table, Len(table) + 1))

\* Processors that wait for the lock are not all left waiting: the owner always
\* reaches the exchange that gives it up.
LockReleased == \A h \in Cpus : at[h] = "xchg" ~> \E d \in Cpus : at[d] = "drop"

=============================================================================
