------------------------------ MODULE Spinlock ------------------------------
(***************************************************************************)
(* kern/spinlock.c: a test-and-set lock with its debugging fields, taken   *)
(* and released by several processors at once.  A step is one access to    *)
(* the lock's memory, so that the two reads of holding(), the exchange and *)
(* the writes of the debugging fields interleave as they do on the bus.    *)
(* The order of a processor's own accesses is the order of the source: the *)
(* exchanges are locked instructions, and the one in spin_unlock follows   *)
(* the write of lk->cpu.                                                   *)
(***************************************************************************)
EXTENDS Naturals

CONSTANTS Cpus,     \* the processors
          NoCpu     \* lk->cpu = 0

ASSUME NoCpuAssumption == NoCpu \notin Cpus

VARIABLES locked,   \* lk->locked
          lk_cpu,   \* lk->cpu
          at        \* where in spin_lock or spin_unlock each processor is

lockVars == <<locked, lk_cpu, at>>

\* "cmp": holding() has read locked = 1.  "xchg": in the loop of spin_lock.
\* "record": has the lock, lk->cpu not yet written.  "release": in
\* spin_unlock, holding() has read locked = 1.
Places == {"out", "cmp", "xchg", "record", "in", "release", "clear", "drop",
           "panic"}

Goto(c, p) == at' = [at EXCEPT ![c] = p]

spin_initlock ==
  /\ locked = 0
  /\ lk_cpu = NoCpu
  /\ at = [c \in Cpus |-> "out"]

(***************************************************************************)
(* spin_lock: panic when holding(), then exchange until the old value is 0,*)
(* then record the owner.                                                  *)
(***************************************************************************)
LockRead(c) ==
  /\ at[c] = "out"
  /\ Goto(c, IF locked = 1 THEN "cmp" ELSE "xchg")
  /\ UNCHANGED <<locked, lk_cpu>>

LockCompare(c) ==
  /\ at[c] = "cmp"
  /\ Goto(c, IF lk_cpu = c THEN "panic" ELSE "xchg")
  /\ UNCHANGED <<locked, lk_cpu>>

\* Mutant: the exchange and the test are two accesses, so a processor takes the
\* lock it has not tested.
Xchg_untested(c) ==
  /\ at[c] = "xchg"
  /\ locked' = 1
  /\ Goto(c, "record")
  /\ UNCHANGED lk_cpu

Xchg(c) ==
  /\ at[c] = "xchg"
  /\ locked' = 1
  /\ \/ locked = 0 /\ Goto(c, "record")
     \/ locked = 1 /\ UNCHANGED at
  /\ UNCHANGED lk_cpu

Record(c) ==
  /\ at[c] = "record"
  /\ lk_cpu' = c
  /\ Goto(c, "in")
  /\ UNCHANGED locked

(***************************************************************************)
(* spin_unlock: panic unless holding(), clear the debugging fields, then   *)
(* give the lock up with an exchange.                                      *)
(***************************************************************************)
UnlockRead(c) ==
  /\ at[c] = "in"
  /\ Goto(c, IF locked = 1 THEN "release" ELSE "panic")
  /\ UNCHANGED <<locked, lk_cpu>>

UnlockCompare(c) ==
  /\ at[c] = "release"
  /\ Goto(c, IF lk_cpu = c THEN "clear" ELSE "panic")
  /\ UNCHANGED <<locked, lk_cpu>>

\* Mutant: lk->cpu is not cleared.
Clear_keep(c) ==
  /\ at[c] = "clear"
  /\ Goto(c, "drop")
  /\ UNCHANGED <<locked, lk_cpu>>

Clear(c) ==
  /\ at[c] = "clear"
  /\ lk_cpu' = NoCpu
  /\ Goto(c, "drop")
  /\ UNCHANGED locked

\* Mutant: the lock is not given up.
Drop_keep(c) ==
  /\ at[c] = "drop"
  /\ Goto(c, "out")
  /\ UNCHANGED <<locked, lk_cpu>>

Drop(c) ==
  /\ at[c] = "drop"
  /\ locked' = 0
  /\ Goto(c, "out")
  /\ UNCHANGED lk_cpu

spin_lock(c)   == LockRead(c) \/ LockCompare(c) \/ Xchg(c) \/ Record(c)
spin_unlock(c) == UnlockRead(c) \/ UnlockCompare(c) \/ Clear(c) \/ Drop(c)

SpinInit == spin_initlock
SpinNext == \E c \in Cpus : spin_lock(c) \/ spin_unlock(c)
SpinSpec == SpinInit /\ [][SpinNext]_lockVars

-----------------------------------------------------------------------------
SpinTypeOK ==
  /\ locked \in {0, 1}
  /\ lk_cpu \in Cpus \cup {NoCpu}
  /\ at \in [Cpus -> Places]

\* The processors between the successful exchange and the one that gives the
\* lock up, and those of them whose name is in lk->cpu.
Owns(c)     == at[c] \in {"record", "in", "release", "clear", "drop"}
Recorded(c) == at[c] \in {"in", "release", "clear"}

\* No two processors are inside the lock, however their exchanges, their reads
\* of the debugging fields and their releases interleave.
MutualExclusion == \A c, d \in Cpus : Owns(c) /\ Owns(d) => c = d

\* holding() reads locked and cpu without holding the lock, so it may combine the
\* 1 of one owner with the cpu of another.  A processor that takes and releases
\* the lock in turn never panics for it.
NoSpinPanic == \A c \in Cpus : at[c] # "panic"

=============================================================================
