----------------------------- MODULE SmpProofs ------------------------------
(***************************************************************************)
(* The spin lock keeps any number of processors apart; the processors that *)
(* boot_aps starts use it as Spinlock describes, each is started once and  *)
(* each runs on its own stack.                                             *)
(***************************************************************************)
EXTENDS Smp, FiniteSetTheorems, TLAPS

(***************************************************************************)
(* The lock                                                                *)
(***************************************************************************)
\* The inductive invariant.  lk->cpu names a processor exactly while that
\* processor is between the two writes of the field.
SpinInv ==
  /\ SpinTypeOK
  /\ MutualExclusion
  /\ NoSpinPanic
  /\ \A p \in Cpus : Owns(p) => locked = 1
  /\ \A p \in Cpus : Recorded(p) <=> lk_cpu = p

\* The lock starts free, with nobody recorded (__spin_initlock).
LEMMA SpinInitInv == SpinInit => SpinInv
  BY NoCpuAssumption
     DEF SpinInit, spin_initlock, SpinInv, SpinTypeOK, MutualExclusion, NoSpinPanic,
         Owns, Recorded, Places

\* Every access of spin_lock keeps the invariant: the exchange succeeds only when
\* nobody owns the lock, and the comparison cannot find the reader itself.
LEMMA SpinLockStep ==
  ASSUME SpinInv, NEW p \in Cpus, spin_lock(p)
  PROVE  SpinInv'
<1> USE NoCpuAssumption DEF SpinInv, SpinTypeOK, MutualExclusion, NoSpinPanic, Owns,
                            Recorded, Places, Goto
<1>1. CASE LockRead(p)
  BY <1>1 DEF LockRead
<1>2. CASE LockCompare(p)
  BY <1>2 DEF LockCompare
<1>3. CASE Xchg(p)
  BY <1>3 DEF Xchg
<1>4. CASE Record(p)
  BY <1>4 DEF Record
<1>5. QED
  BY <1>1, <1>2, <1>3, <1>4 DEF spin_lock

\* Every access of spin_unlock keeps the invariant: the owner finds itself in
\* lk->cpu and has removed itself when it gives the lock up.
LEMMA SpinUnlockStep ==
  ASSUME SpinInv, NEW p \in Cpus, spin_unlock(p)
  PROVE  SpinInv'
<1> USE NoCpuAssumption DEF SpinInv, SpinTypeOK, MutualExclusion, NoSpinPanic, Owns,
                            Recorded, Places, Goto
<1>1. CASE UnlockRead(p)
  BY <1>1 DEF UnlockRead
<1>2. CASE UnlockCompare(p)
  BY <1>2 DEF UnlockCompare
<1>3. CASE Clear(p)
  BY <1>3 DEF Clear
<1>4. CASE Drop(p)
  BY <1>4 DEF Drop
<1>5. QED
  BY <1>1, <1>2, <1>3, <1>4 DEF spin_unlock

\* spin_lock and spin_unlock keep any number of processors apart, and their
\* debugging checks never panic for processors that pair the two.
THEOREM SpinSafety == SpinSpec => [](SpinTypeOK /\ MutualExclusion /\ NoSpinPanic)
<1>1. SpinInit => SpinInv
  BY SpinInitInv
<1>2. SpinInv /\ [SpinNext]_lockVars => SpinInv'
  <2> SUFFICES ASSUME SpinInv, [SpinNext]_lockVars PROVE SpinInv'
    OBVIOUS
  <2>1. CASE SpinNext
    BY <2>1, SpinLockStep, SpinUnlockStep DEF SpinNext
  <2>2. CASE UNCHANGED lockVars
    BY <2>2 DEF lockVars, SpinInv, SpinTypeOK, MutualExclusion, NoSpinPanic, Owns, Recorded
  <2>3. QED
    BY <2>1, <2>2
<1>3. SpinInv => SpinTypeOK /\ MutualExclusion /\ NoSpinPanic
  BY DEF SpinInv
<1>4. QED
  BY <1>1, <1>2, <1>3, PTL DEF SpinSpec

-----------------------------------------------------------------------------
(***************************************************************************)
(* The lock in the machine                                                 *)
(***************************************************************************)
\* Starting processors never touches the lock, and a processor that is up makes
\* only steps of spin_lock and spin_unlock: whatever the configuration table.
THEOREM SmpImplementsSpin == Spec => SpinSpec
<1>1. Init => SpinInit
  BY DEF Init
<1>2. [Next]_vars => [SpinNext]_lockVars
  <2> SUFFICES ASSUME Next PROVE SpinNext \/ UNCHANGED lockVars
    BY DEF vars, lockVars
  <2>1. CASE mp_init
    BY <2>1 DEF mp_init, mp_init_start, mp_init_loop, mp_init_end, lockVars
  <2>2. CASE boot_aps
    BY <2>2 DEF boot_aps, boot_aps_next, startap_init, startap_startup, boot_aps_wait,
                lockVars
  <2>3. ASSUME NEW h \in Cpus, mpentry_start(h) \/ mp_main(h) \/ KernelLock(h)
        PROVE  SpinNext \/ UNCHANGED lockVars
    BY <2>3 DEF mpentry_start, mp_main, KernelLock, SpinNext, lockVars
  <2>4. QED
    BY <2>1, <2>2, <2>3 DEF Next
<1>3. QED
  BY <1>1, <1>2, PTL DEF Spec, SpinSpec

\* No two processors hold the kernel lock, and none panics in its checks, while
\* and after boot_aps starts them.
THEOREM SmpLockSafety == Spec => [](MutualExclusion /\ NoSpinPanic)
  BY SmpImplementsSpin, SpinSafety, PTL

-----------------------------------------------------------------------------
(***************************************************************************)
(* The start of the processors: each on its own stack, and none twice.     *)
(***************************************************************************)
Booting  == {"mp_init", "entry"}
Underway == {"startup1", "startup2", "wait"}
Handing  == Underway \cup {"init"}
Entering == {"reset", "mpentry", "mp_main"}

SmpTypeOK ==
  /\ table \in Tables \cup {NoTable}
  /\ mp \in [ismp : BOOLEAN, ncpu : Nat, bootcpu : Nat, lapic : BOOLEAN]
  /\ i \in Nat /\ c \in Nat
  /\ bpc \in Booting \cup Handing \cup {"loop", "done"}
  /\ cpu_status \in [0..NCPU-1 -> {"unused", "started"}]
  /\ apc \in [Cpus -> Entering \cup {"off", "up"}]
  /\ esp \in [Cpus -> Nat \cup {NoCpu}]

\* mp_init: ncpu counts the processors read so far, up to NCPU, and once the boot
\* processor has been read bootcpu is its number.
Counted ==
  /\ bpc = "mp_init" => i = 0 /\ mp.ncpu = 0 /\ ~mp.ismp
  /\ bpc \in Booting => c = 0 /\ ~mp.lapic
  /\ bpc = "entry" =>
       /\ table \in Tables
       /\ mp.ismp => /\ i <= Len(table)
                     /\ mp.ncpu = IF ProcsBefore(table, i + 1) < NCPU
                                  THEN ProcsBefore(table, i + 1) ELSE NCPU
                     /\ \A n \in 0..mp.ncpu-1 : n \in Cpus
                     /\ \A p \in 1..i : table[p] = "boot" => mp.bootcpu = BootId(table)

\* After mp_init: with the local APIC mapped the table is understood; without it there
\* is nobody to start.
Listed ==
  bpc \notin Booting =>
    IF mp.lapic THEN /\ mp.bootcpu = BootId(table)
                     /\ mp.ncpu <= NCPU
                     /\ \A n \in 0..mp.ncpu-1 : n \in Cpus
    ELSE mp.ncpu <= 1

\* boot_aps: the processor being started is listed, is not the one that starts it, and
\* mpentry_kstack holds its number until it has reported.
OneAtATime ==
  /\ bpc \in Handing => /\ c < mp.ncpu /\ mp.lapic /\ c # BootId(table)
                        /\ mpentry_kstack = c
  /\ \A h \in Cpus : apc[h] \in Entering => h = c /\ bpc \in Underway
  /\ \A h \in Cpus : h # BootId(table) /\ (h > c \/ (h = c /\ bpc \notin Underway))
                       => apc[h] = "off"
  /\ BootId(table) \in Cpus /\ apc[BootId(table)] = "up"

\* A status that boot_aps takes for an answer was written by the processor itself.
StatusTrue ==
  \A n \in 0..NCPU-1 : cpu_status[n] = "started" =>
    bpc \notin Booting /\ (n = mp.bootcpu \/ (n \in Cpus /\ apc[n] = "up"))

SmpInv == SmpTypeOK /\ Counted /\ Listed /\ OneAtATime /\ StatusTrue /\ StacksOwn

-----------------------------------------------------------------------------
\* One more entry read is one more processor counted, if it is one: ncpu++ of mp_init.
LEMMA ProcsBeforeStep ==
  ASSUME NEW t, NEW p \in Nat \ {0}
  PROVE  /\ ProcsBefore(t, p) \in Nat
         /\ ProcsBefore(t, 1) = 0
         /\ ProcsBefore(t, p + 1) = IF IsProc(t[p]) THEN ProcsBefore(t, p) + 1
                                    ELSE ProcsBefore(t, p)
<1> DEFINE S(q) == {j \in 1..q-1 : IsProc(t[j])}
<1>1. ASSUME NEW q \in Nat \ {0} PROVE IsFiniteSet(S(q))
  <2>1. IsFiniteSet(1..q-1) /\ S(q) \in SUBSET (1..q-1)
    BY FS_Interval
  <2>2. QED
    BY <2>1, FS_Subset
<1>2. IsFiniteSet(S(p)) /\ Cardinality(S(p)) \in Nat
  BY <1>1, FS_CardinalityType
<1>3. S(1) = {}
  OBVIOUS
<1>4. Cardinality(S(1)) = 0
  BY <1>3, FS_EmptySet
<1>5. CASE IsProc(t[p])
  <2>1. S(p + 1) = S(p) \cup {p} /\ p \notin S(p)
    BY <1>5
  <2>2. Cardinality(S(p) \cup {p}) = Cardinality(S(p)) + 1
    BY <2>1, <1>2, FS_AddElement
  <2>3. QED
    BY <1>2, <1>4, <1>5, <2>1, <2>2 DEF ProcsBefore
<1>6. CASE ~IsProc(t[p])
  <2>1. S(p + 1) = S(p)
    BY <1>6
  <2>2. QED
    BY <1>2, <1>4, <1>6, <2>1 DEF ProcsBefore
<1>7. QED
  BY <1>5, <1>6

\* The boot processor of a table: the entry with MPPROC_BOOT, whose number is below
\* NCPU, so that cpus[ncpu] exists when mp_init meets it.
LEMMA BootOfTable ==
  ASSUME NEW t \in Tables
  PROVE  /\ BootId(t) \in Cpus /\ BootId(t) < NCPU
         /\ Len(t) \in Nat /\ DOMAIN t = 1..Len(t)
         /\ \A p \in 1..Len(t) : t[p] \in Entries
         /\ \E p \in 1..Len(t) : t[p] = "boot"
         /\ \A p \in 1..Len(t) : t[p] = "boot" => BootId(t) = ProcsBefore(t, p)
<1>1. t # NoTable /\ t \in Seq(Entries)
  BY SmpAssumption
<1>2. /\ Len(t) \in Nat /\ DOMAIN t = 1..Len(t)
      /\ \A p \in 1..Len(t) : t[p] \in Entries
  BY <1>1
<1>3. PICK p \in DOMAIN t : /\ t[p] = "boot" /\ ProcsBefore(t, p) < NCPU
                            /\ \A q \in DOMAIN t : t[q] = "boot" => q = p
  BY SmpAssumption
<1>4. (CHOOSE q \in DOMAIN t : t[q] = "boot") = p
  BY <1>3
<1>5. BootId(t) = ProcsBefore(t, p)
  BY <1>1, <1>4 DEF BootId
<1>6. IsProc(t[p])
  BY <1>3 DEF IsProc
<1>7. ProcsBefore(t, p) \in Cpus
  BY <1>3, <1>6, SmpAssumption
<1>8. QED
  BY <1>2, <1>3, <1>5, <1>7

\* Without a table the machine starts on processor 0.
LEMMA BootExists ==
  ASSUME table \in Tables \cup {NoTable}
  PROVE  BootId(table) \in Cpus
<1>1. CASE table \in Tables
  BY <1>1, BootOfTable
<1>2. CASE table = NoTable
  BY <1>2, SmpAssumption DEF BootId
<1>3. QED
  BY <1>1, <1>2

\* Power-on: only the boot processor runs.
LEMMA SmpInitInv == Init => SmpInv
<1> SUFFICES ASSUME Init PROVE SmpInv
  OBVIOUS
<1> USE DEF Init
<1>1. BootId(table) \in Cpus
  BY BootExists
<1>2. SmpTypeOK
  BY <1>1, SmpAssumption DEF SmpTypeOK, Booting, Handing, Underway, Entering
<1>3. Counted /\ Listed
  BY DEF Counted, Listed, Booting
<1>4. OneAtATime
  BY <1>1 DEF OneAtATime, Handing, Underway, Entering
<1>5. StatusTrue /\ StacksOwn
  BY DEF StatusTrue, StacksOwn
<1>6. QED
  BY <1>2, <1>3, <1>4, <1>5 DEF SmpInv
\* The three parts of mp_init keep the count, and name the boot processor.
LEMMA MpInitStep ==
  ASSUME SmpInv, mp_init
  PROVE  SmpInv'
<1> USE DEF SmpInv
<1>0. BootId(table) \in Cpus /\ table' = table /\ BootId(table)' = BootId(table)
  BY BootExists DEF SmpTypeOK, mp_init, mp_init_start, mp_init_loop, mp_init_end
<1>1. CASE mp_init_start
  <2> USE <1>1 DEF mp_init_start
  <2>1. SmpTypeOK'
    <3>1. mp' \in [ismp : BOOLEAN, ncpu : Nat, bootcpu : Nat, lapic : BOOLEAN]
      BY Zenon DEF SmpTypeOK
    <3>2. QED
      BY <3>1 DEF SmpTypeOK, Booting
  <2>2. ProcsBefore(table, 1) = 0
    BY ProcsBeforeStep
  <2>3. CASE table = NoTable
    <3>1. Counted'
      BY <2>3 DEF Counted, Booting
    <3>2. Listed'
      BY <2>3 DEF Counted, Listed, Booting
    <3>3. QED
      BY <2>1, <2>3, <3>1, <3>2, <1>0
         DEF OneAtATime, StatusTrue, StacksOwn, Booting, Handing, Underway
  <2>4. CASE table # NoTable
    <3>1. /\ table \in Tables /\ bpc' = "entry" /\ i' = 0 /\ c' = 0 /\ Len(table) \in Nat
          /\ mp'.ismp /\ mp'.ncpu = 0 /\ ~mp'.lapic
      BY <2>4, BootOfTable DEF SmpTypeOK, Counted, Booting
    <3>2. Counted'
      BY <1>0, <2>2, <3>1, SmpAssumption DEF Counted, Booting
    <3>3. Listed'
      BY <3>1 DEF Listed, Booting
    <3>4. QED
      BY <2>1, <3>1, <3>2, <3>3, <1>0
         DEF OneAtATime, StatusTrue, StacksOwn, Booting, Handing, Underway
  <2>5. QED
    BY <2>3, <2>4
<1>2. CASE mp_init_loop
  <2> USE <1>2 DEF mp_init_loop
  <2>1. /\ table \in Tables /\ i \in Nat /\ i + 1 \in 1..Len(table) /\ Len(table) \in Nat
        /\ bpc = "entry" /\ bpc' = "entry" /\ c = 0 /\ c' = 0 /\ ~mp.lapic
    BY BootOfTable DEF Counted, Booting, SmpTypeOK
  <2>2. /\ ProcsBefore(table, i + 1) \in Nat
        /\ ProcsBefore(table, i + 2) = IF IsProc(table[i + 1]) THEN ProcsBefore(table, i + 1) + 1
                                       ELSE ProcsBefore(table, i + 1)
    <3>1. i + 1 \in Nat \ {0} /\ (i + 1) + 1 = i + 2
      BY <2>1
    <3>2. QED
      BY <3>1, ProcsBeforeStep
  <2>3. mp_entry(table[i + 1])
    OBVIOUS
  <2>4. /\ mp' \in [ismp : BOOLEAN, ncpu : Nat, bootcpu : Nat, lapic : BOOLEAN]
        /\ i' \in Nat /\ ~mp'.lapic
    <3> DEFINE MpType == [ismp : BOOLEAN, ncpu : Nat, bootcpu : Nat, lapic : BOOLEAN]
    <3>1. mp \in MpType
      BY DEF SmpTypeOK
    <3>2. ASSUME NEW b \in Nat, NEW n \in Nat
          PROVE  /\ [mp EXCEPT !.bootcpu = b, !.ncpu = n] \in MpType
                 /\ [mp EXCEPT !.ismp = FALSE] \in MpType
      BY <3>1
    <3>3. mp.ncpu \in Nat /\ mp.bootcpu \in Nat
      BY <3>1
    <3>4. \E b, n \in Nat : \/ mp' = [mp EXCEPT !.bootcpu = b, !.ncpu = n]
                            \/ mp' = mp
                            \/ mp' = [mp EXCEPT !.ismp = FALSE]
      <4> DEFINE b == IF table[i + 1] = "boot" THEN mp.ncpu ELSE mp.bootcpu
                 n == IF mp.ncpu < NCPU THEN mp.ncpu + 1 ELSE mp.ncpu
      <4>1. b \in Nat /\ n \in Nat
        BY <3>3
      <4>2. \/ mp' = [mp EXCEPT !.bootcpu = b, !.ncpu = n]
            \/ mp' = mp
            \/ mp' = [mp EXCEPT !.ismp = FALSE]
        BY <2>3, Zenon DEF mp_entry
      <4> HIDE DEF b, n
      <4>3. QED
        BY <4>1, <4>2
    <3>7. mp' \in MpType
      BY <3>1, <3>2, <3>4
    <3>8. i' \in Nat
      BY <2>1, <2>3 DEF mp_entry
    <3>5. ~mp'.lapic
      BY <2>1, <2>3, <3>1 DEF mp_entry
    <3>6. QED
      BY <3>5, <3>7, <3>8
  <2>5. SmpTypeOK'
    BY <2>1, <2>4 DEF SmpTypeOK
  <2>6. Counted'
    <3>1. CASE IsProc(table[i + 1])
      <4>1. /\ mp'.ismp = mp.ismp /\ i' = i + 1
            /\ mp'.bootcpu = IF table[i + 1] = "boot" THEN mp.ncpu ELSE mp.bootcpu
            /\ mp'.ncpu = IF mp.ncpu < NCPU THEN mp.ncpu + 1 ELSE mp.ncpu
        BY <2>3, <3>1 DEF mp_entry, IsProc, SmpTypeOK
      <4> SUFFICES ASSUME mp.ismp
                   PROVE  /\ i + 1 <= Len(table)
                          /\ mp'.ncpu = IF ProcsBefore(table, i + 2) < NCPU
                                        THEN ProcsBefore(table, i + 2) ELSE NCPU
                          /\ \A n \in 0..mp'.ncpu-1 : n \in Cpus
                          /\ \A p \in 1..i+1 : table[p] = "boot" => mp'.bootcpu = BootId(table)
        BY <1>0, <2>1, <2>4, <4>1 DEF Counted, Booting
      <4>2. /\ mp.ncpu = IF ProcsBefore(table, i + 1) < NCPU
                         THEN ProcsBefore(table, i + 1) ELSE NCPU
            /\ \A n \in 0..mp.ncpu-1 : n \in Cpus
            /\ \A p \in 1..i : table[p] = "boot" => mp.bootcpu = BootId(table)
        BY <2>1 DEF Counted
      <4>3. mp'.ncpu = IF ProcsBefore(table, i + 2) < NCPU
                       THEN ProcsBefore(table, i + 2) ELSE NCPU
        BY <2>2, <3>1, <4>1, <4>2, SmpAssumption
      <4>4. ProcsBefore(table, i + 1) \in Cpus
        <5>1. i + 1 \in DOMAIN table
          BY <2>1, BootOfTable
        <5>2. QED
          BY <2>1, <3>1, <5>1, SmpAssumption
      <4>5. \A n \in 0..mp'.ncpu-1 : n \in Cpus
        BY <2>2, <4>1, <4>2, <4>4, SmpAssumption
      <4>6. ASSUME NEW p \in 1..i+1, table[p] = "boot" PROVE mp'.bootcpu = BootId(table)
        <5>1. BootId(table) = ProcsBefore(table, p) /\ BootId(table) < NCPU
          BY <2>1, <4>6, BootOfTable
        <5>2. CASE p = i + 1
          BY <5>1, <5>2, <4>1, <4>2, <4>6
        <5>3. CASE p # i + 1
          <6>1. p \in 1..i
            BY <2>1, <5>3
          <6>2. mp.bootcpu = BootId(table)
            BY <6>1, <4>2, <4>6
          <6>3. table[i + 1] # "boot"
            <7>1. PICK q \in DOMAIN table : \A r \in DOMAIN table : table[r] = "boot" => r = q
              BY <2>1, SmpAssumption
            <7>2. DOMAIN table = 1..Len(table)
              BY <2>1, BootOfTable
            <7>3. p \in DOMAIN table /\ i + 1 \in DOMAIN table
              BY <2>1, <6>1, <7>2
            <7>4. QED
              BY <7>1, <7>3, <4>6, <5>3
          <6>4. QED
            BY <4>1, <6>2, <6>3
        <5>4. QED
          BY <5>2, <5>3
      <4>7. QED
        BY <2>1, <4>3, <4>5, <4>6
    <3>2. CASE table[i + 1] = "bus"
      <4>1. mp' = mp /\ i' = i + 1
        BY <2>3, <3>2 DEF mp_entry, IsProc
      <4>2. ~IsProc(table[i + 1])
        BY <3>2 DEF IsProc
      <4>3. \A p \in 1..i+1 : p \in 1..i \/ p = i + 1
        BY <2>1
      <4>4. i' + 1 = i + 2
        BY <2>1, <4>1
      <4>5. QED
        BY <1>0, <2>1, <2>2, <2>4, <3>2, <4>1, <4>2, <4>3, <4>4 DEF Counted, Booting
    <3>3. CASE table[i + 1] = "unknown"
      <4>1. ~mp'.ismp
        BY <2>3, <3>3 DEF mp_entry, IsProc, SmpTypeOK
      <4>2. QED
        BY <1>0, <2>1, <2>4, <4>1 DEF Counted, Booting
    <3>4. QED
      BY <2>3, <3>1, <3>2, <3>3 DEF mp_entry
  <2>7. Listed' /\ OneAtATime' /\ StatusTrue' /\ StacksOwn'
    BY <1>0, <2>1 DEF Listed, OneAtATime, StatusTrue, StacksOwn, Booting, Handing, Underway
  <2>8. QED
    BY <2>5, <2>6, <2>7
<1>3. CASE mp_init_end
  <2> USE <1>3 DEF mp_init_end
  <2>1. /\ bpc' = "loop" /\ c = 0 /\ c' = 0 /\ mp'.lapic = mp.ismp
        /\ mp'.bootcpu = mp.bootcpu /\ mp'.ncpu = IF mp.ismp THEN mp.ncpu ELSE 1
        /\ table \in Tables /\ Len(table) \in Nat /\ i \in Nat
    BY BootOfTable DEF SmpTypeOK, Counted, Booting
  <2>2. SmpTypeOK'
    BY DEF SmpTypeOK
  <2>3. Counted'
    BY <2>1 DEF Counted, Booting
  <2>4. Listed'
    <3>1. CASE mp.ismp
      <4>1. i = Len(table)
        BY <2>1, <3>1 DEF Counted
      <4>2. PICK p \in 1..i : table[p] = "boot"
        BY <2>1, <4>1, BootOfTable
      <4>3. mp.bootcpu = BootId(table) /\ \A n \in 0..mp.ncpu-1 : n \in Cpus
        BY <3>1, <4>2 DEF Counted
      <4>4. mp.ncpu <= NCPU
        <5>1. ProcsBefore(table, i + 1) \in Nat
          BY <2>1, ProcsBeforeStep
        <5>2. QED
          BY <3>1, <5>1, SmpAssumption DEF Counted
      <4>5. QED
        BY <1>0, <2>1, <3>1, <4>3, <4>4 DEF Listed
    <3>2. CASE ~mp.ismp
      BY <2>1, <3>2 DEF Listed
    <3>3. QED
      BY <3>1, <3>2
  <2>5. OneAtATime' /\ StacksOwn'
    BY <1>0, <2>1 DEF OneAtATime, StacksOwn, Handing, Underway
  <2>6. StatusTrue'
    <3> SUFFICES ASSUME NEW n \in 0..NCPU-1, cpu_status'[n] = "started"
                 PROVE  n = mp.bootcpu
      BY <2>1 DEF StatusTrue, Booting
    <3>1. cpu_status[n] # "started"
      BY DEF StatusTrue, Booting
    <3>2. QED
      BY <3>1 DEF SmpTypeOK
  <2>7. QED
    BY <2>2, <2>3, <2>4, <2>5, <2>6
<1>4. QED
  BY <1>1, <1>2, <1>3 DEF mp_init
\* boot_aps starts the processors in turn and goes on when the last one is up.
LEMMA BootApsStep ==
  ASSUME SmpInv, boot_aps
  PROVE  SmpInv'
<1> USE DEF SmpInv
<1>0. /\ BootId(table) \in Cpus /\ table' = table /\ BootId(table)' = BootId(table)
      /\ mp' = mp /\ i' = i /\ cpu_status' = cpu_status /\ esp' = esp
      /\ Cpus \subseteq Nat /\ c \in Nat
  BY BootExists, SmpAssumption
     DEF SmpTypeOK, boot_aps, boot_aps_next, startap_init, startap_startup, boot_aps_wait
<1>1. CASE boot_aps_next
  <2> USE <1>1 DEF boot_aps_next
  <2>1. apc' = apc /\ bpc = "loop"
    OBVIOUS
  <2>2. CASE c >= mp.ncpu
    <3>1. bpc' = "done" /\ c' = c /\ mpentry_kstack' = mpentry_kstack
      BY <1>0, <2>2 DEF SmpTypeOK
    <3>2. SmpTypeOK' /\ Counted' /\ Listed'
      BY <1>0, <2>1, <3>1 DEF SmpTypeOK, Counted, Listed, Booting
    <3>3. OneAtATime' /\ StatusTrue' /\ StacksOwn'
      BY <1>0, <2>1, <3>1
         DEF OneAtATime, StatusTrue, StacksOwn, Handing, Underway, Booting
    <3>4. QED
      BY <3>2, <3>3
  <2>3. CASE c < mp.ncpu /\ SkipSelf
    <3>1. bpc' = "loop" /\ c' = c + 1 /\ mpentry_kstack' = mpentry_kstack
      BY <1>0, <2>3 DEF SmpTypeOK
    <3>2. SmpTypeOK' /\ Counted' /\ Listed'
      BY <1>0, <2>1, <3>1 DEF SmpTypeOK, Counted, Listed, Booting
    <3>3. OneAtATime' /\ StatusTrue' /\ StacksOwn'
      BY <1>0, <2>1, <3>1
         DEF OneAtATime, StatusTrue, StacksOwn, Handing, Underway, Booting
    <3>4. QED
      BY <3>2, <3>3
  <2>4. CASE c < mp.ncpu /\ ~SkipSelf
    <3>1. bpc' = "init" /\ c' = c /\ mpentry_kstack' = c
      BY <1>0, <2>4 DEF SmpTypeOK
    <3>2. SmpTypeOK' /\ Counted' /\ Listed'
      BY <1>0, <2>1, <3>1 DEF SmpTypeOK, Counted, Listed, Booting, Handing
    <3>3. mp.lapic /\ c # BootId(table)
      BY <1>0, <2>1, <2>4 DEF SkipSelf, cpunum, Listed, Booting, SmpTypeOK
    <3>4. OneAtATime'
      BY <1>0, <2>1, <2>4, <3>1, <3>3 DEF OneAtATime, Handing, Underway
    <3>5. StatusTrue' /\ StacksOwn'
      BY <1>0, <2>1, <3>1 DEF StatusTrue, StacksOwn, Booting
    <3>6. QED
      BY <3>2, <3>4, <3>5
  <2>5. c >= mp.ncpu \/ c < mp.ncpu
    BY <1>0 DEF SmpTypeOK
  <2>6. QED
    BY <2>2, <2>3, <2>4, <2>5
<1>2. CASE startap_init
  <2> USE <1>2 DEF startap_init
  <2>1. /\ bpc = "init" /\ bpc' = "startup1" /\ c' = c /\ mpentry_kstack' = mpentry_kstack
        /\ c # BootId(table) /\ c < mp.ncpu /\ mp.lapic
    BY DEF OneAtATime, Handing
  <2>2. SmpTypeOK' /\ Counted' /\ Listed'
    BY <1>0, <2>1 DEF SmpTypeOK, Counted, Listed, Booting, Handing, Underway, Entering
  <2>3. apc[BootId(table)]' = "up" /\ (\A h \in Cpus : h # c => apc'[h] = apc[h])
    BY <1>0, <2>1 DEF OneAtATime, SmpTypeOK
  <2>4. c \in Cpus => apc[c] = "off" /\ apc'[c] = "reset"
    BY <1>0, <2>1 DEF OneAtATime, SmpTypeOK, Underway
  <2>5. OneAtATime'
    BY <1>0, <2>1, <2>3, <2>4 DEF OneAtATime, Handing, Underway, Entering
  <2>6. StatusTrue'
    BY <1>0, <2>1, <2>3, <2>4 DEF StatusTrue, Booting
  <2>7. StacksOwn'
    BY <1>0, <2>1, <2>3, <2>4 DEF StacksOwn
  <2>8. QED
    BY <2>2, <2>5, <2>6, <2>7
<1>3. CASE startap_startup
  <2> USE <1>3 DEF startap_startup
  <2>1. /\ bpc \in Underway /\ bpc' \in Underway /\ c' = c /\ mpentry_kstack' = mpentry_kstack
        /\ c # BootId(table) /\ c < mp.ncpu /\ mp.lapic
    BY DEF OneAtATime, Handing, Underway
  <2>2. SmpTypeOK' /\ Counted' /\ Listed'
    BY <1>0, <2>1 DEF SmpTypeOK, Counted, Listed, Booting, Handing, Underway, Entering
  <2>3. apc[BootId(table)]' = "up" /\ (\A h \in Cpus : h # c => apc'[h] = apc[h])
    BY <1>0, <2>1 DEF OneAtATime, SmpTypeOK
  <2>4. c \in Cpus => apc'[c] = IF apc[c] = "reset" THEN "mpentry" ELSE apc[c]
    BY <1>0, <2>1 DEF SmpTypeOK
  <2>5. OneAtATime'
    BY <1>0, <2>1, <2>3, <2>4 DEF OneAtATime, Handing, Underway, Entering
  <2>6. StatusTrue'
    BY <1>0, <2>1, <2>3, <2>4 DEF StatusTrue, Booting, Underway
  <2>7. StacksOwn'
    BY <1>0, <2>1, <2>3, <2>4 DEF StacksOwn
  <2>8. QED
    BY <2>2, <2>5, <2>6, <2>7
<1>4. CASE boot_aps_wait
  <2> USE <1>4 DEF boot_aps_wait
  <2>1. /\ bpc = "wait" /\ bpc' = "loop" /\ c' = c + 1 /\ mpentry_kstack' = mpentry_kstack
        /\ apc' = apc /\ c # BootId(table) /\ c < mp.ncpu /\ mp.lapic /\ mp.ncpu \in Nat
    BY DEF OneAtATime, Handing, Underway, SmpTypeOK
  <2>2. SmpTypeOK' /\ Counted' /\ Listed'
    BY <1>0, <2>1 DEF SmpTypeOK, Counted, Listed, Booting
  <2>3. c \in Cpus /\ c \in 0..NCPU-1 /\ c # mp.bootcpu
    BY <1>0, <2>1, SmpAssumption DEF Listed, Booting
  <2>4. apc[c] = "up"
    BY <2>3 DEF StatusTrue
  <2>5. OneAtATime'
    BY <1>0, <2>1, <2>4 DEF OneAtATime, Handing, Underway, Entering
  <2>6. StatusTrue' /\ StacksOwn'
    BY <1>0, <2>1 DEF StatusTrue, StacksOwn, Booting
  <2>7. QED
    BY <2>2, <2>5, <2>6
<1>5. QED
  BY <1>1, <1>2, <1>3, <1>4 DEF boot_aps

\* A processor loads the stack of its own number, since nobody else is being
\* started, and reports in its own entry of cpus[].
LEMMA ProcessorStep ==
  ASSUME SmpInv, NEW h \in Cpus, mpentry_start(h) \/ mp_main(h)
  PROVE  SmpInv'
<1> USE DEF SmpInv
<1>0. /\ BootId(table) \in Cpus /\ table' = table /\ BootId(table)' = BootId(table)
      /\ mp' = mp /\ i' = i /\ bpc' = bpc /\ c' = c /\ mpentry_kstack' = mpentry_kstack
      /\ Cpus \subseteq Nat
  BY BootExists, SmpAssumption DEF SmpTypeOK, mpentry_start, mp_main
<1>1. /\ h = c /\ bpc \in Underway /\ h # BootId(table) /\ mpentry_kstack = h /\ mp.lapic
      /\ h < mp.ncpu
  BY DEF mpentry_start, mp_main, OneAtATime, Entering, Handing, Underway
<1>2. Counted' /\ Listed'
  BY <1>0 DEF Counted, Listed
<1>3. CASE mpentry_start(h)
  <2> USE <1>3 DEF mpentry_start
  <2>1. /\ esp' = [esp EXCEPT ![h] = h] /\ apc' = [apc EXCEPT ![h] = "mp_main"]
        /\ apc[h] = "mpentry" /\ cpu_status' = cpu_status
    BY <1>1
  <2>2. SmpTypeOK'
    BY <1>0, <2>1 DEF SmpTypeOK, Entering
  <2>3. OneAtATime'
    BY <1>0, <1>1, <2>1 DEF OneAtATime, Entering, SmpTypeOK
  <2>4. StatusTrue'
    BY <1>0, <2>1 DEF StatusTrue, SmpTypeOK
  <2>5. StacksOwn'
    BY <1>0, <2>1 DEF StacksOwn, SmpTypeOK
  <2>6. QED
    BY <1>2, <2>2, <2>3, <2>4, <2>5
<1>4. CASE mp_main(h)
  <2> USE <1>4 DEF mp_main
  <2>1. /\ cpu_status' = [cpu_status EXCEPT ![h] = "started"]
        /\ apc' = [apc EXCEPT ![h] = "up"] /\ apc[h] = "mp_main" /\ esp' = esp
    BY <1>1 DEF cpunum
  <2>2. SmpTypeOK'
    BY <1>0, <2>1 DEF SmpTypeOK
  <2>3. OneAtATime'
    BY <1>0, <1>1, <2>1 DEF OneAtATime, Entering, SmpTypeOK
  <2>4. StatusTrue'
    BY <1>0, <1>1, <2>1 DEF StatusTrue, SmpTypeOK, Underway, Booting
  <2>5. StacksOwn'
    BY <1>0, <2>1 DEF StacksOwn, SmpTypeOK
  <2>6. QED
    BY <1>2, <2>2, <2>3, <2>4, <2>5
<1>5. QED
  BY <1>3, <1>4

\* Steps of the lock leave the start alone.
LEMMA SmpInvUnchanged ==
  ASSUME SmpInv, UNCHANGED bootVars
  PROVE  SmpInv'
<1> USE DEF bootVars, SmpInv
<1>1. SmpTypeOK' /\ StatusTrue'
  BY DEF SmpTypeOK, StatusTrue
<1>2. Counted' /\ Listed'
  BY DEF Counted, Listed
<1>3. OneAtATime' /\ StacksOwn'
  BY DEF OneAtATime, StacksOwn
<1>4. QED
  BY <1>1, <1>2, <1>3

\* SmpInv is inductive.
LEMMA SmpInvNext == SmpInv /\ [Next]_vars => SmpInv'
<1> SUFFICES ASSUME SmpInv, [Next]_vars PROVE SmpInv'
  OBVIOUS
<1>1. CASE mp_init
  BY <1>1, MpInitStep
<1>2. CASE boot_aps
  BY <1>2, BootApsStep
<1>3. ASSUME NEW h \in Cpus, mpentry_start(h) \/ mp_main(h) PROVE SmpInv'
  BY <1>3, ProcessorStep
<1>4. ASSUME NEW h \in Cpus, KernelLock(h) PROVE SmpInv'
  BY <1>4, SmpInvUnchanged DEF KernelLock
<1>5. CASE UNCHANGED vars
  BY <1>5, SmpInvUnchanged DEF vars
<1>6. QED
  BY <1>1, <1>2, <1>3, <1>4, <1>5 DEF Next

\* For every set of processors, every number NCPU of stacks and every table the firmware
\* may leave: a processor that boot_aps has started runs on the stack of its own number,
\* though they are all handed over in one variable, mpentry_kstack.
THEOREM SmpStacksOwn == Spec => []StacksOwn
<1>1. SmpInv => StacksOwn
  BY DEF SmpInv
<1>2. QED
  BY SmpInitInv, SmpInvNext, <1>1, PTL DEF Spec

\* INIT of lapic_startap never reaches a processor that runs: not the one that sends it,
\* whatever its place in the table, and not one that has been started before.
THEOREM SmpNeverReset == Spec => NeverReset
<1>1. SmpInv /\ [Next]_vars => [\A h \in Cpus : apc[h] = "up" => apc'[h] = "up"]_vars
  <2> SUFFICES ASSUME SmpInv, Next, NEW h \in Cpus, apc[h] = "up" PROVE apc'[h] = "up"
    OBVIOUS
  <2> USE DEF SmpInv
  <2>1. CASE mp_init
    BY <2>1 DEF mp_init, mp_init_start, mp_init_loop, mp_init_end
  <2>2. CASE boot_aps
    <3>1. CASE startap_init
      <4>1. h # c
        BY <3>1 DEF startap_init, OneAtATime, Underway, Handing
      <4>2. QED
        BY <3>1, <4>1 DEF startap_init, SmpTypeOK
    <3>2. CASE startap_startup
      BY <3>2 DEF startap_startup, SmpTypeOK
    <3>3. QED
      BY <2>2, <3>1, <3>2 DEF boot_aps, boot_aps_next, boot_aps_wait
  <2>3. ASSUME NEW g \in Cpus, mpentry_start(g) \/ mp_main(g) \/ KernelLock(g)
        PROVE  apc'[h] = "up"
    BY <2>3 DEF mpentry_start, mp_main, KernelLock, bootVars, SmpTypeOK
  <2>4. QED
    BY <2>1, <2>2, <2>3 DEF Next
<1>2. QED
  BY SmpInitInv, SmpInvNext, <1>1, PTL DEF Spec, NeverReset

=============================================================================
