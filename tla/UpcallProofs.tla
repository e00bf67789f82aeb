---------------------------- MODULE UpcallProofs ----------------------------
(***************************************************************************)
(* The frames that traps leave on the kernel stack, and those that page    *)
(* faults leave on the exception stack while they are handled.             *)
(***************************************************************************)
EXTENDS Upcall, SequenceTheorems, TLAPS

\* The vectors for which the processor pushes an error code, and the codes it may push.
ErrorVectors == {8, 10, 11, 12, 13, 14, 17}
RightError(n, err) == IF n \in ErrorVectors THEN \E e \in Int : err = <<e>> ELSE err = <<>>

\* Words pushed one after another, in the order of their addresses.
Words(q, k, S) == q \in Seq(S) /\ Len(q) = k
Joins(q, a, b) == q = a \o b
Holds(q, k, b, m) == \A i \in 1..m : q[k + i] = b[i]

LEMMA Concat ==
  ASSUME NEW S, NEW a, NEW b, NEW q, Joins(q, a, b),
         NEW k \in Nat, NEW m \in Nat, Words(a, k, S), Words(b, m, S)
  PROVE  Words(q, k + m, S) /\ Holds(q, 0, a, k) /\ Holds(q, k, b, m)
<1>1. a \in Seq(S) /\ b \in Seq(S) /\ q = a \o b /\ k = Len(a) /\ m = Len(b)
  BY DEF Joins, Words
<1>2. /\ a \o b \in Seq(S) /\ Len(a \o b) = Len(a) + Len(b)
      /\ \A i \in 1..Len(a) : (a \o b)[i] = a[i]
      /\ \A i \in 1..Len(b) : (a \o b)[Len(a) + i] = b[i]
  BY <1>1
<1>3. Words(q, k + m, S)
  BY <1>1, <1>2, Zenon DEF Words
<1>4. Holds(q, 0, a, k)
  <2>1. ASSUME NEW i \in 1..k PROVE 0 + i = i
    OBVIOUS
  <2>2. QED
    BY <1>1, <1>2, <2>1, Zenon DEF Holds
<1>5. Holds(q, k, b, m)
  BY <1>1, <1>2, Zenon DEF Holds
<1>6. QED
  BY <1>3, <1>4, <1>5

\* Where the trap number and the words of iret are, when the stub and the processor
\* together push two words.
LEMMA FrameWords ==
  ASSUME NEW S, NEW regs, NEW segs, NEW stub, NEW err, NEW iret,
         NEW m \in Nat, NEW e \in Nat, m \in 1..2, m + e = 2,
         Words(regs, 8, S), Words(segs, 2, S), Words(stub, m, S), Words(err, e, S),
         Words(iret, 5, S),
         NEW a, Joins(a, regs, segs), NEW low, Joins(low, a, stub),
         NEW high, Joins(high, err, iret), NEW f, Joins(f, low, high)
  PROVE  /\ Words(f, 17, S) /\ f[11] = stub[1]
         /\ \A i \in 1..8 : f[i] = regs[i]
         /\ f[13] = iret[1] /\ f[14] = iret[2] /\ f[15] = iret[3] /\ f[16] = iret[4]
<1>0. PICK b \in Nat, c \in Nat : b = 8 /\ c = 2
  OBVIOUS
<1>14. Words(regs, b, S) /\ Words(segs, c, S)
  BY <1>0
<1>1. Words(a, b + c, S) /\ Holds(a, 0, regs, b)
  BY <1>14, Concat
<1>2. PICK p \in Nat, q \in Nat, t \in Nat, v \in Nat :
        t = 10 /\ v = 5 /\ p = 10 + m /\ q = e + 5
  OBVIOUS
<1>3. Words(a, t, S) /\ Words(iret, v, S)
  BY <1>0, <1>1, <1>2
<1>4. Words(low, t + m, S) /\ Holds(low, t, stub, m) /\ Holds(low, 0, a, t)
  BY <1>3, Concat
<1>5. Words(high, e + v, S) /\ Holds(high, e, iret, v)
  BY <1>3, Concat
<1>6. Words(low, p, S) /\ Words(high, q, S)
  BY <1>2, <1>4, <1>5
<1>7. Words(f, p + q, S) /\ Holds(f, 0, low, p) /\ Holds(f, p, high, q)
  BY <1>6, Concat
<1>8. Words(f, 17, S)
  <2>1. p + q = 17
    BY <1>2
  <2>2. QED
    BY <1>7, <2>1
<1>9. f[11] = stub[1]
  <2>1. 11 \in 1..p /\ 1 \in 1..m /\ t + 1 = 11 /\ 0 + 11 = 11
    BY <1>2
  <2>2. f[0 + 11] = low[11] /\ low[t + 1] = stub[1]
    BY <1>4, <1>7, <2>1, Zenon DEF Holds
  <2>3. QED
    BY <2>1, <2>2
<1>10. ASSUME NEW i \in 1..5 PROVE f[12 + i] = iret[i]
  <2>1. e + i \in 1..q /\ p + (e + i) = 12 + i /\ i \in 1..v
    BY <1>2
  <2>2. f[p + (e + i)] = high[e + i]
    BY <1>7, <2>1, Zenon DEF Holds
  <2>3. high[e + i] = iret[i]
    BY <1>5, <2>1, Zenon DEF Holds
  <2>4. QED
    BY <2>1, <2>2, <2>3
<1>11. f[12 + 1] = iret[1] /\ f[12 + 2] = iret[2] /\ f[12 + 3] = iret[3] /\ f[12 + 4] = iret[4]
  BY <1>10
<1>12. ASSUME NEW i \in 1..8 PROVE f[i] = regs[i]
  <2>1. i \in 1..p /\ i \in 1..t /\ i \in 1..b /\ 0 + i = i
    BY <1>0, <1>2
  <2>2. f[0 + i] = low[i] /\ low[0 + i] = a[i] /\ a[0 + i] = regs[i]
    BY <1>1, <1>4, <1>7, <2>1, Zenon DEF Holds
  <2>3. QED
    BY <2>1, <2>2
<1>13. QED
  BY <1>8, <1>9, <1>11, <1>12

LEMMA GpFacts ==
  /\ Gp = {"edi", "esi", "ebp", "ebx", "edx", "ecx", "eax"}
  /\ \A r \in Gp : Reg(r) \in 1 .. 8 /\ PushRegs[Reg(r)] = r /\ r # "oesp"
  /\ Reg("eax") = 8 /\ \A r \in Gp : r # "eax" => Reg(r) # 8
<1>1. DOMAIN PushRegs = 1 .. 8
  BY DEF PushRegs
<1>2. Range(PushRegs) = {"edi", "esi", "ebp", "oesp", "ebx", "edx", "ecx", "eax"}
  BY DEF PushRegs, Range
<1>3. Gp = {"edi", "esi", "ebp", "ebx", "edx", "ecx", "eax"}
  BY <1>2 DEF Gp
<1>4. ASSUME NEW r \in Gp PROVE Reg(r) \in 1 .. 8 /\ PushRegs[Reg(r)] = r
  <2>1. \E i \in 1 .. 8 : PushRegs[i] = r
    BY <1>3 DEF PushRegs
  <2> QED
    BY <2>1 DEF Reg
<1>5. \A i \in 1 .. 8 : PushRegs[i] = "eax" => i = 8
  BY DEF PushRegs
<1>6. PushRegs[8] = "eax"
  BY DEF PushRegs
<1> QED
  BY <1>3, <1>4, <1>5, <1>6

FrameOf(f, n, u) ==
  /\ Words(f, 17, {f[i] : i \in 1..17}) /\ f[11] = n
  /\ \A r \in Gp : f[Reg(r)] = u.gp[r]
  /\ f[13] = u.eip /\ f[14] = 3 /\ f[15] = u.eflags /\ f[16] = u.esp

\* For each vector its stub fills the place of the error code exactly when the
\* processor has not: the words of trapentry.S are those of struct Trapframe.
LEMMA AllTrapsFrame ==
  ASSUME NEW n \in 0..255, NEW err, NEW u, RightError(n, err),
         NEW f, f = alltraps(n, err, u)
  PROVE  FrameOf(f, n, u)
<1> DEFINE R == [i \in 1..8 |-> IF PushRegs[i] = "oesp" THEN Junk ELSE u.gp[PushRegs[i]]]
           S == {R[i] : i \in 1..8} \cup {3, u.eip, u.eflags, u.esp} \cup Int
<1>1. R \in Seq(S) /\ Len(R) = 8
  OBVIOUS
<1>2. Int \subseteq S /\ 3 \in S /\ u.eip \in S /\ u.eflags \in S /\ u.esp \in S
  OBVIOUS
<1> HIDE DEF S
<1>3. PICK regs : regs = R
  OBVIOUS
<1>4. PICK segs : segs = <<3, 3>>
  OBVIOUS
<1>5. PICK iret : iret = <<u.eip, 3, u.eflags, u.esp, 3>>
  OBVIOUS
<1>6. PICK stub : stub = idt_entries(n)
  OBVIOUS
<1>7. PICK m, low, high : /\ m = regs \o segs /\ low = m \o stub
                          /\ high = err \o iret
  OBVIOUS
<1>8. /\ Joins(m, regs, segs) /\ Joins(low, m, stub) /\ Joins(high, err, iret)
      /\ Joins(f, low, high)
  BY <1>3, <1>4, <1>5, <1>6, <1>7, Zenon DEF alltraps, HardwareFrame, Joins
<1>9. Words(regs, 8, S)
  BY <1>1, <1>3, Zenon DEF Words
<1> HIDE DEF R
<1>10. Words(segs, 2, S)
  BY <1>2, <1>4 DEF Words
<1>11. Words(iret, 5, S)
  BY <1>2, <1>5 DEF Words
<1>12. iret[1] = u.eip /\ iret[2] = 3 /\ iret[3] = u.eflags /\ iret[4] = u.esp
  BY <1>5
<1>13. n \in S /\ 0 \in S
  BY <1>2
<1>14. PICK k \in 1..2 : Words(stub, k, S) /\ Words(err, 2 - k, S) /\ stub[1] = n
  <2>1. CASE n \in ErrorVectors
    <3>1. PICK e \in Int : err = <<e>>
      BY <2>1 DEF RightError
    <3>2. stub = <<n>>
      BY <1>6, <2>1 DEF idt_entries, TRAPHANDLER, ErrorVectors
    <3>3. e \in S
      BY <1>2
    <3>4. Words(err, 2 - 1, S)
      BY <3>1, <3>3 DEF Words
    <3>5. Words(stub, 1, S) /\ stub[1] = n
      BY <1>13, <3>2 DEF Words
    <3>6. QED
      BY <3>4, <3>5
  <2>2. CASE n \notin ErrorVectors
    <3>1. err = <<>>
      BY <2>2 DEF RightError
    <3>2. stub = <<n, 0>>
      BY <1>6, <2>2 DEF idt_entries, TRAPHANDLER_NOEC, ErrorVectors
    <3>3. Words(err, 2 - 2, S)
      BY <3>1 DEF Words
    <3>4. Words(stub, 2, S) /\ stub[1] = n
      BY <1>13, <3>2 DEF Words
    <3>5. QED
      BY <3>3, <3>4
  <2>3. QED
    BY <2>1, <2>2
<1>17. PICK e \in Nat : e = 2 - k /\ k \in Nat /\ k + e = 2 /\ Words(err, e, S)
  BY <1>14
<1>15. Words(f, 17, S) /\ f[11] = stub[1] /\ (\A i \in 1..8 : f[i] = regs[i])
       /\ f[13] = iret[1] /\ f[14] = iret[2] /\ f[15] = iret[3] /\ f[16] = iret[4]
  BY <1>8, <1>9, <1>10, <1>11, <1>14, <1>17, FrameWords
<1>16. ASSUME NEW r \in Gp PROVE f[Reg(r)] = u.gp[r]
  <2>1. Reg(r) \in 1..8 /\ PushRegs[Reg(r)] = r /\ r # "oesp"
    BY GpFacts
  <2>2. R[Reg(r)] = u.gp[r]
    BY <2>1 DEF R
  <2>3. QED
    BY <1>3, <1>15, <2>1, <2>2
<1>18. Words(f, 17, {f[i] : i \in 1..17})
  <2>1. \A i \in 1..17 : f[i] \in {f[j] : j \in 1..17}
    OBVIOUS
  <2>2. f = [i \in 1..17 |-> f[i]] /\ Len(f) = 17
    BY <1>15 DEF Words
  <2>3. QED
    BY <2>1, <2>2 DEF Words
<1>19. QED
  BY <1>12, <1>14, <1>15, <1>16, <1>18 DEF FrameOf

\* Whatever enters the kernel pushes an error code exactly for the vectors that have one.
LEMMA EnterFrame ==
  ASSUME NEW n \in 0..255, NEW va, NEW err, RightError(n, err), Enter(n, va, err)
  PROVE  TrapframeExact' /\ FrameOf(tf', n, s)
<1>1. PICK f : f = alltraps(n, err, s)
  OBVIOUS
<1>2. tf' = f /\ vec' = [n |-> n, va |-> va] /\ s' = s
  BY <1>1 DEF Enter
<1>3. /\ Len(f) = 17 /\ f[11] = n
      /\ f[13] = s.eip /\ f[14] = 3 /\ f[15] = s.eflags /\ f[16] = s.esp
  <2>1. FrameOf(f, n, s)
    BY <1>1, AllTrapsFrame
  <2>2. QED
    BY <2>1 DEF FrameOf, Words
<1>4. FrameOf(tf', n, s)
  BY <1>1, <1>2, AllTrapsFrame
<1>5. QED
  BY <1>2, <1>3, <1>4 DEF TrapframeExact, TfWords, tf_trapno, tf_eip, tf_cs, tf_eflags, tf_esp

\* For every vector and however it is raised (an exception, a device, the int
\* instruction allowed or not, a page fault in the program, its handler or pfentry.S),
\* trapentry.S leaves a struct Trapframe of the program that trapped.
THEOREM UpcallTrapframe == Spec => []TrapframeExact
<1>1. Init => TrapframeExact
  BY DEF Init, TrapframeExact
<1>2. TrapframeExact /\ [Next]_vars => TrapframeExact'
  <2> SUFFICES ASSUME TrapframeExact, [Next]_vars PROVE TrapframeExact'
    OBVIOUS
  <2>1. CASE PageFault
    <3>1. PICK va \in Faults : Enter(T_PGFLT, va, <<6>>)
      BY <2>1 DEF PageFault
    <3>2. RightError(T_PGFLT, <<6>>) /\ T_PGFLT \in 0..255
      BY DEF RightError, ErrorVectors, T_PGFLT
    <3>3. QED
      BY <3>1, <3>2, EnterFrame
  <2>2. ASSUME NEW n \in 0..255, SoftInt(n) PROVE TrapframeExact'
    <3>1. CASE trap_init(n) = 3
      <4>1. Enter(n, 0, <<>>)
        BY <2>2, <3>1 DEF SoftInt
      <4>2. RightError(n, <<>>)
        BY <3>1 DEF trap_init, RightError, ErrorVectors, T_BRKPT, T_SYSCALL
      <4>3. QED
        BY <4>1, <4>2, EnterFrame
    <3>2. CASE trap_init(n) # 3
      <4>1. PICK e \in Int : Enter(T_GPFLT, 0, <<e>>)
        BY <2>2, <3>2 DEF SoftInt
      <4>2. RightError(T_GPFLT, <<e>>) /\ T_GPFLT \in 0..255
        BY DEF RightError, ErrorVectors, T_GPFLT
      <4>3. QED
        BY <4>1, <4>2, EnterFrame
    <3>3. QED
      BY <3>1, <3>2
  <2>3. ASSUME NEW n \in 0..19 \ {2, T_PGFLT}, Exception(n) PROVE TrapframeExact'
    <3>1. PICK err : err = (IF PushesError(n) THEN <<0>> ELSE <<>>) /\ Enter(n, 0, err)
      BY <2>3 DEF Exception
    <3>2. RightError(n, err) /\ n \in 0..255
      BY <3>1 DEF RightError, ErrorVectors, PushesError
    <3>3. QED
      BY <3>1, <3>2, EnterFrame
  <2>4. ASSUME NEW n \in 32..47, Interrupt(n) PROVE TrapframeExact'
    <3>1. Enter(n, 0, <<>>)
      BY <2>4 DEF Interrupt
    <3>2. RightError(n, <<>>) /\ n \in 0..255
      BY DEF RightError, ErrorVectors
    <3>3. QED
      BY <3>1, <3>2, EnterFrame
  <2>5. CASE page_fault_handler \/ trap_dispatch
    BY <2>5 DEF page_fault_handler, trap_dispatch, TrapframeExact
  <2>6. CASE \/ Execute \/ HandlerCall \/ HandlerReturn \/ MainFork
             \/ \E e \in 1..UWORDS-1 : MainStack(e)
    BY <2>6 DEF Execute, HandlerCall, HandlerReturn, MainFork, MainStack, TrapframeExact
  <2>7. CASE Stopped \/ UNCHANGED vars
    BY <2>7 DEF Stopped, vars, TrapframeExact
  <2>8. QED
    BY <2>1, <2>2, <2>3, <2>4, <2>5, <2>6, <2>7 DEF Next
<1>3. QED
  BY <1>1, <1>2, PTL DEF Spec

-----------------------------------------------------------------------------
(***************************************************************************)
(* The frames on the exception stack.  The invariant has three parts: the  *)
(* chain of faults being handled, the words that outer faults left on the  *)
(* stack, and where the program is in handling the innermost one.          *)
(***************************************************************************)
\* What a program state is made of; a trap-time state has no memory of its own.
Regs(u) == DOMAIN u = {"eip", "esp", "eflags", "gp", "mem"} /\ u.gp = [r \in Gp |-> u.gp[r]]

\* The UTrapframe at x holds u; pfentry.S has moved its stack pointer down by d.
Frame(m, x, u, d) ==
  /\ \A r \in Gp : m[x + 1 + Reg(r)] = u.gp[r]
  /\ m[x + 10] = u.eip /\ m[x + 11] = u.eflags /\ m[x + 12] = u.esp - d

\* The argument of the C handler and its return address, below the frame.
Called(m, x) == m[x - 1] = x /\ m[x - 2] = 4

\* A program that is in the C handler of frame x.
InHandler(u, x) ==
  /\ u.eip \in {HandlerEntry, HandlerBody}
  /\ u.esp = IF u.eip = HandlerBody THEN x - 2 - HWORDS ELSE x - 2
  /\ u.esp >= XBASE

\* Faults nest: the first interrupts the program on its stack, the others a handler,
\* each frame below the one before.
Link(q, i) ==
  /\ Regs(q[i].u)
  /\ q[i].at \in XBASE .. UXSTACKTOP + 3 - 16 * i
  /\ i = 1 => q[i].u.eip = Main /\ q[i].u.esp \in 1 .. UWORDS - 1
  /\ i > 1 => InHandler(q[i].u, q[i-1].at) /\ q[i].at = q[i].u.esp - 14
Chain(q) ==
  /\ \A i \in 1 .. Len(q) : Link(q, i)
  /\ \A i, j \in 1 .. Len(q) : i < j => q[j].at + 16 <= q[i].at

\* The faults that wait have their frame, and the call of their handler.
Outer(q, m) ==
  \A i \in 1 .. Len(q) : i < Len(q) => Frame(m, q[i].at, q[i].u, 0) /\ Called(m, q[i].at)

\* The stack pointer relative to the frame, while it points there.
Offset(e) ==
  CASE e \in {1, 5, 6, 7, 10, 11} -> 0
    [] e \in {2, 3, 4} -> -1
    [] e = HandlerEntry -> -2
    [] e = HandlerBody -> -2 - HWORDS
    [] e = 12 -> 1
    [] e = 13 -> 2
    [] e = 14 -> 10
    [] e = 15 -> 11
    [] e = 16 -> 12

\* Program v handles the fault of state u with the frame at x.
Inner(v, x, u) ==
  /\ v.eip \in {HandlerEntry, HandlerBody} \cup 1 .. 17
  /\ v.eip \notin {8, 9, 17} => v.esp = x + Offset(v.eip) /\ v.esp >= XBASE
  /\ v.eip = 8 => v.esp = u.esp
  /\ v.eip \in {9, 17} => v.esp = u.esp - 1
  /\ v.eip \in {2, 3} => v.mem[x - 1] = x
  /\ v.eip \in {HandlerEntry, HandlerBody} => Called(v.mem, x)
  /\ v.eip = 3 => v.gp["eax"] = HandlerEntry
  /\ v.eip \in 6 .. 9 => v.gp["ebx"] = x
  /\ v.eip \in {7, 8} => v.gp["eax"] = u.eip
  /\ v.eip \in 9 .. 17 => v.mem[u.esp - 1] = u.eip
  /\ Frame(v.mem, x, u, IF v.eip \in 11 .. 17 THEN 1 ELSE 0)
  /\ v.eip \in 14 .. 17 => v.gp = u.gp
  /\ v.eip \in {16, 17} => v.eflags = u.eflags

Program(v, q) ==
  IF q = <<>> THEN v.eip = Main /\ v.esp \in 1 .. UWORDS - 1
  ELSE Inner(v, q[Len(q)].at, q[Len(q)].u)

\* pfentry.S finds the program's stack writable when it goes back to it: it was, or the
\* first fault was there and its handler has not returned.
Handling == {HandlerEntry, HandlerBody} \cup 1 .. 3
StackServed(v, q) ==
  q # <<>> => stackw \/ (v.mem[q[1].at] \in Ustack /\ (Len(q) > 1 \/ v.eip \in Handling))

\* The trap frame is the program's; a page fault comes from the program, the C handler,
\* or the end of the exception stack.
FaultFrom(v, q) ==
  IF q = <<>> THEN stackw \/ vec.va \in Ustack
  ELSE v.eip \in {HandlerEntry, HandlerBody} \/ v.esp = XBASE
Trapped ==
  mode = "kernel" =>
    /\ Words(tf, 17, {tf[i] : i \in 1 .. 17})
    /\ \A r \in Gp : tf[Reg(r)] = s.gp[r]
    /\ vec.n = T_PGFLT => FaultFrom(s, saved)
    /\ vec.n = T_SYSCALL => s.eip \in {Main, HandlerBody}

Types ==
  /\ Regs(s) /\ DOMAIN s.mem = Ustack \cup Xstack
  /\ stackw \in BOOLEAN /\ mode \in {"user", "kernel", "panic", "destroyed"}
  /\ saved \in Seq({saved[i] : i \in 1 .. Len(saved)})

NestInv ==
  /\ Types /\ Chain(saved) /\ Outer(saved, s.mem) /\ Program(s, saved)
  /\ StackServed(s, saved) /\ Trapped /\ TrapframeExact
-----------------------------------------------------------------------------
(* Registers, addresses and instructions.                                  *)

\* The stacks are apart, and the word below the exception stack is in neither.
LEMMA Addresses ==
  /\ UWORDS \in Int /\ UWORDS > 1 /\ HWORDS \in Int /\ HWORDS >= 0
  /\ XWORDS \in Int /\ XWORDS >= 13 /\ XBASE \in Int /\ UXSTACKTOP \in Int
  /\ XBASE = UWORDS + XWORDS /\ UXSTACKTOP = XBASE + XWORDS
  /\ \A a \in Int : a \in Xstack <=> XBASE <= a /\ a < UXSTACKTOP
  /\ \A a \in Int : a \in Ustack <=> 0 <= a /\ a < UWORDS
  /\ \A a \in Xstack \cup Ustack : a \in Int
  BY UpcallAssumption DEF XBASE, UXSTACKTOP, Xstack, Ustack

\* State v with other registers and other words.
Becomes(w, v, eip, esp, eflags, gp, mem) ==
  /\ w.eip = eip /\ w.esp = esp /\ w.eflags = eflags /\ w.gp = gp /\ w.mem = mem
  /\ Regs(w) /\ DOMAIN w.mem = DOMAIN v.mem

Sets(g, r, x) == [g EXCEPT ![r] = x]

LEMMA Becoming ==
  ASSUME NEW v, NEW w, NEW eip, NEW esp, NEW eflags, NEW gp, NEW mem,
         w.eip = eip, w.esp = esp, w.eflags = eflags, w.gp = gp, w.mem = mem,
         DOMAIN w = {"eip", "esp", "eflags", "gp", "mem"},
         gp = [r \in Gp |-> gp[r]], DOMAIN mem = DOMAIN v.mem
  PROVE  Becomes(w, v, eip, esp, eflags, gp, mem)
  BY DEF Becomes, Regs

LEMMA SetsGp ==
  ASSUME NEW g, g = [r \in Gp |-> g[r]], NEW q \in Gp, NEW x, NEW h, h = Sets(g, q, x)
  PROVE  h = [r \in Gp |-> h[r]] /\ h[q] = x
  BY DEF Sets

\* The next instruction, with what it is to do.
Next1(n, v) == n = [v EXCEPT !.eip = v.eip + 1]

LEMMA NextFields ==
  ASSUME NEW v, Regs(v), NEW n, Next1(n, v)
  PROVE  /\ n.eip = v.eip + 1 /\ n.esp = v.esp /\ n.eflags = v.eflags /\ n.gp = v.gp
         /\ n.mem = v.mem /\ Regs(n)
  BY DEF Regs, Next1

\* The kinds of instruction, on the state n with the next eip.
Put(m, a, y) == [m EXCEPT ![a] = y]
Load(n, r, z) == [n EXCEPT !.gp[r] = z]
Switch(n, z) == [n EXCEPT !.esp = z]
PopReg(n, r, z) == [n EXCEPT !.gp[r] = z, !.esp = @ + 1]
PopAll(n, g) == [n EXCEPT !.esp = @ + 8, !.gp = g]
PopFlags(n, z) == [n EXCEPT !.eflags = z, !.esp = @ + 1]
Skip(n) == [n EXCEPT !.esp = @ + 1, !.eflags = Junk]
Ret(n, z) == [n EXCEPT !.eip = z, !.esp = @ + 1]
Lower(n, a) == [n EXCEPT !.mem[a] = subl(@), !.eflags = Junk]
Call(n, z) == [push(n, 4) EXCEPT !.eip = z]

LEMMA PushFields ==
  ASSUME NEW n, Regs(n), NEW y, NEW w, w = push(n, y)
  PROVE  Becomes(w, n, n.eip, n.esp - 1, n.eflags, n.gp, Put(n.mem, n.esp - 1, y))
<1>1. DOMAIN w = {"eip", "esp", "eflags", "gp", "mem"}
  BY DEF push, Regs
<1>2. w.eip = n.eip /\ w.eflags = n.eflags /\ w.gp = n.gp
  BY DEF push, Regs
<1>3. w.esp = n.esp - 1
  BY DEF push, Regs
<1>4. w.mem = [n.mem EXCEPT ![n.esp - 1] = y]
  BY DEF push, Regs
<1> QED
  BY <1>1, <1>2, <1>3, <1>4 DEF Becomes, Regs, Put

LEMMA CallFields ==
  ASSUME NEW n, Regs(n), NEW z, NEW w, w = Call(n, z)
  PROVE  Becomes(w, n, z, n.esp - 1, n.eflags, n.gp, Put(n.mem, n.esp - 1, 4))
<1>1. PICK p : p = push(n, 4)
  OBVIOUS
<1>2. Becomes(p, n, n.eip, n.esp - 1, n.eflags, n.gp, Put(n.mem, n.esp - 1, 4))
  BY <1>1, PushFields
<1> QED
  BY <1>1, <1>2 DEF Becomes, Regs, Call

LEMMA LoadFields ==
  ASSUME NEW n, Regs(n), NEW r \in Gp, NEW z, NEW w, w = Load(n, r, z)
  PROVE  Becomes(w, n, n.eip, n.esp, n.eflags, Sets(n.gp, r, z), n.mem)
  BY DEF Becomes, Regs, Sets, Load

LEMMA SwitchFields ==
  ASSUME NEW n, Regs(n), NEW z, NEW w, w = Switch(n, z)
  PROVE  Becomes(w, n, n.eip, z, n.eflags, n.gp, n.mem)
  BY DEF Becomes, Regs, Switch

LEMMA PopRegFields ==
  ASSUME NEW n, Regs(n), NEW r \in Gp, NEW z, NEW w, w = PopReg(n, r, z)
  PROVE  Becomes(w, n, n.eip, n.esp + 1, n.eflags, Sets(n.gp, r, z), n.mem)
  BY DEF Becomes, Regs, Sets, PopReg

LEMMA PopAllFields ==
  ASSUME NEW n, Regs(n), NEW g, g = [r \in Gp |-> g[r]], NEW w, w = PopAll(n, g)
  PROVE  Becomes(w, n, n.eip, n.esp + 8, n.eflags, g, n.mem)
  BY DEF Becomes, Regs, PopAll

LEMMA PopFlagsFields ==
  ASSUME NEW n, Regs(n), NEW z, NEW w, w = PopFlags(n, z)
  PROVE  Becomes(w, n, n.eip, n.esp + 1, z, n.gp, n.mem)
  BY DEF Becomes, Regs, PopFlags

LEMMA SkipFields ==
  ASSUME NEW n, Regs(n), NEW w, w = Skip(n)
  PROVE  Becomes(w, n, n.eip, n.esp + 1, Junk, n.gp, n.mem)
  BY DEF Becomes, Regs, Skip

LEMMA RetFields ==
  ASSUME NEW n, Regs(n), NEW z, NEW w, w = Ret(n, z)
  PROVE  Becomes(w, n, z, n.esp + 1, n.eflags, n.gp, n.mem)
  BY DEF Becomes, Regs, Ret

LEMMA LowerFields ==
  ASSUME NEW n, Regs(n), NEW a, NEW w, w = Lower(n, a)
  PROVE  Becomes(w, n, n.eip, n.esp, Junk, n.gp, Put(n.mem, a, n.mem[a] - 1))
  BY DEF Becomes, Regs, Lower, subl, Put

LEMMA Instruction ==
  ASSUME NEW v, NEW n, Next1(n, v), NEW w, w = pfentry(v)
  PROVE  /\ v.eip = 1 => w = push(n, v.esp)
         /\ v.eip = 2 => w = Load(n, "eax", HandlerEntry)
         /\ v.eip = 3 => w = Call(n, v.gp["eax"])
         /\ v.eip \in {4, 14} => w = Skip(n)
         /\ v.eip = 5 => w = Load(n, "ebx", v.esp)
         /\ v.eip = 6 => w = Load(n, "eax", v.mem[v.esp + 10])
         /\ v.eip = 7 => w = Switch(n, v.mem[v.esp + 12])
         /\ v.eip = 8 => w = push(n, v.gp["eax"])
         /\ v.eip = 9 => w = Switch(n, v.gp["ebx"])
         /\ v.eip = 10 => w = Lower(n, v.esp + 12)
         /\ v.eip \in {11, 12} => w = PopReg(n, "eax", v.mem[v.esp])
         /\ v.eip = 13 => w = PopAll(n, popal(v))
         /\ v.eip = 15 => w = PopFlags(n, v.mem[v.esp])
         /\ v.eip = 16 => w = Switch(n, v.mem[v.esp])
         /\ v.eip = 17 => w = Ret(n, v.mem[v.esp])
  BY DEF pfentry, Next1, Load, Switch, PopReg, PopAll, PopFlags, Skip, Ret, Lower, Call, pop

LEMMA PopalGp == ASSUME NEW v, NEW g, g = popal(v) PROVE g = [r \in Gp |-> g[r]]
  BY DEF popal

\* What each instruction of pfentry.S does.
LEMMA Effects ==
  ASSUME NEW v, Regs(v), NEW w, w = pfentry(v)
  PROVE  /\ v.eip = 1 => Becomes(w, v, 2, v.esp - 1, v.eflags, v.gp,
                                 Put(v.mem, v.esp - 1, v.esp))
         /\ v.eip = 2 => Becomes(w, v, 3, v.esp, v.eflags, Sets(v.gp, "eax", HandlerEntry), v.mem)
         /\ v.eip = 3 => Becomes(w, v, v.gp["eax"], v.esp - 1, v.eflags, v.gp,
                                 Put(v.mem, v.esp - 1, 4))
         /\ v.eip \in {4, 14} => Becomes(w, v, v.eip + 1, v.esp + 1, Junk, v.gp, v.mem)
         /\ v.eip = 5 => Becomes(w, v, 6, v.esp, v.eflags, Sets(v.gp, "ebx", v.esp), v.mem)
         /\ v.eip = 6 => Becomes(w, v, 7, v.esp, v.eflags,
                                 Sets(v.gp, "eax", v.mem[v.esp + 10]), v.mem)
         /\ v.eip = 7 => Becomes(w, v, 8, v.mem[v.esp + 12], v.eflags, v.gp, v.mem)
         /\ v.eip = 8 => Becomes(w, v, 9, v.esp - 1, v.eflags, v.gp,
                                 Put(v.mem, v.esp - 1, v.gp["eax"]))
         /\ v.eip = 9 => Becomes(w, v, 10, v.gp["ebx"], v.eflags, v.gp, v.mem)
         /\ v.eip = 10 => Becomes(w, v, 11, v.esp, Junk, v.gp,
                                  Put(v.mem, v.esp + 12, v.mem[v.esp + 12] - 1))
         /\ v.eip \in {11, 12} => Becomes(w, v, v.eip + 1, v.esp + 1, v.eflags,
                                          Sets(v.gp, "eax", v.mem[v.esp]), v.mem)
         /\ v.eip = 13 => Becomes(w, v, 14, v.esp + 8, v.eflags, popal(v), v.mem)
         /\ v.eip = 15 => Becomes(w, v, 16, v.esp + 1, v.mem[v.esp], v.gp, v.mem)
         /\ v.eip = 16 => Becomes(w, v, 17, v.mem[v.esp], v.eflags, v.gp, v.mem)
         /\ v.eip = 17 => Becomes(w, v, v.mem[v.esp], v.esp + 1, v.eflags, v.gp, v.mem)
<1>1. PICK n : Next1(n, v)
  BY DEF Next1
<1>2. Regs(n) /\ n.eip = v.eip + 1 /\ n.esp = v.esp /\ n.eflags = v.eflags /\ n.gp = v.gp
      /\ n.mem = v.mem
  BY <1>1, NextFields
<1>3. ASSUME NEW eip, NEW esp, NEW eflags, NEW gp, NEW mem, Becomes(w, n, eip, esp, eflags, gp, mem)
      PROVE  Becomes(w, v, eip, esp, eflags, gp, mem)
  BY <1>2, <1>3 DEF Becomes
<1>4. "eax" \in Gp /\ "ebx" \in Gp
  BY GpFacts
<1>5. ASSUME v.eip = 1
      PROVE  Becomes(w, v, 2, v.esp - 1, v.eflags, v.gp, Put(v.mem, v.esp - 1, v.esp))
  <2>1. w = push(n, v.esp)
    BY <1>1, <1>5, Instruction
  <2>2. Becomes(w, n, n.eip, n.esp - 1, n.eflags, n.gp, Put(n.mem, n.esp - 1, v.esp))
    BY <1>2, <1>4, <2>1, PushFields
  <2>3. n.eip = 2
    BY <1>2, <1>5
  <2> QED
    BY <1>2, <1>3, <2>2, <2>3
<1>6. ASSUME v.eip = 2
      PROVE  Becomes(w, v, 3, v.esp, v.eflags, Sets(v.gp, "eax", HandlerEntry), v.mem)
  <2>1. w = Load(n, "eax", HandlerEntry)
    BY <1>1, <1>6, Instruction
  <2>2. Becomes(w, n, n.eip, n.esp, n.eflags, Sets(n.gp, "eax", HandlerEntry), n.mem)
    BY <1>2, <1>4, <2>1, LoadFields
  <2>3. n.eip = 3
    BY <1>2, <1>6
  <2> QED
    BY <1>2, <1>3, <2>2, <2>3
<1>7. ASSUME v.eip = 3
      PROVE  Becomes(w, v, v.gp["eax"], v.esp - 1, v.eflags, v.gp, Put(v.mem, v.esp - 1, 4))
  <2>1. w = Call(n, v.gp["eax"])
    BY <1>1, <1>7, Instruction
  <2>2. Becomes(w, n, v.gp["eax"], n.esp - 1, n.eflags, n.gp, Put(n.mem, n.esp - 1, 4))
    BY <1>2, <1>4, <2>1, CallFields
  <2> QED
    BY <1>2, <1>3, <2>2
<1>8. ASSUME v.eip \in {4, 14}
      PROVE  Becomes(w, v, v.eip + 1, v.esp + 1, Junk, v.gp, v.mem)
  <2>1. w = Skip(n)
    BY <1>1, <1>8, Instruction
  <2>2. Becomes(w, n, n.eip, n.esp + 1, Junk, n.gp, n.mem)
    BY <1>2, <1>4, <2>1, SkipFields
  <2>3. n.eip = v.eip + 1
    BY <1>2, <1>8
  <2> QED
    BY <1>2, <1>3, <2>2, <2>3
<1>9. ASSUME v.eip = 5
      PROVE  Becomes(w, v, 6, v.esp, v.eflags, Sets(v.gp, "ebx", v.esp), v.mem)
  <2>1. w = Load(n, "ebx", v.esp)
    BY <1>1, <1>9, Instruction
  <2>2. Becomes(w, n, n.eip, n.esp, n.eflags, Sets(n.gp, "ebx", v.esp), n.mem)
    BY <1>2, <1>4, <2>1, LoadFields
  <2>3. n.eip = 6
    BY <1>2, <1>9
  <2> QED
    BY <1>2, <1>3, <2>2, <2>3
<1>10. ASSUME v.eip = 6
      PROVE  Becomes(w, v, 7, v.esp, v.eflags, Sets(v.gp, "eax", v.mem[v.esp + 10]), v.mem)
  <2>1. w = Load(n, "eax", v.mem[v.esp + 10])
    BY <1>1, <1>10, Instruction
  <2>2. Becomes(w, n, n.eip, n.esp, n.eflags, Sets(n.gp, "eax", v.mem[v.esp + 10]), n.mem)
    BY <1>2, <1>4, <2>1, LoadFields
  <2>3. n.eip = 7
    BY <1>2, <1>10
  <2> QED
    BY <1>2, <1>3, <2>2, <2>3
<1>11. ASSUME v.eip = 7
      PROVE  Becomes(w, v, 8, v.mem[v.esp + 12], v.eflags, v.gp, v.mem)
  <2>1. w = Switch(n, v.mem[v.esp + 12])
    BY <1>1, <1>11, Instruction
  <2>2. Becomes(w, n, n.eip, v.mem[v.esp + 12], n.eflags, n.gp, n.mem)
    BY <1>2, <1>4, <2>1, SwitchFields
  <2>3. n.eip = 8
    BY <1>2, <1>11
  <2> QED
    BY <1>2, <1>3, <2>2, <2>3
<1>12. ASSUME v.eip = 8
      PROVE  Becomes(w, v, 9, v.esp - 1, v.eflags, v.gp, Put(v.mem, v.esp - 1, v.gp["eax"]))
  <2>1. w = push(n, v.gp["eax"])
    BY <1>1, <1>12, Instruction
  <2>2. Becomes(w, n, n.eip, n.esp - 1, n.eflags, n.gp, Put(n.mem, n.esp - 1, v.gp["eax"]))
    BY <1>2, <1>4, <2>1, PushFields
  <2>3. n.eip = 9
    BY <1>2, <1>12
  <2> QED
    BY <1>2, <1>3, <2>2, <2>3
<1>13. ASSUME v.eip = 9
      PROVE  Becomes(w, v, 10, v.gp["ebx"], v.eflags, v.gp, v.mem)
  <2>1. w = Switch(n, v.gp["ebx"])
    BY <1>1, <1>13, Instruction
  <2>2. Becomes(w, n, n.eip, v.gp["ebx"], n.eflags, n.gp, n.mem)
    BY <1>2, <1>4, <2>1, SwitchFields
  <2>3. n.eip = 10
    BY <1>2, <1>13
  <2> QED
    BY <1>2, <1>3, <2>2, <2>3
<1>14. ASSUME v.eip = 10
      PROVE  Becomes(w, v, 11, v.esp, Junk, v.gp, Put(v.mem, v.esp + 12, v.mem[v.esp + 12] - 1))
  <2>1. w = Lower(n, v.esp + 12)
    BY <1>1, <1>14, Instruction
  <2>2. Becomes(w, n, n.eip, n.esp, Junk, n.gp, Put(n.mem, n.esp + 12, n.mem[n.esp + 12] - 1))
    BY <1>2, <1>4, <2>1, LowerFields
  <2>3. n.eip = 11
    BY <1>2, <1>14
  <2> QED
    BY <1>2, <1>3, <2>2, <2>3
<1>15. ASSUME v.eip \in {11, 12}
      PROVE  Becomes(w, v, v.eip + 1, v.esp + 1, v.eflags, Sets(v.gp, "eax", v.mem[v.esp]), v.mem)
  <2>1. w = PopReg(n, "eax", v.mem[v.esp])
    BY <1>1, <1>15, Instruction
  <2>2. Becomes(w, n, n.eip, n.esp + 1, n.eflags, Sets(n.gp, "eax", v.mem[v.esp]), n.mem)
    BY <1>2, <1>4, <2>1, PopRegFields
  <2>3. n.eip = v.eip + 1
    BY <1>2, <1>15
  <2> QED
    BY <1>2, <1>3, <2>2, <2>3
<1>16. ASSUME v.eip = 13
      PROVE  Becomes(w, v, 14, v.esp + 8, v.eflags, popal(v), v.mem)
  <2>1. w = PopAll(n, popal(v))
    BY <1>1, <1>16, Instruction
  <2>2. Becomes(w, n, n.eip, n.esp + 8, n.eflags, popal(v), n.mem)
    BY <1>2, <1>4, <2>1, PopAllFields, PopalGp
  <2>3. n.eip = 14
    BY <1>2, <1>16
  <2> QED
    BY <1>2, <1>3, <2>2, <2>3
<1>17. ASSUME v.eip = 15
      PROVE  Becomes(w, v, 16, v.esp + 1, v.mem[v.esp], v.gp, v.mem)
  <2>1. w = PopFlags(n, v.mem[v.esp])
    BY <1>1, <1>17, Instruction
  <2>2. Becomes(w, n, n.eip, n.esp + 1, v.mem[v.esp], n.gp, n.mem)
    BY <1>2, <1>4, <2>1, PopFlagsFields
  <2>3. n.eip = 16
    BY <1>2, <1>17
  <2> QED
    BY <1>2, <1>3, <2>2, <2>3
<1>18. ASSUME v.eip = 16
      PROVE  Becomes(w, v, 17, v.mem[v.esp], v.eflags, v.gp, v.mem)
  <2>1. w = Switch(n, v.mem[v.esp])
    BY <1>1, <1>18, Instruction
  <2>2. Becomes(w, n, n.eip, v.mem[v.esp], n.eflags, n.gp, n.mem)
    BY <1>2, <1>4, <2>1, SwitchFields
  <2>3. n.eip = 17
    BY <1>2, <1>18
  <2> QED
    BY <1>2, <1>3, <2>2, <2>3
<1>19. ASSUME v.eip = 17
      PROVE  Becomes(w, v, v.mem[v.esp], v.esp + 1, v.eflags, v.gp, v.mem)
  <2>1. w = Ret(n, v.mem[v.esp])
    BY <1>1, <1>19, Instruction
  <2>2. Becomes(w, n, v.mem[v.esp], n.esp + 1, n.eflags, n.gp, n.mem)
    BY <1>2, <1>4, <2>1, RetFields
  <2> QED
    BY <1>2, <1>3, <2>2
<1> QED
  BY <1>5, <1>6, <1>7, <1>8, <1>9, <1>10, <1>11, <1>12, <1>13, <1>14, <1>15, <1>16, <1>17, <1>18, <1>19

-----------------------------------------------------------------------------
(* One instruction, seen from the innermost frame.                         *)

LEMMA PutWord ==
  ASSUME NEW m, NEW a \in DOMAIN m, NEW y
  PROVE  Put(m, a, y)[a] = y /\ \A b \in DOMAIN m : b # a => Put(m, a, y)[b] = m[b]
  BY DEF Put

LEMMA FrameKept ==
  ASSUME NEW m, NEW k, NEW x \in Int, NEW u, NEW d, Frame(m, x, u, d),
         \A b \in x + 2 .. x + 12 : k[b] = m[b]
  PROVE  Frame(k, x, u, d)
<1>1. ASSUME NEW r \in Gp PROVE k[x + 1 + Reg(r)] = u.gp[r]
  <2>1. x + 1 + Reg(r) \in x + 2 .. x + 12
    BY GpFacts
  <2> QED
    BY <2>1 DEF Frame
<1> QED
  BY <1>1 DEF Frame

LEMMA Offsets ==
  /\ Offset(1) = 0 /\ Offset(2) = -1 /\ Offset(3) = -1 /\ Offset(4) = -1 /\ Offset(5) = 0
  /\ Offset(6) = 0 /\ Offset(7) = 0 /\ Offset(10) = 0 /\ Offset(11) = 0 /\ Offset(12) = 1
  /\ Offset(13) = 2 /\ Offset(14) = 10 /\ Offset(15) = 11 /\ Offset(16) = 12
  /\ Offset(HandlerEntry) = -2 /\ Offset(HandlerBody) = -2 - HWORDS
  BY DEF Offset, HandlerEntry, HandlerBody

\* The frame is inside the exception stack, and the word below the trap-time stack
\* pointer is on the program's stack or the scratch word above the frame.
Placed(x, u) ==
  /\ x \in Int /\ XBASE <= x /\ x + 13 <= UXSTACKTOP
  /\ u.esp \in Int /\ Regs(u)
  /\ u.esp \in 1 .. UWORDS - 1 \/ (u.esp = x + 14 /\ x + 16 <= UXSTACKTOP)

\* Words above the scratch word, and the fault address, are as before.
Kept(m, k, x) == k[x] = m[x] /\ \A b \in Xstack : b >= x + 14 => k[b] = m[b]

Stacks == Ustack \cup Xstack

Handles(v, x, u) ==
  Regs(v) /\ DOMAIN v.mem = Stacks /\ Placed(x, u) /\ Inner(v, x, u)

LEMMA Instr1 ==
  ASSUME NEW v, NEW x, NEW u, Handles(v, x, u), v.eip = 1, v.esp - 1 \in Stacks,
         NEW w, w = pfentry(v)
  PROVE  Handles(w, x, u) /\ Kept(v.mem, w.mem, x)
<1>1. Becomes(w, v, 2, v.esp - 1, v.eflags, v.gp, Put(v.mem, v.esp - 1, v.esp))
  BY Effects DEF Handles
<1>2. v.esp = x /\ x \in Int /\ x - 1 >= XBASE
  BY Offsets, Addresses DEF Handles, Inner, Placed, Stacks
<1>3. Regs(w) /\ DOMAIN w.mem = Stacks
  BY <1>1 DEF Becomes, Handles
<1>4. w.mem[x - 1] = x /\ \A b \in Stacks : b # x - 1 => w.mem[b] = v.mem[b]
  BY <1>1, <1>2, PutWord DEF Becomes, Handles
<1>5. \A b \in x .. x + 12 : b \in Stacks /\ w.mem[b] = v.mem[b]
  BY <1>2, <1>4, Addresses DEF Handles, Placed, Stacks
<1>6. Frame(w.mem, x, u, 0)
  BY <1>2, <1>5, FrameKept DEF Handles, Inner
<1>7. Inner(w, x, u)
  BY <1>1, <1>2, <1>4, <1>6, Offsets DEF Inner, Becomes, HandlerEntry, HandlerBody
<1>8. Kept(v.mem, w.mem, x)
  BY <1>2, <1>4, <1>5, Addresses DEF Kept, Stacks
<1> QED
  BY <1>3, <1>7, <1>8 DEF Handles

LEMMA Instr3 ==
  ASSUME NEW v, NEW x, NEW u, Handles(v, x, u), v.eip = 3, v.esp - 1 \in Stacks,
         NEW w, w = pfentry(v)
  PROVE  Handles(w, x, u) /\ Kept(v.mem, w.mem, x)
<1>1. Becomes(w, v, HandlerEntry, v.esp - 1, v.eflags, v.gp, Put(v.mem, v.esp - 1, 4))
  BY Effects DEF Handles, Inner
<1>2. v.esp = x - 1 /\ x \in Int /\ x - 2 >= XBASE
  BY Offsets, Addresses DEF Handles, Inner, Placed, Stacks
<1>3. Regs(w) /\ DOMAIN w.mem = Stacks
  BY <1>1 DEF Becomes, Handles
<1>4. w.mem[x - 2] = 4 /\ \A b \in Stacks : b # x - 2 => w.mem[b] = v.mem[b]
  BY <1>1, <1>2, PutWord DEF Becomes, Handles
<1>5. \A b \in x - 1 .. x + 12 : b \in Stacks /\ w.mem[b] = v.mem[b]
  BY <1>2, <1>4, Addresses DEF Handles, Placed, Stacks
<1>6. Frame(w.mem, x, u, 0)
  BY <1>2, <1>5, FrameKept DEF Handles, Inner
<1>9. Called(w.mem, x)
  BY <1>2, <1>4, <1>5 DEF Called, Handles, Inner
<1>7. Inner(w, x, u)
  BY <1>1, <1>2, <1>6, <1>9, Offsets DEF Inner, Becomes, HandlerEntry, HandlerBody
<1>8. Kept(v.mem, w.mem, x)
  BY <1>2, <1>4, <1>5, Addresses DEF Kept, Stacks
<1> QED
  BY <1>3, <1>7, <1>8 DEF Handles

\* pushl %eax on the trap-time stack: its own word, or the scratch word.
LEMMA Instr8 ==
  ASSUME NEW v, NEW x, NEW u, Handles(v, x, u), v.eip = 8, NEW w, w = pfentry(v)
  PROVE  Handles(w, x, u) /\ Kept(v.mem, w.mem, x)
<1>1. Becomes(w, v, 9, v.esp - 1, v.eflags, v.gp, Put(v.mem, v.esp - 1, v.gp["eax"]))
  BY Effects DEF Handles
<1>2. v.esp = u.esp /\ u.esp \in Int /\ x \in Int
  BY DEF Handles, Inner, Placed
<1>3. Regs(w) /\ DOMAIN w.mem = Stacks
  BY <1>1 DEF Becomes, Handles
<1>4. u.esp - 1 \in Stacks /\ (u.esp - 1 < UWORDS \/ u.esp - 1 = x + 13)
  BY <1>2, Addresses DEF Handles, Placed, Stacks
<1>5. w.mem[u.esp - 1] = v.gp["eax"] /\ \A b \in Stacks : b # u.esp - 1 => w.mem[b] = v.mem[b]
  BY <1>1, <1>2, <1>4, PutWord DEF Becomes, Handles
<1>6. \A b \in x .. x + 12 : b \in Stacks /\ w.mem[b] = v.mem[b]
  BY <1>2, <1>4, <1>5, Addresses DEF Handles, Placed, Stacks
<1>7. Frame(w.mem, x, u, 0)
  BY <1>2, <1>6, FrameKept DEF Handles, Inner
<1>8. Inner(w, x, u)
  BY <1>1, <1>2, <1>5, <1>7 DEF Handles, Inner, Becomes, HandlerEntry, HandlerBody
<1>9. Kept(v.mem, w.mem, x)
  BY <1>2, <1>4, <1>5, <1>6, Addresses DEF Kept, Stacks
<1> QED
  BY <1>3, <1>8, <1>9 DEF Handles

\* subl $4, 48(%esp)
LEMMA Instr10 ==
  ASSUME NEW v, NEW x, NEW u, Handles(v, x, u), v.eip = 10, NEW w, w = pfentry(v)
  PROVE  Handles(w, x, u) /\ Kept(v.mem, w.mem, x)
<1>1. Becomes(w, v, 11, v.esp, Junk, v.gp, Put(v.mem, v.esp + 12, v.mem[v.esp + 12] - 1))
  BY Effects DEF Handles
<1>2. v.esp = x /\ u.esp \in Int /\ x \in Int
  BY Offsets DEF Handles, Inner, Placed
<1>3. Regs(w) /\ DOMAIN w.mem = Stacks
  BY <1>1 DEF Becomes, Handles
<1>4. v.mem[x + 12] = u.esp /\ x + 12 \in Stacks /\ u.esp - 1 # x + 12 /\ u.esp - 1 \in Stacks
  BY <1>2, Addresses DEF Handles, Inner, Frame, Placed, Stacks
<1>5. w.mem[x + 12] = u.esp - 1 /\ \A b \in Stacks : b # x + 12 => w.mem[b] = v.mem[b]
  BY <1>1, <1>2, <1>4, PutWord DEF Becomes, Handles
<1>6. \A b \in x .. x + 11 : b \in Stacks /\ w.mem[b] = v.mem[b]
  BY <1>2, <1>5, Addresses DEF Handles, Placed, Stacks
<1>7. Frame(w.mem, x, u, 1)
  <2>1. ASSUME NEW r \in Gp PROVE w.mem[x + 1 + Reg(r)] = u.gp[r]
    <3>1. x + 1 + Reg(r) \in x .. x + 11
      BY <1>2, GpFacts
    <3> QED
      BY <3>1, <1>6 DEF Handles, Inner, Frame
  <2>2. w.mem[x + 10] = u.eip /\ w.mem[x + 11] = u.eflags
    BY <1>2, <1>6 DEF Handles, Inner, Frame
  <2> QED
    BY <1>5, <2>1, <2>2 DEF Frame
<1>8. Inner(w, x, u)
  BY <1>1, <1>2, <1>4, <1>5, <1>7, Offsets
     DEF Handles, Inner, Becomes, HandlerEntry, HandlerBody
<1>9. Kept(v.mem, w.mem, x)
  BY <1>2, <1>5, <1>6, Addresses DEF Kept, Stacks
<1> QED
  BY <1>3, <1>8, <1>9 DEF Handles

\* The other instructions before ret only read the stacks.
LEMMA Reads ==
  ASSUME NEW v, NEW x, NEW u, Handles(v, x, u), v.eip \in {2, 4, 5, 6, 7, 9} \cup 11 .. 16,
         NEW w, w = pfentry(v)
  PROVE  Handles(w, x, u) /\ w.mem = v.mem
<1>1. Regs(v) /\ DOMAIN v.mem = Stacks /\ Placed(x, u) /\ Inner(v, x, u)
  BY DEF Handles
<1>2. x \in Int /\ u.esp \in Int /\ XBASE \in Int /\ XBASE <= x /\ "eax" \in Gp /\ "ebx" \in Gp
  BY <1>1, GpFacts, Addresses DEF Placed
<1>3. \A r \in Gp : \A y : /\ Sets(v.gp, r, y)[r] = y
                         /\ \A q \in Gp : q # r => Sets(v.gp, r, y)[q] = v.gp[q]
  BY <1>1 DEF Sets, Regs
<1>4. Frame(v.mem, x, u, IF v.eip \in 11 .. 17 THEN 1 ELSE 0)
  BY <1>1 DEF Inner
<1>5. CASE v.eip = 2
  <2>1. Becomes(w, v, 3, v.esp, v.eflags, Sets(v.gp, "eax", HandlerEntry), v.mem)
    BY <1>1, <1>5, Effects
  <2>2. Inner(w, x, u)
    BY <1>1, <1>2, <1>3, <1>4, <1>5, <2>1, Offsets DEF Inner, Becomes, HandlerEntry, HandlerBody
  <2> QED
    BY <1>1, <2>1, <2>2 DEF Becomes, Handles
<1>6. CASE v.eip = 4
  <2>1. Becomes(w, v, 5, v.esp + 1, Junk, v.gp, v.mem)
    BY <1>1, <1>6, Effects
  <2>2. Inner(w, x, u)
    BY <1>1, <1>2, <1>4, <1>6, <2>1, Offsets DEF Inner, Becomes, HandlerEntry, HandlerBody
  <2> QED
    BY <1>1, <2>1, <2>2 DEF Becomes, Handles
<1>7. CASE v.eip = 5
  <2>1. Becomes(w, v, 6, v.esp, v.eflags, Sets(v.gp, "ebx", v.esp), v.mem)
    BY <1>1, <1>7, Effects
  <2>2. Inner(w, x, u)
    BY <1>1, <1>2, <1>3, <1>4, <1>7, <2>1, Offsets DEF Inner, Becomes, HandlerEntry, HandlerBody
  <2> QED
    BY <1>1, <2>1, <2>2 DEF Becomes, Handles
<1>8. CASE v.eip = 6
  <2>1. Becomes(w, v, 7, v.esp, v.eflags, Sets(v.gp, "eax", v.mem[v.esp + 10]), v.mem)
    BY <1>1, <1>8, Effects
  <2>2. v.esp = x /\ v.mem[x + 10] = u.eip
    BY <1>1, <1>2, <1>4, <1>8, Offsets DEF Inner, Frame
  <2>3. w.gp["eax"] = u.eip /\ w.gp["ebx"] = v.gp["ebx"]
    BY <1>2, <1>3, <2>1, <2>2 DEF Becomes
  <2>4. Inner(w, x, u)
    BY <1>1, <1>2, <1>4, <1>8, <2>1, <2>2, <2>3, Offsets
       DEF Inner, Becomes, HandlerEntry, HandlerBody
  <2> QED
    BY <1>1, <2>1, <2>4 DEF Becomes, Handles
<1>9. CASE v.eip = 7
  <2>1. Becomes(w, v, 8, v.mem[v.esp + 12], v.eflags, v.gp, v.mem)
    BY <1>1, <1>9, Effects
  <2>2. v.esp = x /\ v.mem[x + 12] = u.esp
    BY <1>1, <1>2, <1>4, <1>9, Offsets DEF Inner, Frame
  <2>3. Inner(w, x, u)
    BY <1>1, <1>2, <1>4, <1>9, <2>1, <2>2 DEF Inner, Becomes, HandlerEntry, HandlerBody
  <2> QED
    BY <1>1, <2>1, <2>3 DEF Becomes, Handles
<1>10. CASE v.eip = 9
  <2>1. Becomes(w, v, 10, v.gp["ebx"], v.eflags, v.gp, v.mem)
    BY <1>1, <1>10, Effects
  <2>2. Inner(w, x, u)
    BY <1>1, <1>2, <1>4, <1>10, <2>1, Offsets DEF Inner, Becomes, HandlerEntry, HandlerBody
  <2> QED
    BY <1>1, <2>1, <2>2 DEF Becomes, Handles
<1>11. CASE v.eip \in {11, 12}
  <2>1. Becomes(w, v, v.eip + 1, v.esp + 1, v.eflags, Sets(v.gp, "eax", v.mem[v.esp]), v.mem)
    BY <1>1, <1>11, Effects
  <2>2. Inner(w, x, u)
    BY <1>1, <1>2, <1>4, <1>11, <2>1, Offsets DEF Inner, Becomes, HandlerEntry, HandlerBody
  <2> QED
    BY <1>1, <2>1, <2>2 DEF Becomes, Handles
<1>12. CASE v.eip = 13
  <2>1. Becomes(w, v, 14, v.esp + 8, v.eflags, popal(v), v.mem)
    BY <1>1, <1>12, Effects
  <2>2. v.esp = x + 2
    BY <1>1, <1>12, Offsets DEF Inner
  <2>3. popal(v) = u.gp
    <3>1. ASSUME NEW r \in Gp PROVE v.mem[v.esp - 1 + Reg(r)] = u.gp[r]
      <4>1. v.esp - 1 + Reg(r) = x + 1 + Reg(r)
        BY <1>2, <2>2, GpFacts
      <4> QED
        BY <1>4, <4>1 DEF Frame
    <3>2. popal(v) = [r \in Gp |-> u.gp[r]]
      BY <3>1 DEF popal
    <3> QED
      BY <1>1, <3>2 DEF Placed, Regs
  <2>4. Inner(w, x, u)
    BY <1>1, <1>2, <1>4, <1>12, <2>1, <2>2, <2>3, Offsets
       DEF Inner, Becomes, HandlerEntry, HandlerBody
  <2> QED
    BY <1>1, <2>1, <2>4 DEF Becomes, Handles
<1>13. CASE v.eip = 14
  <2>1. Becomes(w, v, 15, v.esp + 1, Junk, v.gp, v.mem)
    BY <1>1, <1>13, Effects
  <2>2. Inner(w, x, u)
    BY <1>1, <1>2, <1>4, <1>13, <2>1, Offsets DEF Inner, Becomes, HandlerEntry, HandlerBody
  <2> QED
    BY <1>1, <2>1, <2>2 DEF Becomes, Handles
<1>14. CASE v.eip = 15
  <2>1. Becomes(w, v, 16, v.esp + 1, v.mem[v.esp], v.gp, v.mem)
    BY <1>1, <1>14, Effects
  <2>2. v.esp = x + 11 /\ v.mem[x + 11] = u.eflags
    BY <1>1, <1>2, <1>4, <1>14, Offsets DEF Inner, Frame
  <2>3. Inner(w, x, u)
    BY <1>1, <1>2, <1>4, <1>14, <2>1, <2>2, Offsets DEF Inner, Becomes, HandlerEntry, HandlerBody
  <2> QED
    BY <1>1, <2>1, <2>3 DEF Becomes, Handles
<1>15. CASE v.eip = 16
  <2>1. Becomes(w, v, 17, v.mem[v.esp], v.eflags, v.gp, v.mem)
    BY <1>1, <1>15, Effects
  <2>2. v.esp = x + 12 /\ v.mem[x + 12] = u.esp - 1
    BY <1>1, <1>2, <1>4, <1>15, Offsets DEF Inner, Frame
  <2>3. Inner(w, x, u)
    BY <1>1, <1>2, <1>4, <1>15, <2>1, <2>2 DEF Inner, Becomes, HandlerEntry, HandlerBody
  <2> QED
    BY <1>1, <2>1, <2>3 DEF Becomes, Handles
<1> QED
  BY <1>5, <1>6, <1>7, <1>8, <1>9, <1>10, <1>11, <1>12, <1>13, <1>14, <1>15

\* ret: back to the trap-time state.
LEMMA InstrRet ==
  ASSUME NEW v, NEW x, NEW u, Handles(v, x, u), v.eip = 17, NEW w, w = pfentry(v)
  PROVE  SameRegs(w, u) /\ Regs(w) /\ w.mem = v.mem
<1>1. Becomes(w, v, v.mem[v.esp], v.esp + 1, v.eflags, v.gp, v.mem)
  BY Effects DEF Handles
<1>2. v.esp = u.esp - 1 /\ u.esp \in Int /\ v.mem[u.esp - 1] = u.eip /\ v.gp = u.gp
      /\ v.eflags = u.eflags
  BY DEF Handles, Inner, Placed
<1> QED
  BY <1>1, <1>2 DEF Becomes, SameRegs

-----------------------------------------------------------------------------
(* The chain of frames.                                                    *)

LEMMA LastFrame ==
  ASSUME NEW S, NEW q \in Seq(S), q # <<>>, Chain(q), NEW n, n = Len(q), NEW x, x = q[n].at
  PROVE  /\ n \in Nat /\ n >= 1 /\ Placed(x, q[n].u)
         /\ x \in XBASE .. UXSTACKTOP + 3 - 16 * n
         /\ \A i \in 1 .. n : i < n => q[i].at \in Int /\ x + 16 <= q[i].at /\ q[i].at + 13 <= UXSTACKTOP
<1>1. n \in Nat /\ n >= 1
  OBVIOUS
<1>2. ASSUME NEW i \in 1 .. n PROVE q[i].at \in Int /\ XBASE <= q[i].at /\ q[i].at + 13 <= UXSTACKTOP
  BY SMTT(40), <1>1, Addresses DEF Chain, Link
<1>3. \A i \in 1 .. n : i < n => x + 16 <= q[i].at
  BY <1>1 DEF Chain
<1>4. Link(q, n)
  BY <1>1 DEF Chain
<1>0. PICK u : u = q[n].u
  OBVIOUS
<1>8. x \in Int /\ XBASE <= x /\ x + 13 <= UXSTACKTOP
  BY <1>1, <1>2
<1>5. n = 1 => u.esp \in 1 .. UWORDS - 1
  BY <1>0, <1>4 DEF Link
<1>6. n > 1 => u.esp = x + 14 /\ x + 16 <= UXSTACKTOP /\ u.esp \in Int
  <2> HAVE n > 1
  <2>1. n - 1 \in 1 .. n /\ n - 1 < n
    BY <1>1
  <2>2. x + 16 <= q[n-1].at /\ q[n-1].at + 13 <= UXSTACKTOP /\ q[n-1].at \in Int
    BY <1>2, <1>3, <2>1
  <2>3. x = u.esp - 14 /\ InHandler(u, q[n-1].at)
    BY <1>0, <1>4 DEF Link
  <2>4. u.esp \in Int
    BY SMTT(40), <2>2, <2>3, Addresses DEF InHandler
  <2>5. x + 16 <= UXSTACKTOP
    BY SMTT(40), <1>8, <2>2, Addresses
  <2>6. PICK e \in Int, y \in Int : e = u.esp /\ y = x
    BY <1>8, <2>4
  <2>7. y = e - 14
    BY <2>3, <2>6
  <2>8. e = y + 14
    BY <2>7
  <2> QED
    BY <2>4, <2>5, <2>6, <2>8
<1>7. Regs(u) /\ x \in XBASE .. UXSTACKTOP + 3 - 16 * n
  BY <1>0, <1>4 DEF Link
<1>9. Placed(x, u)
  BY <1>1, <1>5, <1>6, <1>7, <1>8, Addresses DEF Placed
<1> QED
  BY <1>0, <1>1, <1>2, <1>3, <1>7, <1>9

LEMMA OuterKept ==
  ASSUME NEW S, NEW q \in Seq(S), q # <<>>, Chain(q), NEW m, NEW k, Outer(q, m),
         Kept(m, k, q[Len(q)].at)
  PROVE  Outer(q, k) /\ k[q[1].at] = m[q[1].at]
<1>1. PICK n, x : n = Len(q) /\ x = q[n].at
  OBVIOUS
<1>2. n \in Nat /\ n >= 1 /\ x \in Int
      /\ \A i \in 1 .. n : i < n => q[i].at \in Int /\ x + 16 <= q[i].at /\ q[i].at + 13 <= UXSTACKTOP
  BY <1>1, LastFrame DEF Placed
<1>3. XBASE <= x
  BY <1>1, LastFrame DEF Placed
<1>4. ASSUME NEW i \in 1 .. n, i < n, NEW b \in q[i].at - 2 .. q[i].at + 12 PROVE k[b] = m[b]
  <2>1. q[i].at \in Int /\ x + 16 <= q[i].at /\ q[i].at + 13 <= UXSTACKTOP
    BY <1>2, <1>4
  <2>2. b \in Xstack /\ b >= x + 14
    BY SMTT(40), <1>2, <1>3, <2>1, Addresses
  <2> QED
    BY <1>1, <2>2 DEF Kept
<1>5. ASSUME NEW i \in 1 .. n, i < n PROVE Frame(k, q[i].at, q[i].u, 0) /\ Called(k, q[i].at)
  <2>1. PICK y : y = q[i].at
    OBVIOUS
  <2>2. y \in Int /\ \A b \in y - 2 .. y + 12 : k[b] = m[b]
    BY <1>2, <1>4, <1>5, <2>1
  <2>3. Frame(m, y, q[i].u, 0) /\ Called(m, y)
    BY <1>1, <1>5, <2>1 DEF Outer
  <2>4. \A b \in y + 2 .. y + 12 : k[b] = m[b]
    BY <2>2
  <2>5. Frame(k, y, q[i].u, 0)
    BY <2>2, <2>3, <2>4, FrameKept
  <2>6. k[y - 1] = m[y - 1] /\ k[y - 2] = m[y - 2]
    BY <2>2
  <2> QED
    BY <2>1, <2>3, <2>5, <2>6 DEF Called
<1>6. k[q[1].at] = m[q[1].at]
  <2>1. CASE n = 1
    BY <1>1, <2>1 DEF Kept
  <2>2. CASE n > 1
    <3>1. 1 \in 1 .. n /\ 1 < n
      BY <1>2, <2>2
    <3>2. q[1].at \in q[1].at - 2 .. q[1].at + 12
      BY <1>2, <3>1
    <3> QED
      BY <1>4, <3>1, <3>2
  <2> QED
    BY <1>2, <2>1, <2>2
<1> QED
  BY <1>1, <1>5, <1>6 DEF Outer

\* A fault is over: what was around it is the innermost again.
LEMMA FrontChain ==
  ASSUME NEW S, NEW q \in Seq(S), q # <<>>, NEW p, p = Front(q)
  PROVE  /\ p \in Seq(S) /\ Len(q) \in Nat /\ Len(q) >= 1 /\ Len(p) = Len(q) - 1
         /\ \A i \in 1 .. Len(p) : p[i] = q[i]
         /\ Len(q) = 1 <=> p = <<>>
         /\ Chain(q) => Chain(p)
         /\ \A m : Outer(q, m) => Outer(p, m)
<1>1. /\ p \in Seq(S) /\ Len(q) \in Nat /\ Len(q) >= 1 /\ Len(p) = Len(q) - 1
      /\ \A i \in 1 .. Len(p) : p[i] = q[i]
  <2>1. Len(q) \in Nat /\ Len(q) >= 1
    OBVIOUS
  <2>2. p = SubSeq(q, 1, Len(q) - 1)
    BY DEF Front
  <2>3. PICK k \in Int : k = Len(q) - 1
    BY <2>1
  <2>4. \A i \in 1 .. k : q[i] \in S
    BY <2>1, <2>3
  <2>5. /\ p \in Seq(S) /\ Len(p) = IF 1 <= k THEN k - 1 + 1 ELSE 0
        /\ \A i \in 1 .. k - 1 + 1 : p[i] = q[1 + i - 1]
    BY <2>2, <2>3, <2>4, SubSeqProperties
  <2> QED
    BY <2>1, <2>3, <2>5
<1>2. Len(q) = 1 <=> p = <<>>
  BY <1>1
<1>3. ASSUME Chain(q) PROVE Chain(p)
  <2>1. ASSUME NEW i \in 1 .. Len(p) PROVE Link(p, i)
    <3>1. i \in 1 .. Len(q) /\ (i > 1 => i - 1 \in 1 .. Len(p))
      BY <1>1
    <3>2. Link(q, i) /\ p[i] = q[i] /\ (i > 1 => p[i-1] = q[i-1])
      BY <1>1, <1>3, <3>1 DEF Chain
    <3> QED
      BY <3>2 DEF Link
  <2>2. ASSUME NEW i \in 1 .. Len(p), NEW j \in 1 .. Len(p), i < j
        PROVE  p[j].at + 16 <= p[i].at
    <3>1. i \in 1 .. Len(q) /\ j \in 1 .. Len(q)
      BY <1>1
    <3> QED
      BY <1>1, <1>3, <2>2, <3>1 DEF Chain
  <2> QED
    BY <2>1, <2>2 DEF Chain
<1>4. ASSUME NEW m, Outer(q, m) PROVE Outer(p, m)
  <2> SUFFICES ASSUME NEW i \in 1 .. Len(p), i < Len(p)
               PROVE  Frame(m, p[i].at, p[i].u, 0) /\ Called(m, p[i].at)
    BY DEF Outer
  <2>1. i \in 1 .. Len(q) /\ i < Len(q) /\ p[i] = q[i]
    BY <1>1
  <2> QED
    BY <1>4, <2>1 DEF Outer
<1> QED
  BY <1>1, <1>2, <1>3, <1>4

-----------------------------------------------------------------------------
(* The steps of the program.                                               *)

LastAt == saved[Len(saved)].at
LastU == saved[Len(saved)].u

LEMMA InnerFacts ==
  ASSUME NestInv, saved # <<>>
  PROVE  /\ Handles(s, LastAt, LastU) /\ Len(saved) \in Nat /\ Len(saved) >= 1
         /\ LastAt \in XBASE .. UXSTACKTOP + 3 - 16 * Len(saved)
<1>1. PICK S : saved \in Seq(S)
  BY DEF NestInv, Types
<1>2. Placed(LastAt, LastU) /\ Len(saved) \in Nat /\ Len(saved) >= 1
      /\ LastAt \in XBASE .. UXSTACKTOP + 3 - 16 * Len(saved)
  BY <1>1, LastFrame DEF NestInv, LastAt, LastU
<1>3. Inner(s, LastAt, LastU)
  BY DEF NestInv, Program, LastAt, LastU
<1> QED
  BY <1>2, <1>3 DEF Handles, NestInv, Types, Stacks

\* A step inside the handling of the innermost fault.
LEMMA Working ==
  ASSUME NestInv, saved # <<>>, saved' = saved, mode' = "user",
         Handles(s', LastAt, LastU), Kept(s.mem, s'.mem, LastAt),
         stackw' \in BOOLEAN, stackw => stackw',
         stackw' \/ Len(saved) > 1 \/ (s.eip \in Handling => s'.eip \in Handling)
  PROVE  NestInv'
<1>1. PICK S : saved \in Seq(S)
  BY DEF NestInv, Types
<1>2. PICK w : w = s'
  OBVIOUS
<1>3. Outer(saved, w.mem) /\ w.mem[saved[1].at] = s.mem[saved[1].at]
  BY <1>1, <1>2, OuterKept DEF NestInv, LastAt
<1>4. Program(w, saved)
  BY <1>2 DEF Handles, Program, LastAt, LastU
<1>5. StackServed(w, saved)'
  BY <1>2, <1>3 DEF NestInv, StackServed
<1>6. Types'
  BY <1>2 DEF NestInv, Types, Handles, Stacks
<1>7. Trapped' /\ TrapframeExact'
  BY DEF Trapped, TrapframeExact
<1> QED
  BY <1>2, <1>3, <1>4, <1>5, <1>6, <1>7 DEF NestInv

LEMMA ExecuteKeeps ==
  ASSUME NestInv, Execute, s.eip # 17
  PROVE  NestInv'
<1>1. saved # <<>>
  BY DEF NestInv, Program, Execute, Main
<1>2. PICK v, w, x, u : v = s /\ w = s' /\ x = LastAt /\ u = LastU
  OBVIOUS
<1>3. Handles(v, x, u) /\ w = pfentry(v) /\ v.eip \in 1 .. 17 /\ v.eip # 17
  BY <1>1, <1>2, InnerFacts DEF Execute
<1>4. v.eip \in {1, 3} => v.esp - 1 \in Stacks
  BY <1>2 DEF Execute, Written, Writable, Stacks, HandlerEntry
<1>5. Kept(v.mem, v.mem, x)
  BY DEF Kept
<1>6. Handles(w, x, u) /\ Kept(v.mem, w.mem, x)
  <2>1. CASE v.eip = 1
    BY <1>3, <1>4, <2>1, Instr1
  <2>2. CASE v.eip = 3
    BY <1>3, <1>4, <2>2, Instr3
  <2>3. CASE v.eip = 8
    BY <1>3, <2>3, Instr8
  <2>4. CASE v.eip = 10
    BY <1>3, <2>4, Instr10
  <2>5. CASE v.eip \in {2, 4, 5, 6, 7, 9} \cup 11 .. 16
    BY <1>3, <1>5, <2>5, Reads
  <2> QED
    BY <1>3, <2>1, <2>2, <2>3, <2>4, <2>5
<1>7. v.eip \in Handling => w.eip \in Handling
  <2>1. Regs(v) /\ Inner(v, x, u)
    BY <1>3 DEF Handles
  <2>2. v.eip = 1 => w.eip = 2
    BY <1>3, <2>1, Effects DEF Becomes
  <2>3. v.eip = 2 => w.eip = 3
    BY <1>3, <2>1, Effects DEF Becomes
  <2>4. v.eip = 3 => w.eip = HandlerEntry
    BY <1>3, <2>1, Effects DEF Becomes, Inner
  <2> QED
    BY <1>3, <2>2, <2>3, <2>4 DEF Handling, HandlerEntry, HandlerBody
<1>8. saved' = saved /\ mode' = "user" /\ stackw' = stackw /\ stackw \in BOOLEAN
  BY <1>2, <1>3 DEF Execute, NestInv, Types
<1> QED
  BY <1>1, <1>2, <1>6, <1>7, <1>8, Working

LEMMA RetKeeps ==
  ASSUME NestInv, Execute, s.eip = 17
  PROVE  NestInv' /\ SameRegs(s', Last(saved).u) /\ s'.mem = s.mem
<1>1. saved # <<>>
  BY DEF NestInv, Program, Execute, Main
<1>2. PICK v, w, u, q, p, n : /\ v = s /\ w = s' /\ u = LastU /\ q = saved
                              /\ p = saved' /\ n = Len(q)
  OBVIOUS
<1>3. SameRegs(w, u) /\ Regs(w) /\ w.mem = v.mem
  BY <1>1, <1>2, InnerFacts, InstrRet DEF Execute
<1>4. PICK S : q \in Seq(S)
  BY <1>2 DEF NestInv, Types
<1>5. p = Front(q) /\ q # <<>> /\ Chain(q) /\ Outer(q, w.mem) /\ u = q[n].u
  BY <1>1, <1>2, <1>3 DEF Execute, NestInv, LastU
<1>6. /\ p \in Seq(S) /\ n \in Nat /\ n >= 1 /\ Len(p) = n - 1
      /\ \A i \in 1 .. Len(p) : p[i] = q[i]
      /\ n = 1 <=> p = <<>>
      /\ Chain(p) /\ Outer(p, w.mem)
  BY <1>2, <1>4, <1>5, FrontChain
<1>7. Link(q, n)
  <2>1. n \in 1 .. Len(q)
    BY <1>2, <1>6
  <2> QED
    BY <1>5, <2>1 DEF Chain
<1>8. w.eip = u.eip /\ w.esp = u.esp
  BY <1>3 DEF SameRegs
<1>9. ASSUME n = 1 PROVE Program(w, p)
  <2>1. p = <<>> /\ w.eip = Main /\ w.esp \in 1 .. UWORDS - 1
    BY <1>5, <1>6, <1>7, <1>8, <1>9 DEF Link
  <2> QED
    BY <2>1 DEF Program
<1>10. ASSUME n > 1 PROVE Program(w, p) /\ w.eip \in {HandlerEntry, HandlerBody}
  <2>1. PICK x, t : x = q[n-1].at /\ t = q[n-1].u
    OBVIOUS
  <2>2. InHandler(u, x) /\ n - 1 \in 1 .. n /\ n - 1 < n /\ n - 1 \in 1 .. Len(p)
    BY <1>5, <1>6, <1>7, <1>10, <2>1 DEF Link
  <2>3. Frame(w.mem, x, t, 0) /\ Called(w.mem, x)
    BY <1>2, <1>5, <2>1, <2>2 DEF Outer
  <2>4. x \in Int
    BY <1>2, <1>4, <1>5, <1>10, <2>1, <2>2, LastFrame
  <2>5. w.eip \in {HandlerEntry, HandlerBody} /\ w.esp >= XBASE
        /\ w.esp = x + Offset(w.eip)
    <3>1. HandlerEntry # HandlerBody
      BY DEF HandlerEntry, HandlerBody
    <3>2. u.eip = HandlerEntry => w.esp = x + Offset(HandlerEntry)
      BY <1>8, <2>2, <2>4, <3>1, Offsets DEF InHandler
    <3>3. u.eip = HandlerBody => w.esp = x + Offset(HandlerBody)
      BY <1>8, <2>2, <2>4, Offsets, Addresses DEF InHandler
    <3> QED
      BY <1>8, <2>2, <3>2, <3>3 DEF InHandler
  <2>6. Inner(w, x, t)
    BY <2>3, <2>5 DEF Inner, HandlerEntry, HandlerBody
  <2>7. p # <<>> /\ p[Len(p)] = q[n-1]
    BY <1>6, <1>10, <2>2
  <2> QED
    BY <2>1, <2>5, <2>6, <2>7 DEF Program
<1>11. Program(w, p)
  BY <1>6, <1>9, <1>10
<1>12. StackServed(s, saved)'
  <2>1. CASE n = 1
    BY <1>2, <1>6, <2>1 DEF StackServed
  <2>2. CASE n > 1
    <3>1. w.eip \in Handling /\ p[1] = q[1]
      BY <1>6, <1>10, <2>2 DEF Handling
    <3>2. stackw \/ v.mem[q[1].at] \in Ustack
      BY <1>1, <1>2 DEF NestInv, StackServed
    <3> QED
      BY <1>2, <1>3, <3>1, <3>2 DEF StackServed, Execute
  <2> QED
    BY <1>6, <2>1, <2>2
<1>13. Types'
  <2>1. DOMAIN w.mem = Ustack \cup Xstack
    BY <1>2, <1>3 DEF NestInv, Types
  <2>2. p \in Seq({p[i] : i \in 1 .. Len(p)})
    BY <1>6
  <2> QED
    BY <1>2, <1>3, <2>1, <2>2 DEF NestInv, Types, Execute
<1>14. Trapped' /\ TrapframeExact'
  BY DEF Trapped, TrapframeExact, Execute
<1>15. SameRegs(s', Last(saved).u) /\ s'.mem = s.mem
  BY <1>2, <1>3 DEF LastU, Last
<1> QED
  BY <1>2, <1>6, <1>11, <1>12, <1>13, <1>14, <1>15 DEF NestInv

\* The C handler's frame fits between the words pushed and the end of the stack: one
\* word below it belongs to no stack.
LEMMA HandlerCallKeeps ==
  ASSUME NestInv, HandlerCall
  PROVE  NestInv'
<1>1. saved # <<>>
  BY DEF NestInv, Program, HandlerCall, Main, HandlerEntry
<1>2. PICK v, w, x, u : v = s /\ w = s' /\ x = LastAt /\ u = LastU
  OBVIOUS
<1>3. Handles(v, x, u) /\ v.eip = HandlerEntry
  BY <1>1, <1>2, InnerFacts DEF HandlerCall
<1>4. v.esp = x - 2 /\ v.esp >= XBASE /\ x \in Int /\ x + 13 <= UXSTACKTOP
  BY <1>3, Offsets DEF Handles, Inner, Placed, HandlerEntry
<1>5. Written = v.esp - HWORDS .. v.esp - 1
  BY <1>2, <1>3 DEF Written, HandlerEntry
<1>6. v.esp - HWORDS >= XBASE
  <2>1. \A a \in Written : a \in Xstack \/ a \in Ustack
    BY DEF HandlerCall, Writable
  <2>2. SUFFICES ASSUME v.esp - HWORDS < XBASE PROVE FALSE
    BY <1>4, Addresses
  <2>3. XBASE - 1 \in Written
    BY <1>4, <1>5, <2>2, Addresses
  <2> QED
    BY <2>1, <2>3, Addresses
<1>7. /\ w.eip = HandlerBody /\ w.esp = v.esp - HWORDS /\ w.gp = [r \in Gp |-> 10 * Len(saved)]
      /\ w.mem = [a \in DOMAIN v.mem |-> IF a \in Written THEN Junk ELSE v.mem[a]]
      /\ DOMAIN w = {"eip", "esp", "eflags", "gp", "mem"}
  BY <1>2, <1>3 DEF HandlerCall, Handles, Regs
<1>8. Regs(w) /\ DOMAIN w.mem = Stacks
  BY <1>3, <1>7 DEF Handles, Regs
<1>9. \A b \in Stacks : b >= x - 2 => w.mem[b] = v.mem[b]
  BY <1>3, <1>4, <1>5, <1>7, Addresses DEF Handles, Stacks
<1>10. \A b \in x - 2 .. x + 12 : b \in Stacks /\ w.mem[b] = v.mem[b]
  BY <1>4, <1>9, Addresses DEF Stacks
<1>11. Frame(v.mem, x, u, 0) /\ Called(v.mem, x)
  BY <1>3 DEF Handles, Inner, HandlerEntry
<1>12. Frame(w.mem, x, u, 0)
  <2>1. \A b \in x + 2 .. x + 12 : w.mem[b] = v.mem[b]
    BY <1>4, <1>10
  <2> QED
    BY <1>4, <1>11, <2>1, FrameKept
<1>13. Called(w.mem, x)
  BY <1>4, <1>10, <1>11 DEF Called
<1>14. w.esp = x + Offset(w.eip) /\ w.esp >= XBASE
  BY <1>4, <1>6, <1>7, Offsets, Addresses
<1>15. Inner(w, x, u)
  BY <1>7, <1>12, <1>13, <1>14 DEF Inner, HandlerBody, HandlerEntry
<1>16. Kept(v.mem, w.mem, x)
  BY <1>4, <1>9, <1>10, Addresses DEF Kept, Stacks
<1>17. Handles(w, x, u)
  BY <1>3, <1>8, <1>15 DEF Handles
<1>18. w.eip \in Handling
  BY <1>7 DEF Handling
<1> QED
  BY <1>1, <1>2, <1>16, <1>17, <1>18, Working DEF HandlerCall, NestInv, Types

\* It returns to pfentry.S, and has made the page of the fault writable.
LEMMA HandlerReturnKeeps ==
  ASSUME NestInv, HandlerReturn
  PROVE  NestInv'
<1>1. saved # <<>>
  BY DEF NestInv, Program, HandlerReturn, Main, HandlerBody
<1>2. PICK v, w, x, u : v = s /\ w = s' /\ x = LastAt /\ u = LastU
  OBVIOUS
<1>3. Handles(v, x, u) /\ v.eip = HandlerBody
  BY <1>1, <1>2, InnerFacts DEF HandlerReturn
<1>4. v.esp = x - 2 - HWORDS /\ x \in Int
  BY <1>3, Offsets, Addresses DEF Handles, Inner, Placed, HandlerBody
<1>5. v.esp + HWORDS = x - 2 /\ v.esp + HWORDS + 1 = x - 1
  BY <1>4, Addresses
<1>6. v.mem[x - 2] = 4 /\ v.mem[x - 1] = x
  BY <1>3 DEF Handles, Inner, Called, HandlerBody
<1>7. /\ w.eip = 4 /\ w.esp = x - 1 /\ w.mem = v.mem /\ w.gp = [r \in Gp |-> Junk]
      /\ DOMAIN w = {"eip", "esp", "eflags", "gp", "mem"}
      /\ stackw' = (stackw \/ v.mem[x] \in Ustack)
  <2>1. /\ w = [v EXCEPT !.eip = v.mem[v.esp + HWORDS], !.esp = v.esp + HWORDS + 1,
                         !.gp = [r \in Gp |-> Junk]]
        /\ stackw' = (stackw \/ v.mem[v.mem[v.esp + HWORDS + 1]] \in Ustack)
    BY <1>2 DEF HandlerReturn
  <2>2. stackw' = (stackw \/ v.mem[x] \in Ustack)
    BY <1>5, <1>6, <2>1
  <2>3. w = [v EXCEPT !.eip = 4, !.esp = x - 1, !.gp = [r \in Gp |-> Junk]]
    BY <1>5, <1>6, <2>1
  <2> QED
    BY <1>3, <2>2, <2>3 DEF Handles, Regs
<1>8. Frame(w.mem, x, u, 0)
  BY <1>3, <1>7 DEF Handles, Inner, HandlerBody
<1>9. x - 1 >= XBASE
  BY <1>3, <1>4, Addresses DEF Handles, Inner, Placed, HandlerBody
<1>10. Inner(w, x, u)
  BY <1>4, <1>7, <1>8, <1>9, Offsets DEF Inner, HandlerBody, HandlerEntry
<1>11. Handles(w, x, u)
  BY <1>3, <1>7, <1>10 DEF Handles, Regs
<1>12. Kept(v.mem, w.mem, x)
  BY <1>7 DEF Kept
<1>13. stackw \in BOOLEAN /\ mode' = "user" /\ saved' = saved
  BY DEF HandlerReturn, NestInv, Types
<1>14. CASE stackw'
  BY <1>1, <1>2, <1>7, <1>11, <1>12, <1>13, <1>14, Working
<1>15. CASE ~stackw'
  <2>1. ~stackw /\ v.mem[x] \notin Ustack
    BY <1>7, <1>15
  <2>2. Len(saved) > 1
    BY <1>1, <1>2, <2>1, InnerFacts DEF NestInv, StackServed, LastAt
  <2> QED
    BY <1>1, <1>2, <1>7, <1>11, <1>12, <1>13, <1>15, <2>1, <2>2, Working
<1> QED
  BY <1>14, <1>15

\* Whatever enters the kernel leaves the program and its stacks alone.
LEMMA EnterKeeps ==
  ASSUME NestInv, NEW n \in 0..255, NEW va, NEW err, RightError(n, err), Enter(n, va, err),
         n = T_PGFLT => IF saved = <<>> THEN stackw \/ va \in Ustack
                        ELSE s.eip \in {HandlerEntry, HandlerBody} \/ s.esp = XBASE,
         n = T_SYSCALL => s.eip \in {Main, HandlerBody}
  PROVE  NestInv'
<1>1. TrapframeExact' /\ FrameOf(tf', n, s)
  BY EnterFrame
<1>2. /\ s' = s /\ stackw' = stackw /\ saved' = saved /\ mode' = "kernel"
      /\ vec' = [n |-> n, va |-> va]
  BY DEF Enter
<1>3. vec'.n = n /\ vec'.va = va
  BY <1>2
<1>4. Trapped'
  <2>1. Words(tf, 17, {tf[i] : i \in 1..17})'
    BY <1>1 DEF FrameOf
  <2>2. \A r \in Gp : tf'[Reg(r)] = s'.gp[r]
    BY <1>1, <1>2 DEF FrameOf
  <2>3. (vec.n = T_PGFLT => FaultFrom(s, saved))'
    BY <1>2, <1>3 DEF FaultFrom
  <2>4. (vec.n = T_SYSCALL => s.eip \in {Main, HandlerBody})'
    BY <1>2, <1>3
  <2> QED
    BY <2>1, <2>2, <2>3, <2>4 DEF Trapped
<1>5. Types'
  BY <1>2 DEF NestInv, Types
<1>6. StackServed(s, saved)'
  BY <1>2 DEF NestInv, StackServed
<1> QED
  BY <1>1, <1>2, <1>4, <1>5, <1>6 DEF NestInv

\* pfentry.S faults only at the end of the exception stack: the stack of the program is
\* writable when it goes back there.
LEMMA FaultsFrom ==
  ASSUME NestInv, StackFirst, mode = "user", NEW va \in Faults
  PROVE  IF saved = <<>> THEN stackw \/ va \in Ustack
         ELSE s.eip \in {HandlerEntry, HandlerBody} \/ s.esp = XBASE
<1>1. CASE saved = <<>>
  <2>1. s.eip = Main /\ s.esp \in 1 .. UWORDS - 1
    BY <1>1 DEF NestInv, Program
  <2>2. Written = {}
    BY <2>1 DEF Written, Main, HandlerEntry
  <2>3. va = s.esp - 1 \/ stackw
    BY <2>1, <2>2 DEF Faults, Main, HandlerBody
  <2>4. s.esp - 1 \in Ustack
    BY <2>1, Addresses
  <2> QED
    BY <1>1, <2>3, <2>4
<1>2. CASE saved # <<>>
  <2>1. PICK v, x, u : v = s /\ x = LastAt /\ u = LastU
    OBVIOUS
  <2>2. Handles(v, x, u) /\ Len(saved) \in Nat /\ Len(saved) >= 1
    BY <1>2, <2>1, InnerFacts
  <2>3. Inner(v, x, u) /\ Placed(x, u)
    BY <2>2 DEF Handles
  <2> SUFFICES ASSUME v.eip \notin {HandlerEntry, HandlerBody} PROVE v.esp = XBASE
    BY <1>2, <2>1
  <2>4. v.eip \in 1 .. 17
    BY <2>3 DEF Inner
  <2>5. va \in Written /\ ~Writable(va)
    BY <2>1, <2>4 DEF Faults, Main, HandlerBody
  <2>6. v.eip \in {1, 3, 8} /\ va = v.esp - 1
    BY <2>1, <2>4, <2>5 DEF Written, HandlerEntry
  <2>7. CASE v.eip \in {1, 3}
    <3>1. v.esp \in Int /\ v.esp >= XBASE /\ v.esp <= UXSTACKTOP
      BY <2>3, <2>7, Offsets, Addresses DEF Inner, Placed
    <3>2. va \notin Xstack
      BY <2>5 DEF Writable
    <3> QED
      BY <2>6, <3>1, <3>2, Addresses
  <2>8. CASE v.eip = 8
    <3>1. va = u.esp - 1
      BY <2>3, <2>6, <2>8 DEF Inner
    <3>2. CASE u.esp \in 1 .. UWORDS - 1
      <4>1. va \in Ustack
        BY <3>1, <3>2, Addresses
      <4>2. ~stackw
        BY <2>5, <4>1 DEF Writable
      <4>3. Len(saved) > 1
        BY <1>2, <2>1, <2>8, <4>2 DEF NestInv, StackServed, Handling, HandlerEntry, HandlerBody
      <4>4. InHandler(u, saved[Len(saved) - 1].at) /\ XBASE \in Int
        <5>1. Len(saved) \in 1 .. Len(saved)
          BY <2>2
        <5> QED
          BY <2>1, <4>3, <5>1, Addresses DEF NestInv, Chain, Link, LastU
      <4> QED
        BY <3>2, <4>4, Addresses DEF InHandler
    <3>3. CASE u.esp = x + 14 /\ x + 16 <= UXSTACKTOP
      <4>1. va \in Xstack
        BY <2>3, <3>1, <3>3, Addresses DEF Placed
      <4> QED
        BY <2>5, <4>1 DEF Writable
    <3> QED
      BY <2>3, <3>2, <3>3 DEF Placed
  <2> QED
    BY <2>6, <2>7, <2>8
<1> QED
  BY <1>1, <1>2

\* The ways into the kernel.
Enters ==
  \/ PageFault
  \/ \E n \in 0..255 : SoftInt(n)
  \/ \E n \in 0..19 \ {2, T_PGFLT} : Exception(n)
  \/ \E n \in 32..47 : Interrupt(n)

LEMMA EntersKeeps ==
  ASSUME NestInv, StackFirst, Enters
  PROVE  NestInv' /\ mode' = "kernel" /\ saved' = saved
<1>1. ASSUME NEW n \in 0..255, NEW va, NEW err, RightError(n, err), Enter(n, va, err),
             n # T_PGFLT, n = T_SYSCALL => s.eip \in {Main, HandlerBody}
      PROVE  NestInv' /\ mode' = "kernel" /\ saved' = saved
  <2>1. NestInv'
    BY <1>1, EnterKeeps
  <2> QED
    BY <1>1, <2>1 DEF Enter
<1>2. CASE PageFault
  <2>1. PICK va \in Faults : Enter(T_PGFLT, va, <<6>>)
    BY <1>2 DEF PageFault
  <2>2. RightError(T_PGFLT, <<6>>) /\ T_PGFLT \in 0..255 /\ T_PGFLT # T_SYSCALL
    BY DEF RightError, ErrorVectors, T_PGFLT, T_SYSCALL
  <2>3. mode = "user" /\ mode' = "kernel" /\ saved' = saved
    BY <2>1 DEF Enter
  <2>4. IF saved = <<>> THEN stackw \/ va \in Ustack
        ELSE s.eip \in {HandlerEntry, HandlerBody} \/ s.esp = XBASE
    BY <2>3, FaultsFrom
  <2> QED
    BY <2>1, <2>2, <2>3, <2>4, EnterKeeps
<1>3. ASSUME NEW n \in 0..255, SoftInt(n) PROVE NestInv' /\ mode' = "kernel" /\ saved' = saved
  <2>1. CASE trap_init(n) = 3
    <3>1. Enter(n, 0, <<>>) /\ s.eip \in {Main, HandlerBody}
      BY <1>3, <2>1 DEF SoftInt
    <3>2. RightError(n, <<>>) /\ n # T_PGFLT
      BY <2>1 DEF trap_init, RightError, ErrorVectors, T_BRKPT, T_SYSCALL, T_PGFLT
    <3> QED
      BY <1>1, <3>1, <3>2
  <2>2. CASE trap_init(n) # 3
    <3>1. PICK e \in Int : Enter(T_GPFLT, 0, <<e>>)
      BY <1>3, <2>2 DEF SoftInt
    <3>2. RightError(T_GPFLT, <<e>>) /\ T_GPFLT \in 0..255 /\ T_GPFLT # T_PGFLT
          /\ T_GPFLT # T_SYSCALL
      BY DEF RightError, ErrorVectors, T_GPFLT, T_PGFLT, T_SYSCALL
    <3> QED
      BY <1>1, <3>1, <3>2
  <2> QED
    BY <2>1, <2>2
<1>4. ASSUME NEW n \in 0..19 \ {2, T_PGFLT}, Exception(n)
      PROVE  NestInv' /\ mode' = "kernel" /\ saved' = saved
  <2>1. PICK err : err = (IF PushesError(n) THEN <<0>> ELSE <<>>) /\ Enter(n, 0, err)
    BY <1>4 DEF Exception
  <2>2. RightError(n, err) /\ n \in 0..255 /\ n # T_PGFLT /\ n # T_SYSCALL
    BY <2>1 DEF RightError, ErrorVectors, PushesError, T_SYSCALL
  <2> QED
    BY <1>1, <2>1, <2>2
<1>5. ASSUME NEW n \in 32..47, Interrupt(n)
      PROVE  NestInv' /\ mode' = "kernel" /\ saved' = saved
  <2>1. Enter(n, 0, <<>>)
    BY <1>5 DEF Interrupt
  <2>2. RightError(n, <<>>) /\ n \in 0..255 /\ n # T_PGFLT /\ n # T_SYSCALL
    BY DEF RightError, ErrorVectors, T_PGFLT, T_SYSCALL
  <2> QED
    BY <1>1, <2>1, <2>2
<1> QED
  BY <1>2, <1>3, <1>4, <1>5 DEF Enters

-----------------------------------------------------------------------------
(* The kernel returns, and the program goes on.                            *)

\* Nothing that the handling of a fault depends on has changed.
Same(w, v) ==
  /\ w.eip = v.eip /\ w.esp = v.esp /\ w.eflags = v.eflags /\ w.mem = v.mem /\ Regs(w)
  /\ w.gp = v.gp \/ v.eip \in {Main, HandlerBody}

LEMMA SameKeeps ==
  ASSUME NestInv, Same(s', s), stackw' = stackw, saved' = saved,
         mode' \in {"user", "panic", "destroyed"}
  PROVE  NestInv'
<1>1. PICK v, w, q : v = s /\ w = s' /\ q = saved
  OBVIOUS
<1>2. Program(w, q)
  <2>1. CASE q = <<>>
    BY <1>1, <2>1 DEF NestInv, Program, Same
  <2>2. CASE q # <<>>
    <3>1. PICK x, u : x = q[Len(q)].at /\ u = q[Len(q)].u /\ Inner(v, x, u)
      BY <1>1, <2>2 DEF NestInv, Program
    <3>2. /\ w.eip = v.eip /\ w.esp = v.esp /\ w.eflags = v.eflags /\ w.mem = v.mem
          /\ w.gp = v.gp \/ v.eip \in {Main, HandlerBody}
      BY <1>1 DEF Same
    <3>3. Inner(w, x, u)
      BY SMTT(40), <3>1, <3>2 DEF Inner, HandlerBody, HandlerEntry, Main
    <3> QED
      BY <2>2, <3>1, <3>3 DEF Program
  <2> QED
    BY <2>1, <2>2
<1>3. StackServed(s, saved)'
  BY DEF NestInv, StackServed, Same
<1>4. Types'
  BY DEF NestInv, Types, Same
<1>5. Trapped' /\ TrapframeExact'
  BY DEF Trapped, TrapframeExact
<1> QED
  BY <1>1, <1>2, <1>3, <1>4, <1>5 DEF NestInv, Same

\* The words of a Trapframe, and memory m, loaded back.
Popped(w, f, m) ==
  /\ w.eip = f[13] /\ w.esp = f[16] /\ w.eflags = f[15] /\ w.mem = m
  /\ w.gp = [r \in Gp |-> f[Reg(r)]] /\ Regs(w)

LEMMA PopTf ==
  ASSUME NEW f, NEW w, w = env_pop_tf(f)
  PROVE  Popped(w, f, s.mem)
  BY DEF env_pop_tf, Regs, tf_eip, tf_esp, tf_eflags, Popped

\* A trap that returns changes no register but the result of a system call.
Returned ==
  /\ SameRegs(s', IF vec.n = T_SYSCALL THEN [s EXCEPT !.gp["eax"] = 0] ELSE s)
  /\ s'.mem = s.mem

LEMMA DispatchKeeps ==
  ASSUME NestInv, trap_dispatch
  PROVE  NestInv' /\ (mode' = "user" => Returned)
<1>1. PICK f, v, w : f = tf /\ v = s /\ w = s'
  OBVIOUS
<1>2. /\ f[11] = vec.n /\ f[13] = v.eip /\ f[15] = v.eflags /\ f[16] = v.esp
      /\ \A r \in Gp : f[Reg(r)] = v.gp[r]
      /\ Words(f, 17, {f[i] : i \in 1..17})
  BY <1>1 DEF NestInv, Trapped, TrapframeExact, trap_dispatch, tf_trapno, tf_eip, tf_eflags,
              tf_esp
<1>3. Regs(v)
  BY <1>1 DEF NestInv, Types
<1>4. stackw' = stackw /\ saved' = saved
  BY DEF trap_dispatch
<1>5. CASE f[11] \in {T_BRKPT, IRQ_TIMER, IRQ_SPURIOUS}
  <2>1. w = env_pop_tf(f) /\ mode' = "user"
    BY <1>1, <1>5 DEF trap_dispatch, tf_trapno, T_SYSCALL, T_BRKPT, IRQ_TIMER, IRQ_SPURIOUS
  <2>6. Popped(w, f, v.mem)
    BY <1>1, <2>1, PopTf
  <2>2. w.gp = v.gp
    BY <1>2, <1>3, <2>6 DEF Regs, Popped
  <2>3. w.eip = v.eip /\ w.esp = v.esp /\ w.eflags = v.eflags /\ w.mem = v.mem /\ Regs(w)
    BY <1>2, <2>6 DEF Popped
  <2>4. vec.n # T_SYSCALL
    BY <1>2, <1>5 DEF T_SYSCALL, T_BRKPT, IRQ_TIMER, IRQ_SPURIOUS
  <2>5. Same(s', s) /\ Returned
    BY <1>1, <2>2, <2>3, <2>4 DEF Same, Returned, SameRegs
  <2> QED
    BY <1>4, <2>1, <2>5, SameKeeps
<1>6. CASE f[11] = T_SYSCALL
  <2>1. PICK g : g = [f EXCEPT ![8] = 0]
    OBVIOUS
  <2>2. w = env_pop_tf(g) /\ mode' = "user"
    BY <1>1, <1>6, <2>1 DEF trap_dispatch, tf_trapno, T_SYSCALL, T_BRKPT, IRQ_TIMER, IRQ_SPURIOUS
  <2>14. Popped(w, g, v.mem)
    BY <1>1, <2>2, PopTf
  <2>3. DOMAIN f = 1 .. 17
    BY <1>2 DEF Words
  <2>4. g[8] = 0 /\ \A i \in 1 .. 17 : i # 8 => g[i] = f[i]
    BY <2>1, <2>3
  <2>5. w.eip = v.eip /\ w.esp = v.esp /\ w.eflags = v.eflags /\ w.mem = v.mem /\ Regs(w)
    BY <1>2, <2>4, <2>14 DEF Popped
  <2>6. ASSUME NEW r \in Gp PROVE w.gp[r] = IF r = "eax" THEN 0 ELSE v.gp[r]
    <3>1. w.gp[r] = g[Reg(r)] /\ Reg(r) \in 1 .. 17 /\ (Reg(r) = 8 <=> r = "eax")
      BY <2>14, GpFacts DEF Popped
    <3> QED
      BY <1>2, <2>4, <3>1
  <2>7. PICK t : t = [v EXCEPT !.gp["eax"] = 0]
    OBVIOUS
  <2>8. t.eip = v.eip /\ t.esp = v.esp /\ t.eflags = v.eflags /\ t.gp = Sets(v.gp, "eax", 0)
    BY <1>3, <2>7 DEF Regs, Sets
  <2>9. w.gp = [r \in Gp |-> w.gp[r]] /\ v.gp = [r \in Gp |-> v.gp[r]]
    BY <1>3, <2>5 DEF Regs
  <2>10. w.gp = t.gp
    BY <2>6, <2>8, <2>9 DEF Sets
  <2>11. vec.n = T_SYSCALL /\ v.eip \in {Main, HandlerBody}
    BY <1>1, <1>2, <1>6 DEF NestInv, Trapped, trap_dispatch
  <2>12. Same(s', s)
    BY <1>1, <2>5, <2>11 DEF Same
  <2>13. Returned
    BY <1>1, <2>5, <2>7, <2>8, <2>10, <2>11 DEF Returned, SameRegs
  <2> QED
    BY <1>4, <2>2, <2>12, <2>13, SameKeeps
<1>7. CASE f[11] \notin {T_BRKPT, IRQ_TIMER, IRQ_SPURIOUS, T_SYSCALL}
  <2>1. s' = s /\ mode' = "destroyed"
    BY <1>1, <1>7 DEF trap_dispatch, tf_trapno
  <2>2. Same(s', s)
    BY <1>1, <1>3, <2>1 DEF Same
  <2> QED
    BY <1>4, <2>1, <2>2, SameKeeps
<1> QED
  BY <1>5, <1>6, <1>7

\* The program pushes and pops, and forks, when no fault is being handled.
LEMMA MainKeeps ==
  ASSUME NestInv, MainFork \/ \E e \in 1 .. UWORDS - 1 : MainStack(e)
  PROVE  NestInv' /\ saved' = saved /\ mode = "user"
<1>1. mode = "user" /\ mode' = "user" /\ saved' = saved /\ stackw' \in BOOLEAN /\ s.eip = Main
  BY DEF MainFork, MainStack, NestInv, Types
<1>2. saved = <<>>
  BY <1>1 DEF NestInv, Program, Inner, Main, HandlerEntry, HandlerBody
<1>3. s'.eip = Main /\ s'.esp \in 1 .. UWORDS - 1 /\ Regs(s') /\ s'.mem = s.mem
  <2>1. CASE MainFork
    BY <1>1, <1>2, <2>1 DEF MainFork, NestInv, Program, Types
  <2>2. ASSUME NEW e \in 1 .. UWORDS - 1, MainStack(e)
        PROVE  s'.eip = Main /\ s'.esp \in 1 .. UWORDS - 1 /\ Regs(s') /\ s'.mem = s.mem
    <3>1. s' = Switch(s, e) /\ Regs(s)
      BY <2>2 DEF MainStack, Switch, NestInv, Types
    <3>2. Becomes(s', s, s.eip, e, s.eflags, s.gp, s.mem)
      BY <3>1, SwitchFields
    <3> QED
      BY <1>1, <3>2 DEF Becomes
  <2> QED
    BY <2>1, <2>2
<1>4. Types'
  BY <1>1, <1>3 DEF NestInv, Types
<1>5. Program(s, saved)' /\ StackServed(s, saved)' /\ Trapped' /\ TrapframeExact'
  BY <1>1, <1>2, <1>3 DEF Program, StackServed, Trapped, TrapframeExact
<1> QED
  BY <1>1, <1>3, <1>4, <1>5 DEF NestInv

-----------------------------------------------------------------------------
(* page_fault_handler puts a frame on the exception stack.                 *)

UtfOf(q, f, va) ==
  /\ q[1] = va /\ \A i \in 1..8 : q[2 + i] = f[i]
  /\ q[11] = f[13] /\ q[12] = f[15] /\ q[13] = f[16]

LEMMA UtfWords ==
  ASSUME NEW f, Words(f, 17, {f[i] : i \in 1..17}), NEW va, NEW q, q = UTrapframe(f, va)
  PROVE  UtfOf(q, f, va)
<1>1. PICK S : S = {f[i] : i \in 1..17} \cup {va}
  OBVIOUS
<1>2. PICK a, b, c : a = <<va, f[12]>> /\ b = SubSeq(f, 1, 8) /\ c = <<f[13], f[15], f[16]>>
  OBVIOUS
<1>3. PICK d : d = a \o b
  OBVIOUS
<1>4. Joins(d, a, b) /\ Joins(q, d, c)
  BY <1>2, <1>3, Zenon DEF Joins, UTrapframe, tf_err, tf_eip, tf_eflags, tf_esp
<1>5. va \in S /\ \A i \in 1..17 : f[i] \in S
  BY <1>1
<1>6. PICK k \in Nat, m \in Nat, n \in Nat, t \in Nat : k = 2 /\ m = 8 /\ n = 3 /\ t = 10
  OBVIOUS
<1>7. Words(a, k, S) /\ Words(c, n, S)
  BY <1>2, <1>5, <1>6 DEF Words
<1>8. Words(b, m, S) /\ \A i \in 1..8 : b[i] = f[i]
  <2>1. f \in Seq({f[i] : i \in 1..17}) /\ \A i \in 1 .. m : f[i] \in S
    BY <1>5, <1>6 DEF Words
  <2>2. /\ b \in Seq(S) /\ Len(b) = IF 1 <= m THEN m - 1 + 1 ELSE 0
        /\ \A i \in 1 .. m - 1 + 1 : b[i] = f[1 + i - 1]
    BY <1>2, <1>6, <2>1, SubSeqProperties
  <2> QED
    BY <1>6, <2>2 DEF Words
<1>9. Words(d, k + m, S) /\ Holds(d, 0, a, k) /\ Holds(d, k, b, m)
  BY <1>4, <1>7, <1>8, Concat
<1>10. Words(d, t, S)
  BY <1>6, <1>9
<1>11. Holds(q, 0, d, t) /\ Holds(q, t, c, n)
  BY <1>4, <1>7, <1>10, Concat
<1>12. q[1] = va
  <2>1. 1 \in 1 .. t /\ 1 \in 1 .. k /\ 0 + 1 = 1
    BY <1>6
  <2>2. q[0 + 1] = d[1] /\ d[0 + 1] = a[1] /\ a[1] = va
    BY <1>2, <1>9, <1>11, <2>1 DEF Holds
  <2> QED
    BY <2>1, <2>2
<1>13. ASSUME NEW i \in 1..8 PROVE q[2 + i] = f[i]
  <2>1. 2 + i \in 1 .. t /\ i \in 1 .. m /\ 0 + (2 + i) = 2 + i /\ k + i = 2 + i
    BY <1>6
  <2>2. q[0 + (2 + i)] = d[2 + i] /\ d[k + i] = b[i]
    BY <1>9, <1>11, <2>1, Zenon DEF Holds
  <2> QED
    BY <1>8, <2>1, <2>2
<1>14. q[11] = f[13] /\ q[12] = f[15] /\ q[13] = f[16]
  <2>1. 1 \in 1 .. n /\ 2 \in 1 .. n /\ 3 \in 1 .. n /\ t + 1 = 11 /\ t + 2 = 12 /\ t + 3 = 13
    BY <1>6
  <2>2. q[t + 1] = c[1] /\ q[t + 2] = c[2] /\ q[t + 3] = c[3]
    BY <1>11, <2>1 DEF Holds
  <2> QED
    BY <1>2, <2>1, <2>2
<1> QED
  BY <1>12, <1>13, <1>14 DEF UtfOf

\* The program v at the upcall with the frame at x for fault address va.
Delivered(w, v, x, va, u) ==
  /\ Regs(w) /\ w.eip = 1 /\ w.esp = x /\ DOMAIN w.mem = DOMAIN v.mem
  /\ w.mem[x] = va /\ Frame(w.mem, x, u, 0)
  /\ \A b \in DOMAIN v.mem : b \notin x .. x + 12 => w.mem[b] = v.mem[b]

LEMMA Delivers ==
  ASSUME NestInv, page_fault_handler, NEW x, x = exstack(s.esp), s.esp \in Int, x \in Int, x >= XBASE,
         x + 13 <= UXSTACKTOP, NEW u, u = [s EXCEPT !.mem = <<>>]
  PROVE  /\ Delivered(s', s, x, vec.va, u) /\ mode' = "user"
         /\ saved' = Append(saved, [at |-> x, u |-> u])
<1>1. PICK f, v, w, va, q : f = tf /\ v = s /\ w = s' /\ va = vec.va /\ q = UTrapframe(f, va)
  OBVIOUS
<1>2. /\ f[13] = v.eip /\ f[15] = v.eflags /\ f[16] = v.esp
      /\ \A r \in Gp : f[Reg(r)] = v.gp[r]
      /\ Words(f, 17, {f[i] : i \in 1..17})
  BY <1>1 DEF NestInv, Trapped, TrapframeExact, page_fault_handler, tf_eip, tf_eflags, tf_esp
<1>3. PICK g : g = [f EXCEPT ![16] = x, ![13] = 1]
  OBVIOUS
<1>4. PICK t : t = env_pop_tf(g)
  OBVIOUS
<1>5. Popped(t, g, v.mem)
  BY <1>1, <1>4, PopTf
<1>6. ~(x < XBASE)
  BY Addresses
<1>7. /\ w = [t EXCEPT !.mem = [a \in DOMAIN @ |-> IF a \in x .. x + 12 THEN q[a - x + 1] ELSE @[a]]]
      /\ saved' = Append(saved, [at |-> x, u |-> u]) /\ mode' = "user"
  <2>1. exstack(tf[tf_esp]) = x
    BY <1>1, <1>2 DEF tf_esp
  <2> QED
    BY <1>1, <1>3, <1>4, <1>6, <2>1 DEF page_fault_handler, tf_esp, tf_eip
<1>8. /\ w.eip = t.eip /\ w.esp = t.esp /\ w.gp = t.gp
      /\ w.mem = [a \in DOMAIN v.mem |-> IF a \in x .. x + 12 THEN q[a - x + 1] ELSE v.mem[a]]
      /\ Regs(w)
  BY <1>5, <1>7 DEF Popped, Regs
<1>9. g[16] = x /\ g[13] = 1
  <2>1. DOMAIN f = 1 .. 17
    BY <1>2 DEF Words
  <2> QED
    BY <1>3, <2>1
<1>10. DOMAIN w.mem = DOMAIN v.mem /\ w.eip = 1 /\ w.esp = x
  BY <1>5, <1>8, <1>9 DEF Popped
<1>11. ASSUME NEW i \in 0 .. 12 PROVE w.mem[x + i] = q[i + 1]
  <2>1. x + i \in DOMAIN v.mem
    <3>3. XBASE \in Int /\ UXSTACKTOP \in Int
      BY Addresses
    <3>2. x + i \in Int /\ XBASE <= x + i /\ x + i < UXSTACKTOP
      BY SMTT(40), <3>3
    <3>1. x + i \in Xstack
      BY <3>2, Addresses
    <3> QED
      BY <1>1, <3>1 DEF NestInv, Types
  <2>2. x + i \in x .. x + 12 /\ (x + i) - x + 1 = i + 1
    BY SMTT(40)
  <2> QED
    BY <1>8, <2>1, <2>2
<1>12. UtfOf(q, f, va)
  BY ZenonT(60), <1>1, <1>2, UtfWords
<1>13. u.eip = v.eip /\ u.esp = v.esp /\ u.eflags = v.eflags /\ u.gp = v.gp
  BY <1>1 DEF NestInv, Types, Regs
<1>14. w.mem[x] = va
  <2>1. w.mem[x + 0] = q[0 + 1] /\ x + 0 = x /\ 0 + 1 = 1
    BY <1>11
  <2> QED
    BY <1>12, <2>1 DEF UtfOf
<1>15. ASSUME NEW r \in Gp PROVE w.mem[x + 1 + Reg(r)] = u.gp[r]
  <2>1. PICK i \in 1 .. 8 : i = Reg(r)
    BY GpFacts
  <2>2. 1 + i \in 0 .. 12 /\ x + (1 + i) = x + 1 + i /\ (1 + i) + 1 = 2 + i
    OBVIOUS
  <2>3. w.mem[x + (1 + i)] = q[(1 + i) + 1]
    BY <1>11, <2>2
  <2>4. w.mem[x + 1 + i] = q[2 + i]
    BY <2>2, <2>3
  <2> QED
    BY <1>2, <1>12, <1>13, <2>1, <2>4 DEF UtfOf
<1>16. w.mem[x + 10] = u.eip /\ w.mem[x + 11] = u.eflags /\ w.mem[x + 12] = u.esp - 0
  <2>1. w.mem[x + 10] = q[10 + 1] /\ w.mem[x + 11] = q[11 + 1] /\ w.mem[x + 12] = q[12 + 1]
    BY <1>11
  <2> QED
    BY SMTT(40), <1>1, <1>2, <1>12, <1>13, <2>1 DEF UtfOf
<1>17. Frame(w.mem, x, u, 0)
  BY <1>15, <1>16 DEF Frame
<1>18. \A b \in DOMAIN v.mem : b \notin x .. x + 12 => w.mem[b] = v.mem[b]
  BY <1>8
<1> QED
  BY <1>1, <1>7, <1>8, <1>10, <1>14, <1>17, <1>18 DEF Delivered

Appended(p, q, n, e) ==
  /\ Chain(p) /\ p \in Seq({p[i] : i \in 1 .. Len(p)}) /\ p # <<>> /\ n \in Nat /\ Len(p) = n + 1
  /\ p[n + 1] = e /\ \A i \in 1 .. n : p[i] = q[i]

\* One more frame, below the others.
LEMMA AppendChain ==
  ASSUME NEW S, NEW q \in Seq(S), Chain(q), NEW e, NEW p, p = Append(q, e),
         NEW n, n = Len(q), e.at \in Int, Link(p, n + 1), n > 0 => e.at + 16 <= q[n].at
  PROVE  Appended(p, q, n, e)
<1>1. /\ p \in Seq(S \cup {e}) /\ p # <<>> /\ n \in Nat /\ Len(p) = n + 1 /\ p[n + 1] = e
      /\ \A i \in 1 .. n : p[i] = q[i]
  OBVIOUS
<1>2. ASSUME NEW i \in 1 .. n + 1 PROVE Link(p, i)
  <2>1. CASE i = n + 1
    BY <2>1
  <2>2. CASE i # n + 1
    <3>1. i \in 1 .. n /\ (i > 1 => i - 1 \in 1 .. n)
      BY <1>1, <2>2
    <3>2. Link(q, i) /\ p[i] = q[i] /\ (i > 1 => p[i-1] = q[i-1])
      BY <1>1, <3>1 DEF Chain
    <3> QED
      BY <3>2 DEF Link
  <2> QED
    BY <2>1, <2>2
<1>3. ASSUME NEW i \in 1 .. n PROVE q[i].at \in Int
  BY <1>3, Addresses DEF Chain, Link
<1>4. ASSUME NEW i \in 1 .. n + 1, NEW j \in 1 .. n + 1, i < j PROVE p[j].at + 16 <= p[i].at
  <2>1. i \in 1 .. n /\ p[i] = q[i]
    BY <1>1, <1>4
  <2>2. CASE j = n + 1
    <3>1. p[j] = e /\ n \in 1 .. n /\ e.at + 16 <= q[n].at
      BY <1>1, <2>1, <2>2
    <3>2. q[n].at \in Int /\ q[i].at \in Int
      BY <1>3, <2>1, <3>1
    <3>3. i # n => q[n].at + 16 <= q[i].at
      <4>1. i # n => i < n
        BY <1>1, <2>1
      <4> QED
        BY <2>1, <3>1, <4>1 DEF Chain
    <3>4. e.at + 16 <= q[i].at
      BY <3>1, <3>2, <3>3
    <3> QED
      BY <2>1, <3>1, <3>4
  <2>3. CASE j # n + 1
    <3>1. j \in 1 .. n /\ p[j] = q[j]
      BY <1>1, <2>3
    <3> QED
      BY <1>4, <2>1, <3>1 DEF Chain
  <2> QED
    BY <2>2, <2>3
<1> QED
  <2>1. p \in Seq({p[i] : i \in 1 .. Len(p)})
    BY <1>1
  <2> QED
    BY <1>1, <1>2, <1>4, <2>1 DEF Chain, Appended

\* What is known of the frame before, and of the address of a first fault.
Below(x, n) ==
  n > 0 => /\ x + 16 <= LastAt /\ Frame(s.mem, LastAt, LastU, 0) /\ Called(s.mem, LastAt)
FirstServed(n) == stackw \/ n > 0 \/ vec.va \in Ustack
Nested(w, p) ==
  /\ Chain(p) /\ Outer(p, w.mem) /\ Program(w, p) /\ StackServed(w, p)
  /\ p \in Seq({p[i] : i \in 1 .. Len(p)})

\* The new frame is the innermost, and its fault's program starts at pfentry.S.
LEMMA Deeper ==
  ASSUME NestInv, NEW S, saved \in Seq(S), NEW x, NEW u, NEW w, NEW e, NEW p, NEW n,
         Delivered(w, s, x, vec.va, u), x \in Int, XBASE <= x, Regs(u),
         e.at = x, e.u = u, n = Len(saved), p = Append(saved, e),
         Link(p, n + 1), Below(x, n), FirstServed(n)
  PROVE  Nested(w, p)
<1>1. PICK q, v, va : q = saved /\ v = s /\ va = vec.va
  OBVIOUS
<1>2. PICK y, t : y = LastAt /\ t = LastU
  OBVIOUS
<1>3. q \in Seq(S) /\ Chain(q) /\ p = Append(q, e) /\ n = Len(q) /\ y = q[n].at /\ t = q[n].u
  BY <1>1, <1>2 DEF NestInv, LastAt, LastU
<1>4. e.at \in Int /\ (n > 0 => e.at + 16 <= q[n].at)
  BY <1>2, <1>3 DEF Below
<1>11. Appended(p, q, n, e)
  BY <1>3, <1>4, AppendChain
<1>5. /\ Chain(p) /\ p \in Seq({p[i] : i \in 1 .. Len(p)}) /\ p # <<>> /\ n \in Nat
      /\ Len(p) = n + 1 /\ p[n + 1] = e /\ \A i \in 1 .. n : p[i] = q[i]
  BY <1>11 DEF Appended
<1>6. Program(w, p)
  <2>1. Inner(w, x, u)
    BY Offsets DEF Delivered, Inner, HandlerEntry, HandlerBody
  <2> QED
    BY <1>5, <2>1 DEF Program
<1>7. ASSUME n > 0
      PROVE  /\ Outer(p, w.mem) /\ w.mem[q[1].at] = v.mem[q[1].at]
  <2>1. q # <<>> /\ 1 <= n
    BY <1>3, <1>5, <1>7
  <2>11. Placed(y, q[n].u)
    BY <1>3, <2>1, LastFrame
  <2>2. x + 16 <= y /\ y \in Int /\ y + 13 <= UXSTACKTOP
    BY <1>2, <1>7, <2>11 DEF Placed, Below
  <2>3. \A b \in Xstack : b >= x + 13 => w.mem[b] = v.mem[b]
    BY <1>1, Addresses DEF Delivered, NestInv, Types
  <2>4. \A b \in y - 2 .. y + 12 : w.mem[b] = v.mem[b]
    <3>1. SUFFICES ASSUME NEW b \in y - 2 .. y + 12
                   PROVE  b \in Xstack /\ b >= x + 13
      BY <2>3
    <3>2. b \in Int /\ XBASE <= b /\ b < UXSTACKTOP /\ b >= x + 13
      BY <2>2, Addresses
    <3> QED
      BY <3>2, Addresses
  <2>5. Kept(v.mem, w.mem, y)
    BY <2>2, <2>3, Addresses DEF Kept
  <2>6. Outer(q, w.mem) /\ w.mem[q[1].at] = v.mem[q[1].at]
    BY <1>1, <1>3, <2>1, <2>5, OuterKept DEF NestInv
  <2>7. Frame(v.mem, y, t, 0) /\ Called(v.mem, y)
    BY <1>1, <1>2, <1>7 DEF Below
  <2>8. Frame(w.mem, y, t, 0)
    <3>1. \A b \in y + 2 .. y + 12 : w.mem[b] = v.mem[b]
      BY <2>2, <2>4
    <3> QED
      BY <2>2, <2>7, <3>1, FrameKept
  <2>9. Called(w.mem, y)
    <3>1. y - 1 \in y - 2 .. y + 12 /\ y - 2 \in y - 2 .. y + 12
      BY <2>2
    <3>2. w.mem[y - 1] = v.mem[y - 1] /\ w.mem[y - 2] = v.mem[y - 2]
      BY <2>4, <3>1
    <3> QED
      BY <2>7, <3>2 DEF Called
  <2>10. ASSUME NEW i \in 1 .. Len(p), i < Len(p)
         PROVE  Frame(w.mem, p[i].at, p[i].u, 0) /\ Called(w.mem, p[i].at)
    <3>1. i \in 1 .. n /\ p[i] = q[i]
      BY <1>5, <2>10
    <3>2. CASE i = n
      BY <1>3, <2>8, <2>9, <3>1, <3>2
    <3>3. CASE i # n
      <4>1. i < n
        BY <1>5, <3>1, <3>3
      <4> QED
        BY <1>3, <2>6, <3>1, <4>1 DEF Outer
    <3> QED
      BY <3>2, <3>3
  <2> QED
    BY <2>6, <2>10 DEF Outer
<1>8. Outer(p, w.mem)
  <2>1. CASE n = 0
    BY <1>5, <2>1 DEF Outer
  <2> QED
    BY <1>5, <1>7, <2>1
<1>9. StackServed(w, p)
  <2>1. CASE n = 0
    <3>1. p[1].at = x /\ w.mem[x] = va /\ w.eip \in Handling
      BY <1>1, <1>5, <2>1 DEF Delivered, Handling
    <3> QED
      BY <1>1, <2>1, <3>1 DEF StackServed, FirstServed
  <2>2. CASE n > 0
    <3>1. p[1] = q[1] /\ Len(p) > 1 /\ q # <<>>
      BY <1>3, <1>5, <2>2
    <3>2. stackw \/ v.mem[q[1].at] \in Ustack
      BY <1>1, <3>1 DEF NestInv, StackServed
    <3> QED
      BY <1>7, <2>2, <3>1, <3>2 DEF StackServed
  <2> QED
    BY <1>5, <2>1, <2>2
<1> QED
  BY <1>5, <1>6, <1>8, <1>9 DEF Nested

LEMMA Exstack ==
  ASSUME NEW e \in Int
  PROVE  /\ e < XBASE => exstack(e) = UXSTACKTOP - 13
         /\ XBASE <= e /\ e < UXSTACKTOP => exstack(e) = e - 14
  BY Addresses DEF exstack

LEMMA PageFaultKeeps ==
  ASSUME NestInv, page_fault_handler
  PROVE  NestInv' /\ (mode' = "user" => saved' # saved)
<1>1. vec.n = T_PGFLT /\ mode = "kernel" /\ tf[16] = s.esp /\ Regs(s) /\ FaultFrom(s, saved)
  BY DEF NestInv, Types, Trapped, TrapframeExact, page_fault_handler, tf_trapno, tf_esp
<1>2. PICK x, u, e, n, p : /\ x = exstack(s.esp) /\ u = [s EXCEPT !.mem = <<>>]
                           /\ e = [at |-> x, u |-> u] /\ n = Len(saved) /\ p = Append(saved, e)
  OBVIOUS
<1>3. PICK S : saved \in Seq(S)
  BY DEF NestInv, Types
<1>4. n \in Nat /\ (n = 0 <=> saved = <<>>) /\ Len(p) = n + 1 /\ p[n + 1] = e
      /\ (n > 0 => p[n] = saved[n]) /\ p # saved
  <2>1. n \in Nat /\ Len(p) = n + 1
    BY <1>2, <1>3
  <2>2. p # saved
    BY <1>2, <2>1
  <2>3. n = 0 <=> saved = <<>>
    BY <1>2, <1>3
  <2>4. p[n + 1] = e /\ (n > 0 => p[n] = saved[n])
    BY <1>2, <1>3, <2>1
  <2> QED
    BY <2>1, <2>2, <2>3, <2>4
<1>5. /\ e.at = x /\ e.u = u /\ Regs(u)
      /\ u.eip = s.eip /\ u.esp = s.esp /\ u.eflags = s.eflags /\ u.gp = s.gp
  BY <1>1, <1>2 DEF Regs
<1>6. CASE x < XBASE
  <2>1. s' = s /\ saved' = saved /\ stackw' = stackw /\ mode' = "panic"
    BY <1>1, <1>2, <1>6 DEF page_fault_handler, tf_esp
  <2>2. Same(s', s)
    BY <1>1, <2>1 DEF Same
  <2> QED
    BY <2>1, <2>2, SameKeeps
<1>7. ASSUME x \in Int, XBASE <= x, x + 13 <= UXSTACKTOP, s.esp \in Int, Link(p, n + 1),
             Below(x, n), FirstServed(n)
      PROVE  NestInv' /\ (mode' = "user" => saved' # saved)
  <2>1. PICK w : w = s'
    OBVIOUS
  <2>2. Delivered(w, s, x, vec.va, u) /\ mode' = "user" /\ saved' = p
    BY <1>2, <1>7, <2>1, Delivers
  <2>8. Nested(w, p)
    BY <1>2, <1>3, <1>5, <1>7, <2>2, Deeper
  <2>3. /\ Chain(p) /\ Outer(p, w.mem) /\ Program(w, p) /\ StackServed(w, p)
        /\ p \in Seq({p[i] : i \in 1 .. Len(p)})
    BY <2>8 DEF Nested
  <2>4. stackw' = stackw
    BY DEF page_fault_handler
  <2>5. StackServed(s, saved)'
    BY <2>1, <2>2, <2>3, <2>4 DEF StackServed
  <2>6. Types'
    BY <2>1, <2>2, <2>3, <2>4 DEF NestInv, Types, Delivered
  <2>7. Trapped' /\ TrapframeExact'
    BY <2>2 DEF Trapped, TrapframeExact
  <2> QED
    BY <1>4, <2>1, <2>2, <2>3, <2>5, <2>6, <2>7 DEF NestInv
<1>8. CASE n = 0 /\ ~(x < XBASE)
  <2>1. s.eip = Main /\ s.esp \in 1 .. UWORDS - 1 /\ (stackw \/ vec.va \in Ustack)
    BY <1>1, <1>4, <1>8 DEF NestInv, Program, FaultFrom
  <2>2. x = UXSTACKTOP - 13
    <3>1. s.esp \in Int /\ s.esp < XBASE
      BY <2>1, Addresses
    <3> QED
      BY <1>2, <3>1, Exstack
  <2>3. x \in Int /\ XBASE <= x /\ x + 13 <= UXSTACKTOP
    BY <2>2, Addresses
  <2>4. Link(p, n + 1)
    BY <1>4, <1>5, <1>8, <2>1, <2>2, <2>3, Addresses DEF Link
  <2> QED
    BY <1>7, <1>8, <2>1, <2>3, <2>4 DEF Below, FirstServed
<1>9. CASE n > 0 /\ ~(x < XBASE)
  <2>1. saved # <<>>
    BY <1>4, <1>9
  <2>2. PICK v, y, t : v = s /\ y = LastAt /\ t = LastU
    OBVIOUS
  <2>3. Inner(v, y, t) /\ Placed(y, t) /\ y \in XBASE .. UXSTACKTOP + 3 - 16 * n
    BY <1>2, <2>1, <2>2, InnerFacts DEF Handles
  <2>4. v.eip \in {HandlerEntry, HandlerBody}
    <3>1. SUFFICES ASSUME v.esp = XBASE PROVE FALSE
      BY <1>1, <2>1, <2>2 DEF FaultFrom
    <3>2. x = XBASE - 13 - 1
      BY SMTT(40), <1>2, <2>2, <3>1, Addresses DEF exstack
    <3> QED
      BY <1>9, <3>2, Addresses
  <2>5. /\ v.esp >= XBASE /\ v.esp = y + Offset(v.eip) /\ Called(v.mem, y)
        /\ Frame(v.mem, y, t, 0)
    BY <2>3, <2>4 DEF Inner, HandlerEntry, HandlerBody
  <2>6. v.esp \in Int /\ v.esp <= y - 2 /\ v.esp = IF v.eip = HandlerBody THEN y - 2 - HWORDS ELSE y - 2
    BY <2>3, <2>4, <2>5, Offsets, Addresses DEF Placed, HandlerEntry, HandlerBody
  <2>7. y \in Int /\ y + 13 <= UXSTACKTOP /\ XBASE \in Int /\ UXSTACKTOP \in Int
    BY <2>3, Addresses DEF Placed
  <2>8. x = v.esp - 14
    <3>1. s.esp \in Int /\ XBASE <= s.esp /\ s.esp < UXSTACKTOP
      BY <2>2, <2>5, <2>6, <2>7
    <3> QED
      BY <1>2, <2>2, <3>1, Exstack
  <2>9. x \in Int /\ XBASE <= x /\ x + 16 <= y /\ x + 13 <= UXSTACKTOP
    BY <1>9, <2>6, <2>7, <2>8
  <2>10. x \in XBASE .. UXSTACKTOP + 3 - 16 * (n + 1)
    BY <1>4, <2>3, <2>7, <2>9
  <2>11. InHandler(u, y)
    BY <1>5, <2>2, <2>4, <2>5, <2>6 DEF InHandler
  <2>12. Link(p, n + 1)
    <3>1. (n + 1) - 1 = n /\ n + 1 # 1 /\ p[n].at = y
      BY <1>2, <1>4, <1>9, <2>2 DEF LastAt
    <3>2. x = u.esp - 14
      BY <1>5, <2>2, <2>8
    <3> QED
      BY <1>4, <1>5, <2>10, <2>11, <3>1, <3>2 DEF Link
  <2> QED
    <3>1. Below(x, n) /\ FirstServed(n)
      BY <1>9, <2>2, <2>5, <2>9 DEF Below, FirstServed
    <3> QED
      BY <1>7, <2>2, <2>6, <2>9, <2>12, <3>1
<1> QED
  BY <1>4, <1>6, <1>8, <1>9

-----------------------------------------------------------------------------
(* The theorems.                                                           *)

LEMMA NestInit ==
  ASSUME Init
  PROVE  NestInv
<1>1. PICK v : v = s
  OBVIOUS
<1>2. /\ v.eip = Main /\ v.esp = UWORDS - 1 /\ Regs(v)
      /\ DOMAIN v.mem = Ustack \cup Xstack
  BY <1>1 DEF Init, Regs
<1>3. saved = <<>> /\ mode = "user" /\ stackw = TRUE
  BY DEF Init
<1>4. Chain(saved) /\ Outer(saved, s.mem) /\ StackServed(s, saved)
  BY <1>3 DEF Chain, Outer, StackServed
<1>5. Types
  BY <1>1, <1>2, <1>3 DEF Types
<1>6. Program(s, saved)
  BY <1>1, <1>2, <1>3, Addresses DEF Program
<1>7. Trapped /\ TrapframeExact
  BY <1>3 DEF Trapped, TrapframeExact
<1> QED
  BY <1>4, <1>5, <1>6, <1>7 DEF NestInv

LEMMA Unmoved ==
  ASSUME NestInv, UNCHANGED vars
  PROVE  NestInv'
<1>1. /\ s' = s /\ stackw' = stackw /\ mode' = mode /\ vec' = vec /\ tf' = tf /\ saved' = saved
  BY DEF vars
<1>2. Types' /\ StackServed(s, saved)'
  BY <1>1 DEF NestInv, Types, StackServed
<1>3. Trapped' /\ TrapframeExact'
  BY <1>1 DEF NestInv, Trapped, TrapframeExact, FaultFrom
<1> QED
  BY <1>1, <1>2, <1>3 DEF NestInv

LEMMA NestNext ==
  ASSUME NestInv, StackFirst, [Next]_vars
  PROVE  NestInv'
<1>1. CASE Execute
  BY <1>1, ExecuteKeeps, RetKeeps
<1>2. CASE HandlerCall
  BY <1>2, HandlerCallKeeps
<1>3. CASE HandlerReturn
  BY <1>3, HandlerReturnKeeps
<1>4. CASE MainFork \/ \E e \in 1 .. UWORDS - 1 : MainStack(e)
  BY <1>4, MainKeeps
<1>5. CASE Enters
  BY <1>5, EntersKeeps
<1>6. CASE page_fault_handler
  BY <1>6, PageFaultKeeps
<1>7. CASE trap_dispatch
  BY <1>7, DispatchKeeps
<1>8. CASE Stopped \/ UNCHANGED vars
  <2>1. UNCHANGED vars
    BY <1>8 DEF Stopped
  <2> QED
    BY <2>1, Unmoved
<1> QED
  BY <1>1, <1>2, <1>3, <1>4, <1>5, <1>6, <1>7, <1>8 DEF Next, Enters

\* The stack pointer is in one of the stacks, also while pfentry.S moves between them.
LEMMA InStacks ==
  ASSUME NEW v, NEW x, NEW u, Handles(v, x, u)
  PROVE  v.esp \in Ustack \cup Xstack /\ v.eip \in -2 .. 17
<1>1. Inner(v, x, u) /\ Placed(x, u)
  BY DEF Handles
<1>2. v.eip \in -2 .. 17
  BY <1>1 DEF Inner, HandlerEntry, HandlerBody
<1>3. CASE v.eip \in {8, 9, 17}
  <2>1. v.esp = u.esp \/ v.esp = u.esp - 1
    BY <1>1, <1>3 DEF Inner
  <2> QED
    BY <1>1, <1>2, <2>1, Addresses DEF Placed
<1>4. CASE v.eip \notin {8, 9, 17}
  <2>1. v.esp = x + Offset(v.eip) /\ v.esp >= XBASE
    BY <1>1, <1>4 DEF Inner
  <2>2. Offset(v.eip) \in Int /\ Offset(v.eip) <= 12
    <3>1. v.eip \in {1, 2, 3, 4, 5, 6, 7, 10, 11, 12, 13, 14, 15, 16}
          \/ v.eip = HandlerEntry \/ v.eip = HandlerBody
      BY <1>1, <1>4 DEF Inner
    <3> QED
      BY <3>1, Offsets, Addresses
  <2>3. x \in Int /\ x + 13 <= UXSTACKTOP
    BY <1>1 DEF Placed
  <2> QED
    BY <1>2, <2>1, <2>2, <2>3, Addresses
<1> QED
  BY <1>3, <1>4

LEMMA NestTypes ==
  ASSUME NestInv
  PROVE  TypeOK
<1>1. /\ DOMAIN s.mem = Ustack \cup Xstack /\ DOMAIN s.gp = Gp
      /\ stackw \in BOOLEAN /\ mode \in {"user", "kernel", "panic", "destroyed"}
  <2>1. s.gp = [r \in Gp |-> s.gp[r]]
    BY DEF NestInv, Types, Regs
  <2>2. DOMAIN s.gp = Gp
    BY <2>1
  <2> QED
    BY <2>2 DEF NestInv, Types
<1>2. s.eip \in -2 .. 17 /\ s.esp \in Ustack \cup Xstack /\ 16 * Len(saved) <= XWORDS + 3
  <2>1. CASE saved = <<>>
    <3>1. s.eip = Main /\ s.esp \in 1 .. UWORDS - 1 /\ Len(saved) = 0
      BY <2>1 DEF NestInv, Program
    <3>2. s.esp \in Ustack
      BY <3>1, Addresses
    <3>3. 16 * Len(saved) <= XWORDS + 3
      BY <3>1, Addresses
    <3>4. s.eip \in -2 .. 17
      BY <3>1 DEF Main
    <3> QED
      BY <3>2, <3>3, <3>4
  <2>2. CASE saved # <<>>
    <3>1. PICK v, x, u, n : v = s /\ x = LastAt /\ u = LastU /\ n = Len(saved)
      OBVIOUS
    <3>2. Handles(v, x, u) /\ n \in Nat /\ x \in XBASE .. UXSTACKTOP + 3 - 16 * n
      BY <2>2, <3>1, InnerFacts
    <3>3. 16 * n <= XWORDS + 3
      BY <3>2, Addresses
    <3> QED
      BY <3>1, <3>2, <3>3, InStacks
  <2> QED
    BY <2>1, <2>2
<1> QED
  BY <1>1, <1>2 DEF TypeOK

LEMMA NestFrames ==
  ASSUME NestInv
  PROVE  FramesIntact
<1> SUFFICES ASSUME NEW i \in DOMAIN saved, i < Len(saved) \/ s.eip <= 9
             PROVE  /\ \A r \in Gp : s.mem[saved[i].at + 1 + Reg(r)] = saved[i].u.gp[r]
                    /\ s.mem[saved[i].at + 10] = saved[i].u.eip
                    /\ s.mem[saved[i].at + 11] = saved[i].u.eflags
                    /\ s.mem[saved[i].at + 12] = saved[i].u.esp
  BY DEF FramesIntact
<1>1. PICK q, x, u, n, v : q = saved /\ n = Len(q) /\ x = q[i].at /\ u = q[i].u /\ v = s
  OBVIOUS
<1>2. n \in Nat /\ i \in 1 .. n /\ q # <<>>
  BY <1>1 DEF NestInv, Types
<1>3. Frame(v.mem, x, u, 0)
  <2>1. CASE i < n
    BY <1>1, <1>2, <2>1 DEF NestInv, Outer
  <2>2. CASE ~(i < n)
    <3>1. i = n /\ v.eip <= 9
      BY <1>1, <1>2, <2>2
    <3>2. Inner(v, x, u)
      BY <1>1, <1>2, <3>1 DEF NestInv, Program
    <3>3. v.eip \notin 11 .. 17
      BY <3>1
    <3> QED
      BY <3>2, <3>3 DEF Inner
  <2> QED
    BY <2>1, <2>2
<1>4. u.esp \in Int
  <2>1. Link(q, i)
    BY <1>1, <1>2 DEF NestInv, Chain
  <2>2. CASE i = 1
    BY <1>1, <2>1, <2>2, Addresses DEF Link
  <2>3. CASE i > 1
    <3>1. InHandler(u, q[i-1].at) /\ i - 1 \in 1 .. n
      BY <1>1, <1>2, <2>1, <2>3 DEF Link
    <3>2. q[i-1].at \in Int
      BY <1>1, <3>1, Addresses DEF NestInv, Chain, Link
    <3> QED
      BY <3>1, <3>2, Addresses DEF InHandler
  <2> QED
    BY <1>2, <2>2, <2>3
<1> QED
  BY <1>1, <1>3, <1>4 DEF Frame

LEMMA NestAlways == ASSUME StackFirst PROVE Spec => []NestInv
<1>1. Init => NestInv
  BY NestInit
<1>2. NestInv /\ [Next]_vars => NestInv'
  BY NestNext
<1> QED
  BY <1>1, <1>2, PTL DEF Spec

\* For every size of the stacks and of the C handler's frame, in a program that writes
\* its stack before any other page: however deep faults nest, the frames of
\* page_fault_handler hold the trap-time state of their faults until pfentry.S takes them
\* apart, the stack pointer stays in the two stacks, and the depth is bounded by the words
\* of the exception stack.
THEOREM UpcallSafety == ASSUME StackFirst PROVE Spec => []UpcallInv
<1>1. NestInv => UpcallInv
  BY NestTypes, NestFrames DEF UpcallInv
<1> QED
  BY <1>1, NestAlways, PTL

\* In the same programs pfentry.S gives back every register, the flags, the stack pointer
\* and the instruction pointer of the fault it handled, at every depth; and env_pop_tf
\* gives back those of any other trap, with the result of a system call in eax.
THEOREM UpcallReturn == ASSUME StackFirst PROVE Spec => ReturnExact
<1> DEFINE Exact ==
      /\ mode = "user" /\ mode' = "user" /\ Len(saved') < Len(saved)
           => SameRegs(s', Last(saved).u)
      /\ mode = "kernel" /\ mode' = "user" /\ saved' = saved
           => /\ SameRegs(s', IF vec.n = T_SYSCALL THEN [s EXCEPT !.gp["eax"] = 0] ELSE s)
              /\ s'.mem = s.mem
<1>1. NestInv /\ [Next]_vars => [Exact]_vars
  <2> SUFFICES ASSUME NestInv, Next PROVE Exact
    OBVIOUS
  <2>1. PICK n \in Nat : n = Len(saved)
    BY DEF NestInv, Types
  <2>2. CASE saved' = saved /\ mode # "kernel"
    <3>1. ~(Len(saved') < Len(saved))
      BY <2>1, <2>2
    <3> QED
      BY <2>2, <3>1
  <2>3. CASE Execute
    <3>1. CASE s.eip = 17
      <4>1. SameRegs(s', Last(saved).u) /\ mode = "user"
        BY <2>3, <3>1, RetKeeps DEF Execute
      <4> QED
        BY <4>1
    <3>2. CASE s.eip # 17
      <4>1. saved' = saved /\ mode # "kernel"
        BY <2>3, <3>2 DEF Execute
      <4> QED
        BY <2>2, <4>1
    <3> QED
      BY <3>1, <3>2
  <2>4. CASE HandlerCall \/ HandlerReturn
    BY <2>2, <2>4 DEF HandlerCall, HandlerReturn
  <2>5. CASE MainFork \/ \E e \in 1 .. UWORDS - 1 : MainStack(e)
    BY <2>2, <2>5 DEF MainFork, MainStack
  <2>6. CASE Enters
    <3>1. mode' = "kernel"
      BY <2>6 DEF Enters, PageFault, SoftInt, Exception, Interrupt, Enter
    <3> QED
      BY SMTT(40), <3>1
  <2>7. CASE page_fault_handler
    <3>1. mode = "kernel" /\ (mode' = "user" => saved' # saved)
      BY <2>7, PageFaultKeeps DEF page_fault_handler
    <3> QED
      BY <3>1
  <2>8. CASE trap_dispatch
    <3>1. mode = "kernel" /\ (mode' = "user" => Returned)
      BY <2>8, DispatchKeeps DEF trap_dispatch
    <3> QED
      BY <3>1 DEF Returned
  <2>9. CASE Stopped
    BY <2>9 DEF Stopped, vars
  <2> QED
    BY <2>3, <2>4, <2>5, <2>6, <2>7, <2>8, <2>9 DEF Next, Enters
<1>2. Spec => [][Exact]_vars
  BY <1>1, NestAlways, PTL DEF Spec
<1> QED
  BY <1>2 DEF ReturnExact

=============================================================================
