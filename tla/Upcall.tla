------------------------------- MODULE Upcall -------------------------------
(***************************************************************************)
(* How a program's registers survive a trap, and how a page fault is       *)
(* handled in user mode: trapentry.S builds a Trapframe on the kernel      *)
(* stack, env_pop_tf loads it back; page_fault_handler puts a UTrapframe   *)
(* on the exception stack and starts pfentry.S, which calls the C handler  *)
(* and returns to the trap-time state without the kernel.  The handler may *)
(* fault itself, and then frames nest.                                     *)
(*                                                                         *)
(* Memory is the words of the two stacks; a register, an address and an    *)
(* instruction pointer are integers.                                       *)
(***************************************************************************)
EXTENDS Integers, Sequences, SequencesExt, FiniteSets

CONSTANTS UWORDS,      \* words of the user stack, addresses 0..UWORDS-1
          XWORDS,      \* words of the exception stack (PGSIZE / 4)
          HWORDS,      \* words of stack the C handler uses
          StackFirst   \* a program writes its stack before any other page

ASSUME UpcallAssumption ==
  /\ UWORDS \in Nat /\ UWORDS > 1 /\ XWORDS \in Nat /\ XWORDS >= 13
  /\ HWORDS \in Nat /\ StackFirst \in BOOLEAN

\* The page below the exception stack is not mapped.
XBASE      == UWORDS + XWORDS
UXSTACKTOP == XBASE + XWORDS
Xstack     == XBASE .. UXSTACKTOP - 1
Ustack     == 0 .. UWORDS - 1

\* Instruction pointers: 1..17 are the instructions of pfentry.S.
Main == 0
HandlerEntry == -1
HandlerBody == -2

\* The order of struct PushRegs; oesp is not restored by popal.
PushRegs == <<"edi", "esi", "ebp", "oesp", "ebx", "edx", "ecx", "eax">>
Gp == Range(PushRegs) \ {"oesp"}
Reg(r) == CHOOSE i \in 1..8 : PushRegs[i] = r
Junk == -99
NoTrap == [n |-> -1, va |-> 0]
DataVa == -98      \* some address of a page that is not a stack

VARIABLES s,        \* the program: eip, esp, eflags, gp, and mem, its stacks
          stackw,   \* its stack page is writable (not copy-on-write)
          mode,     \* "user", "kernel", "panic" or "destroyed"
          vec,      \* the vector that entered the kernel, and the fault address
          tf,       \* the Trapframe, as words from low to high addresses
          saved     \* history: trap-time states of the faults being handled

vars == <<s, stackw, mode, vec, tf, saved>>

T_BRKPT == 3
T_DBLFLT == 8
T_GPFLT == 13
T_PGFLT == 14
T_ALIGN == 17
IRQ_TIMER == 32
IRQ_SPURIOUS == 39
T_SYSCALL == 48

(***************************************************************************)
(* Entry to the kernel                                                     *)
(***************************************************************************)
\* What the processor pushes: from the gate's error code (exceptions 8, 10 to 14
\* and 17; never for an int instruction) to the old stack segment.
HardwareFrame(err, u) == err \o <<u.eip, 3, u.eflags, u.esp, 3>>
PushesError(n) == n \in {8, 10, 11, 12, 13, 14, 17}

\* What the two kinds of stub push.
TRAPHANDLER(n) == <<n>>
TRAPHANDLER_NOEC(n) == <<n, 0>>

\* Mutant: alignment checks and page faults use the other macro.
idt_entries_noec(n) ==
  IF n \in {8, 10, 11, 12, 13} THEN TRAPHANDLER(n) ELSE TRAPHANDLER_NOEC(n)

\* The stub of vector n.
idt_entries(n) ==
  IF n \in {8, 10, 11, 12, 13, 14, 17} THEN TRAPHANDLER(n) ELSE TRAPHANDLER_NOEC(n)

\* _alltraps pushes ds, es and the registers.
alltraps(n, err, u) ==
  [i \in 1..8 |-> IF PushRegs[i] = "oesp" THEN Junk ELSE u.gp[PushRegs[i]]]
    \o <<3, 3>> \o idt_entries(n) \o HardwareFrame(err, u)

\* Positions in struct Trapframe.
tf_trapno == 11
tf_err == 12
tf_eip == 13
tf_cs == 14
tf_eflags == 15
tf_esp == 16
TfWords == 17

\* The privilege an int instruction needs for gate n.
trap_init(n) == IF n \in {T_BRKPT, T_SYSCALL} THEN 3 ELSE 0

Enter(n, va, err) ==
  /\ mode = "user"
  /\ mode' = "kernel"
  /\ vec' = [n |-> n, va |-> va]
  /\ tf' = alltraps(n, err, s)
  /\ UNCHANGED <<s, stackw, saved>>

\* The program executes int n: a gate it may not use raises T_GPFLT instead.
SoftInt(n) ==
  /\ s.eip \in {Main, HandlerBody}
  /\ IF trap_init(n) = 3 THEN Enter(n, 0, <<>>)
     ELSE Enter(T_GPFLT, 0, <<8 * n + 2>>)

\* The processor raises exception n, or a device interrupt n.
Exception(n) == Enter(n, 0, IF PushesError(n) THEN <<0>> ELSE <<>>)
Interrupt(n) == Enter(n, 0, <<>>)

(***************************************************************************)
(* The program: its own code, pfentry.S and the C handler                  *)
(***************************************************************************)
push(u, v) == [u EXCEPT !.esp = @ - 1, !.mem[u.esp - 1] = v]
pop(u)     == u.mem[u.esp]

\* subl $4, 48(%esp): the trap-time esp moves to the return address pushed there.
subl(w) == w - 1

\* Mutant: eax keeps what the pops before popal left in it.
popal_scratch(u) == [r \in Gp |-> IF r = "eax" THEN u.gp[r] ELSE u.mem[u.esp - 1 + Reg(r)]]

popal(u) == [r \in Gp |-> u.mem[u.esp - 1 + Reg(r)]]

\* The instructions of _pgfault_upcall, in order.
pfentry(u) ==
  LET n == [u EXCEPT !.eip = @ + 1]
  IN  CASE u.eip = 1  -> push(n, u.esp)                               \* pushl %esp
        [] u.eip = 2  -> [n EXCEPT !.gp["eax"] = HandlerEntry]
        [] u.eip = 3  -> [push(n, 4) EXCEPT !.eip = u.gp["eax"]]      \* call *%eax
        [] u.eip \in {4, 14} -> [n EXCEPT !.esp = @ + 1, !.eflags = Junk]
        [] u.eip = 5  -> [n EXCEPT !.gp["ebx"] = u.esp]
        [] u.eip = 6  -> [n EXCEPT !.gp["eax"] = u.mem[u.esp + 10]]   \* 40(%esp)
        [] u.eip = 7  -> [n EXCEPT !.esp = u.mem[u.esp + 12]]         \* 48(%esp)
        [] u.eip = 8  -> push(n, u.gp["eax"])
        [] u.eip = 9  -> [n EXCEPT !.esp = u.gp["ebx"]]
        [] u.eip = 10 -> [n EXCEPT !.mem[u.esp + 12] = subl(@), !.eflags = Junk]
        [] u.eip \in {11, 12} -> [n EXCEPT !.gp["eax"] = pop(u), !.esp = @ + 1]
        [] u.eip = 13 -> [n EXCEPT !.esp = @ + 8,                     \* popal
                                   !.gp = popal(u)]
        [] u.eip = 15 -> [n EXCEPT !.eflags = pop(u), !.esp = @ + 1]  \* popfl
        [] u.eip = 16 -> [n EXCEPT !.esp = pop(u)]                    \* popl %esp
        [] u.eip = 17 -> [n EXCEPT !.eip = pop(u), !.esp = @ + 1]     \* ret

\* The words the next instruction writes.
Written ==
  CASE s.eip \in {1, 3, 8} -> {s.esp - 1}
    [] s.eip = HandlerEntry -> s.esp - HWORDS .. s.esp - 1
    [] OTHER -> {}

Writable(a) == a \in Xstack \/ (a \in Ustack /\ stackw)

\* pfentry.S, one instruction at a time; ret ends the handling of a fault.
Execute ==
  /\ mode = "user" /\ s.eip \in 1..17
  /\ \A a \in Written : Writable(a)
  /\ s' = pfentry(s)
  /\ saved' = IF s.eip = 17 THEN Front(saved) ELSE saved
  /\ UNCHANGED <<stackw, mode, vec, tf>>

\* The C handler: its frame on the exception stack, its registers.
HandlerCall ==
  /\ mode = "user" /\ s.eip = HandlerEntry
  /\ \A a \in Written : Writable(a)
  /\ s' = [s EXCEPT !.eip = HandlerBody, !.esp = @ - HWORDS, !.eflags = Junk,
                    !.gp = [r \in Gp |-> 10 * Len(saved)],
                    !.mem = [a \in DOMAIN @ |-> IF a \in Written THEN Junk ELSE @[a]]]
  /\ UNCHANGED <<stackw, mode, vec, tf, saved>>

\* It makes the page of utf_fault_va writable and returns.
HandlerReturn ==
  /\ mode = "user" /\ s.eip = HandlerBody
  /\ LET ret == s.esp + HWORDS
         utf_fault_va == s.mem[s.mem[ret + 1]]
     IN  /\ s' = [s EXCEPT !.eip = s.mem[ret], !.esp = ret + 1, !.gp = [r \in Gp |-> Junk]]
         /\ stackw' = (stackw \/ utf_fault_va \in Ustack)
  /\ UNCHANGED <<mode, vec, tf, saved>>

\* The program pushes and pops words on its stack, and forks: fork makes its
\* stack copy-on-write.
MainStack(e) ==
  /\ mode = "user" /\ s.eip = Main /\ stackw
  /\ s' = [s EXCEPT !.esp = e]
  /\ UNCHANGED <<stackw, mode, vec, tf, saved>>

MainFork ==
  /\ mode = "user" /\ s.eip = Main /\ stackw
  /\ stackw' = FALSE
  /\ UNCHANGED <<s, mode, vec, tf, saved>>

\* A fault: the next word written is not writable, or the program or its handler
\* touches some other page.
Faults ==
  {a \in Written : ~Writable(a)}
    \cup (IF s.eip = Main /\ ~stackw THEN {s.esp - 1} ELSE {})
    \cup (IF s.eip = Main /\ (StackFirst => stackw) THEN {DataVa} ELSE {})
    \cup (IF s.eip = HandlerBody THEN {DataVa} ELSE {})

PageFault == \E va \in Faults : Enter(T_PGFLT, va, <<6>>)

(***************************************************************************)
(* The kernel: page_fault_handler and the return to the program            *)
(***************************************************************************)
\* env_pop_tf: popal, es, ds, skip trapno and err, iret.
env_pop_tf(f) ==
  [eip |-> f[tf_eip], esp |-> f[tf_esp], eflags |-> f[tf_eflags], mem |-> s.mem,
   gp |-> [r \in Gp |-> f[Reg(r)]]]

\* struct UTrapframe
UTrapframe(f, va) ==
  <<va, f[tf_err]>> \o SubSeq(f, 1, 8) \o <<f[tf_eip], f[tf_eflags], f[tf_esp]>>

\* Mutant: no word is left between the frames.
exstack_noscratch(esp) ==
  IF esp >= UXSTACKTOP - XWORDS /\ esp <= UXSTACKTOP - 1 THEN esp - 13 ELSE UXSTACKTOP - 13

\* Where the frame goes: below the trap-time stack pointer with a word of scratch
\* space when that is the exception stack, else at its top.
exstack(esp) ==
  IF esp >= UXSTACKTOP - XWORDS /\ esp <= UXSTACKTOP - 1
  THEN esp - 13 - 1
  ELSE UXSTACKTOP - 13

\* The frame is written before it is checked: a word outside the stack is a page
\* fault in the kernel.
page_fault_handler ==
  /\ mode = "kernel" /\ tf[tf_trapno] = T_PGFLT
  /\ LET x == exstack(tf[tf_esp])
         utf == UTrapframe(tf, vec.va)
     IN  IF x < XBASE
         THEN mode' = "panic" /\ UNCHANGED <<s, saved>>
         ELSE /\ s' = [env_pop_tf([tf EXCEPT ![tf_esp] = x, ![tf_eip] = 1]) EXCEPT
                         !.mem = [a \in DOMAIN @ |-> IF a \in x .. x + 12
                                                     THEN utf[a - x + 1] ELSE @[a]]]
              /\ saved' = Append(saved, [at |-> x, u |-> [s EXCEPT !.mem = <<>>]])
              /\ mode' = "user"
  /\ vec' = NoTrap /\ tf' = <<>>
  /\ UNCHANGED stackw

\* Breakpoint, clock and spurious interrupts return to the program, a system call
\* too with its result in eax; other traps destroy it.
trap_dispatch ==
  /\ mode = "kernel" /\ tf[tf_trapno] # T_PGFLT
  /\ CASE tf[tf_trapno] \in {T_BRKPT, IRQ_TIMER, IRQ_SPURIOUS} ->
            s' = env_pop_tf(tf) /\ mode' = "user"
       [] tf[tf_trapno] = T_SYSCALL ->
            s' = env_pop_tf([tf EXCEPT ![8] = 0]) /\ mode' = "user"
       [] OTHER -> mode' = "destroyed" /\ UNCHANGED s
  /\ vec' = NoTrap /\ tf' = <<>>
  /\ UNCHANGED <<stackw, saved>>

\* The monitor's loop, or another program.
Stopped == mode \in {"panic", "destroyed"} /\ UNCHANGED vars

Init ==
  /\ s = [eip |-> Main, esp |-> UWORDS - 1, eflags |-> 2, gp |-> [r \in Gp |-> 1000 + Reg(r)],
          mem |-> [a \in Ustack \cup Xstack |-> 0]]
  /\ stackw = TRUE
  /\ mode = "user" /\ vec = NoTrap /\ tf = <<>>
  /\ saved = <<>>

Next ==
  \/ Execute \/ HandlerCall \/ HandlerReturn
  \/ \E e \in 1 .. UWORDS - 1 : MainStack(e)
  \/ MainFork
  \/ PageFault
  \/ \E n \in 0..255 : SoftInt(n)
  \/ \E n \in 0..19 \ {2, T_PGFLT} : Exception(n)
  \/ \E n \in 32..47 : Interrupt(n)
  \/ page_fault_handler \/ trap_dispatch
  \/ Stopped

Spec == Init /\ [][Next]_vars

-----------------------------------------------------------------------------
(***************************************************************************)
(* Properties                                                              *)
(***************************************************************************)
\* The exception stack bounds the nesting: below a frame come the two words that
\* pfentry.S pushes, a word of scratch space and the 13 words of the next frame.
TypeOK ==
  /\ s.eip \in -2 .. 17 /\ s.esp \in Ustack \cup Xstack
  /\ DOMAIN s.mem = Ustack \cup Xstack /\ DOMAIN s.gp = Gp
  /\ stackw \in BOOLEAN
  /\ mode \in {"user", "kernel", "panic", "destroyed"}
  /\ 16 * Len(saved) <= XWORDS + 3

\* The words on the kernel stack are a struct Trapframe of the program that
\* trapped, for every vector and however it was raised: an error code too many or
\* too few would shift them, and the cs field decides whom the kernel blames.
TrapframeExact ==
  mode = "kernel" =>
    /\ Len(tf) = TfWords
    /\ tf[tf_trapno] = vec.n
    /\ tf[tf_eip] = s.eip /\ tf[tf_cs] = 3
    /\ tf[tf_eflags] = s.eflags /\ tf[tf_esp] = s.esp

SameRegs(u, v) == u.eip = v.eip /\ u.esp = v.esp /\ u.eflags = v.eflags /\ u.gp = v.gp

\* A frame of a fault still being handled holds the trap-time state, whatever
\* nested faults and the handlers' own pushes did meanwhile; the innermost one until
\* pfentry.S starts to take it apart.
FramesIntact ==
  \A i \in DOMAIN saved :
    (i < Len(saved) \/ s.eip <= 9) =>
      LET x == saved[i].at
          u == saved[i].u
      IN  /\ \A r \in Gp : s.mem[x + 1 + Reg(r)] = u.gp[r]
          /\ s.mem[x + 10] = u.eip /\ s.mem[x + 11] = u.eflags /\ s.mem[x + 12] = u.esp

\* Types, and frames that stay as they are under nesting.
UpcallInv == TypeOK /\ FramesIntact

\* When pfentry.S returns, every register, the stack pointer, the flags and the
\* instruction pointer are those of the fault it handled, nested or not; and a trap
\* that returns to the program changes none of its registers (a system call, eax
\* only) and nothing of its stacks.
ReturnExact ==
  [][/\ mode = "user" /\ mode' = "user" /\ Len(saved') < Len(saved)
          => SameRegs(s', Last(saved).u)
     /\ mode = "kernel" /\ mode' = "user" /\ saved' = saved
          => /\ SameRegs(s', IF vec.n = T_SYSCALL THEN [s EXCEPT !.gp["eax"] = 0] ELSE s)
             /\ s'.mem = s.mem]_vars

=============================================================================
