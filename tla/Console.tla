------------------------------ MODULE Console -------------------------------
(***************************************************************************)
(* Console input, kern/console.c: cons_getc polls the serial port and the  *)
(* keyboard, whose codes cons_intr turns into characters of a ring, and    *)
(* takes one out.  Interrupts are off in the kernel and no trap handler    *)
(* reads the devices, so the only caller is cons_getc, for the monitor's   *)
(* getchar and for sys_cgetc; keys are pressed and bytes arrive at any     *)
(* moment, also between the two codes of one key.                          *)
(***************************************************************************)
EXTENDS Keyboard, Integers, FiniteSets

CONSTANTS CONSBUFSIZE,    \* size of the ring
          Keys,           \* the keys of the keyboard: [ext, code]
          SerialBytes,    \* what may come in on the serial port
          KBDFIFO,        \* codes the keyboard keeps
          None            \* a call is under way

\* No key has the code whose release would be the escape E0.
ASSUME ConsoleAssumption ==
  /\ CONSBUFSIZE \in Nat \ {0, 1}
  /\ Keys \subseteq [ext : BOOLEAN, code : (0..127) \ {E0 - 128}]
  /\ SerialBytes \subseteq Codes /\ KBDFIFO \in Nat

VARIABLES down,      \* the keys held down
          pending,   \* codes the keyboard has sent and the driver has not read
          shift,     \* the driver's flags
          buf, rpos, wpos,
          pc,        \* in cons_getc: the device being drained
          ret        \* the last result of cons_getc, None during a call

vars == <<down, pending, shift, buf, rpos, wpos, pc, ret>>

Init ==
  /\ down = {} /\ pending = <<>> /\ shift = {}
  /\ buf = [i \in 0..CONSBUFSIZE-1 |-> 0] /\ rpos = 0 /\ wpos = 0
  /\ pc = "idle" /\ ret = 0

(***************************************************************************)
(* The devices                                                             *)
(***************************************************************************)
Send(k, code) ==
  /\ pc # "reboot"
  /\ pending' = pending \o (IF k.ext THEN <<E0>> ELSE <<>>) \o <<code>>
  /\ Len(pending') <= KBDFIFO
  /\ UNCHANGED <<shift, buf, rpos, wpos, pc, ret>>

\* A key held down repeats.
Press(k)   == Send(k, k.code) /\ down' = down \cup {k}
Release(k) == k \in down /\ Send(k, k.code + 128) /\ down' = down \ {k}

(***************************************************************************)
(* cons_getc                                                               *)
(***************************************************************************)
Wrap(p) == IF p = CONSBUFSIZE THEN 0 ELSE p

\* One turn of cons_intr's loop.
Stash(c) ==
  IF c = 0 THEN UNCHANGED <<buf, wpos>>
  ELSE buf' = [buf EXCEPT ![wpos] = c] /\ wpos' = Wrap(wpos + 1)

cons_getc ==
  /\ pc = "idle"
  /\ pc' = "serial" /\ ret' = None
  /\ UNCHANGED <<down, pending, shift, buf, rpos, wpos>>

serial_proc_data(c) ==
  /\ pc = "serial"
  /\ Stash(c)
  /\ UNCHANGED <<down, pending, shift, rpos, pc, ret>>

\* The serial port has no more, or does not exist.
serial_done ==
  /\ pc = "serial"
  /\ pc' = "kbd"
  /\ UNCHANGED <<down, pending, shift, buf, rpos, wpos, ret>>

kbd_intr ==
  /\ pc = "kbd" /\ pending # <<>>
  /\ LET k == kbd_proc_data(Head(pending), shift)
     IN  /\ shift' = k.shift
         /\ IF k.reboot THEN pc' = "reboot" /\ UNCHANGED <<buf, wpos>>
            ELSE Stash(k.c) /\ UNCHANGED pc
  /\ pending' = Tail(pending)
  /\ UNCHANGED <<down, rpos, ret>>

\* The keyboard's status says that no code is there, perhaps not yet.
kbd_done ==
  /\ pc = "kbd"
  /\ pc' = "grab"
  /\ UNCHANGED <<down, pending, shift, buf, rpos, wpos, ret>>

\* Mutant: the character is read after the position has moved.
Grabbed_next == buf[Wrap(rpos + 1)]

Grabbed == buf[rpos]

grab ==
  /\ pc = "grab"
  /\ IF rpos # wpos THEN ret' = Grabbed /\ rpos' = Wrap(rpos + 1)
     ELSE ret' = 0 /\ UNCHANGED rpos
  /\ pc' = "idle"
  /\ UNCHANGED <<down, pending, shift, buf, wpos>>

Rebooting == pc = "reboot" /\ UNCHANGED vars

Next ==
  \/ \E k \in Keys : Press(k) \/ Release(k)
  \/ cons_getc \/ \E c \in SerialBytes : serial_proc_data(c)
  \/ serial_done \/ kbd_intr \/ kbd_done \/ grab
  \/ Rebooting

Spec == Init /\ [][Next]_vars

-----------------------------------------------------------------------------
(***************************************************************************)
(* Properties                                                              *)
(***************************************************************************)
\* Flags, positions inside the ring, bytes in it.
TypeOK ==
  /\ down \subseteq Keys /\ shift \subseteq Flags
  /\ rpos \in 0..CONSBUFSIZE-1 /\ wpos \in 0..CONSBUFSIZE-1
  /\ buf \in [0..CONSBUFSIZE-1 -> Codes]
  /\ pc \in {"idle", "serial", "kbd", "grab", "reboot"}

Held(f) == \E k \in down : f \in shiftcode(IF k.ext THEN k.code + 128 ELSE k.code)

\* Once the driver has read what the keyboard sent, no escape is left over and a
\* modifier it believes in is held down by one of its keys, left or right, in whatever
\* order they were pressed, repeated and released and however their codes fall into
\* different calls (the reverse fails: releasing one of two Ctrl keys ends it).
NoStuckModifier ==
  pending = <<>> =>
    /\ "E0ESC" \notin shift
    /\ \A f \in {"SHIFT", "CTL", "ALT"} \cap shift : Held(f)

\* Types, positions inside the ring, and no modifier that sticks.
ConsoleInv == TypeOK /\ NoStuckModifier

\* The ring implements a queue that keeps order and loses nothing until one character
\* more than CONSBUFSIZE - 1 arrives before a read: then it forgets all of them.
Waiting == [i \in 1..((wpos - rpos) % CONSBUFSIZE) |-> buf[(rpos + i - 1) % CONSBUFSIZE]]

IQ == INSTANCE InputQueue WITH Max <- CONSBUFSIZE - 1, Chars <- Codes \ {0}, q <- Waiting, got <- ret

InputInOrder == IQ!Spec

=============================================================================
