--------------------------- MODULE ConsoleProofs ----------------------------
(***************************************************************************)
(* Console input, for every keyboard and every size of the ring: the ring  *)
(* is a queue, and no modifier sticks.                                     *)
(***************************************************************************)
EXTENDS Console, TLAPS

\* What the table of a map holds is a byte.
LEMMA CharType ==
  ASSUME NEW s, NEW d \in Codes
  PROVE  charcode(s)[d] \in Codes
<1> USE DEF Codes
<1>1. \A x \in DOMAIN Cursor : Cursor[x] \in Codes
  BY DEF Cursor, KEY_HOME, KEY_END, KEY_UP, KEY_DN, KEY_LF, KEY_RT, KEY_PGUP, KEY_PGDN,
         KEY_INS, KEY_DEL
<1>2. \A x \in DOMAIN Extended : Extended[x] \in Codes
  BY <1>1 DEF Extended, Keypad, KEY_HOME
<1>3. normalmap[d] \in Codes
  BY <1>2 DEF normalmap, Table
<1>4. shiftmap[d] \in Codes
  BY SMTT(40), <1>2 DEF shiftmap, Table
<1>5. ctlmap[d] \in Codes
  BY <1>1 DEF ctlmap, Table, KEY_HOME
<1>6. QED
  BY SMTT(40), <1>3, <1>4, <1>5 DEF charcode

\* kbd_proc_data returns a byte and flags.
LEMMA KbdType ==
  ASSUME NEW data \in Codes, NEW s \in SUBSET Flags
  PROVE  /\ kbd_proc_data(data, s).c \in Codes
         /\ kbd_proc_data(data, s).shift \subseteq Flags
<1>1. \A d \in Codes : shiftcode(d) \subseteq Flags /\ togglecode(d) \subseteq Flags
  BY DEF shiftcode, togglecode, Flags
<1>2. CASE data = E0
  BY <1>2 DEF kbd_proc_data, Flags, Codes
<1>3. CASE data # E0 /\ data >= 128
  BY <1>3 DEF kbd_proc_data, Codes
<1>4. CASE data # E0 /\ data < 128
  <2> DEFINE d == IF "E0ESC" \in s THEN data + 128 ELSE data
             t == Toggle((s \ {"E0ESC"}) \cup shiftcode(d), togglecode(d))
             x == charcode(t)[d]
  <2>1. d \in Codes
    BY <1>4 DEF Codes
  <2>2. t \subseteq Flags
    BY <1>1, <2>1 DEF Toggle
  <2>3. x \in Codes
    BY SMTT(40), <2>1, CharType
  <2>4. ~(data >= 128)
    BY <1>4 DEF Codes
  <2>5. kbd_proc_data(data, s) = [shift |-> t, c |-> IF "CAPSLOCK" \in t THEN CapsLock(x) ELSE x,
                                  reboot |-> {"CTL", "ALT"} \subseteq t /\ x = KEY_DEL]
    BY <1>4, <2>4, Zenon DEF kbd_proc_data
  <2> HIDE DEF t, x
  <2>6. CapsLock(x) \in Codes
    BY <2>3 DEF CapsLock, Codes
  <2>7. QED
    BY <2>2, <2>3, <2>5, <2>6
<1>5. QED
  BY <1>2, <1>3, <1>4 DEF Codes
-----------------------------------------------------------------------------
(***************************************************************************)
(* The ring                                                                *)
(***************************************************************************)
\* Positions of the ring are at most one turn away.
LEMMA OneTurn ==
  ASSUME NEW M \in Nat \ {0}, NEW a \in -M..2*M-1
  PROVE  a % M = IF a < 0 THEN a + M ELSE IF a < M THEN a ELSE a - M
  OBVIOUS
N == CONSBUFSIZE
Positions == 0..N-1
Ring(b, r, w) == [k \in 1..((w - r) % N) |-> b[(r + k - 1) % N]]
Place(r, k) == IF r + k < N THEN r + k ELSE r + k - N

\* What the ring holds between two positions.
LEMMA RingIs ==
  ASSUME NEW b \in [Positions -> Codes], NEW r \in Positions, NEW w \in Positions
  PROVE  /\ Ring(b, r, w) \in Seq(Codes)
         /\ Len(Ring(b, r, w)) = IF w >= r THEN w - r ELSE w - r + N
         /\ \A k \in 1..Len(Ring(b, r, w)) : Ring(b, r, w)[k] = b[Place(r, k - 1)]
<1> DEFINE n == IF w >= r THEN w - r ELSE w - r + N
<1>1. N \in Nat \ {0, 1} /\ n \in 0..N-1
  BY ConsoleAssumption DEF N, Positions
<1>2. w - r \in -N..2*N-1
  BY <1>1 DEF Positions
<1>3. (w - r) % N = n
  <2>1. (w - r) % N = IF w - r < 0 THEN w - r + N ELSE IF w - r < N THEN w - r ELSE w - r - N
    BY <1>1, <1>2, OneTurn
  <2>2. QED
    BY <1>1, <2>1 DEF Positions
<1>4. ASSUME NEW k \in 1..n
      PROVE  (r + k - 1) % N = Place(r, k - 1) /\ Place(r, k - 1) \in Positions
  <2>1. r + k - 1 \in -N..2*N-1 /\ r + k - 1 >= 0
    BY <1>1 DEF Positions
  <2>2. PICK a \in -N..2*N-1 : a = r + k - 1
    BY <2>1
  <2>3. a % N = IF a < 0 THEN a + N ELSE IF a < N THEN a ELSE a - N
    BY <1>1, OneTurn
  <2>4. a % N = Place(r, k - 1)
    BY <1>1, <2>1, <2>2, <2>3 DEF Place, Positions
  <2>5. Place(r, k - 1) \in Positions
    BY <1>1 DEF Place, Positions
  <2>6. QED
    BY <2>2, <2>4, <2>5
<1> HIDE DEF n
<1>5. Ring(b, r, w) = [k \in 1..n |-> b[Place(r, k - 1)]]
  BY <1>3, <1>4 DEF Ring
<1>6. \A k \in 1..n : b[Place(r, k - 1)] \in Codes
  BY <1>4
<1>7. Ring(b, r, w) \in Seq(Codes) /\ Len(Ring(b, r, w)) = n
  BY <1>1, <1>5, <1>6
<1>8. QED
  BY <1>5, <1>7 DEF n

\* cons_intr: a character is added behind the others; the one that makes wpos equal to
\* rpos empties the ring.
LEMMA RingPush ==
  ASSUME NEW b \in [Positions -> Codes], NEW r \in Positions, NEW w \in Positions,
         NEW x \in Codes, NEW b2 \in [Positions -> Codes],
         b2[w] = x, \A p \in Positions : p # w => b2[p] = b[p]
  PROVE  /\ Wrap(w + 1) \in Positions
         /\ Ring(b2, r, Wrap(w + 1)) =
              IF Len(Ring(b, r, w)) = N - 1 THEN <<>> ELSE Append(Ring(b, r, w), x)
<1> DEFINE w2 == Wrap(w + 1)
           q  == Ring(b, r, w)
           q2 == Ring(b2, r, w2)
<1>1. N \in Nat \ {0, 1}
  BY ConsoleAssumption DEF N
<1>2. w2 = IF w + 1 = N THEN 0 ELSE w + 1
  BY DEF Wrap, N
<1>3. w2 \in Positions
  BY <1>1, <1>2 DEF Positions
<1>4. /\ q \in Seq(Codes) /\ Len(q) = IF w >= r THEN w - r ELSE w - r + N
      /\ \A k \in 1..Len(q) : q[k] = b[Place(r, k - 1)]
  BY RingIs
<1> HIDE DEF w2
<1>5. /\ q2 \in Seq(Codes) /\ Len(q2) = IF w2 >= r THEN w2 - r ELSE w2 - r + N
      /\ \A k \in 1..Len(q2) : q2[k] = b2[Place(r, k - 1)]
  BY <1>3, RingIs
<1> HIDE DEF q, q2
<1>6. CASE Len(q) = N - 1
  <2>1. Len(q2) = 0
    BY <1>1, <1>2, <1>4, <1>5, <1>6 DEF Positions
  <2>2. q2 = <<>>
    BY <1>5, <2>1
  <2>3. QED
    BY <1>3, <1>6, <2>2 DEF q, q2, w2
<1>7. CASE Len(q) # N - 1
  <2>1. Len(q2) = Len(q) + 1 /\ Len(q) \in Nat
    BY <1>1, <1>2, <1>4, <1>5, <1>7 DEF Positions
  <2>2. ASSUME NEW k \in 1..Len(q2) PROVE q2[k] = Append(q, x)[k]
    <3>1. CASE k = Len(q) + 1
      <4>1. Place(r, k - 1) = w
        BY <1>1, <1>4, <3>1 DEF Place, Positions
      <4>2. Append(q, x)[k] = x
        BY <1>4, <3>1
      <4>3. QED
        BY <1>5, <4>1, <4>2
    <3>2. CASE k # Len(q) + 1
      <4>1. k \in 1..Len(q)
        BY <2>1, <3>2
      <4>2. Place(r, k - 1) \in Positions /\ Place(r, k - 1) # w
        BY <1>1, <1>4, <4>1 DEF Place, Positions
      <4>3. Append(q, x)[k] = q[k]
        BY <1>4, <4>1
      <4>4. QED
        BY <1>4, <1>5, <4>1, <4>2, <4>3
    <3>3. QED
      BY <3>1, <3>2
  <2>3. q2 = Append(q, x)
    <3>1. Append(q, x) \in Seq(Codes) /\ Len(Append(q, x)) = Len(q) + 1
      BY <1>4
    <3>2. QED
      BY <1>5, <2>1, <2>2, <3>1
  <2>4. QED
    BY <1>3, <1>7, <2>3 DEF q, q2, w2
<1>8. QED
  BY <1>6, <1>7

\* cons_getc: the character at rpos is the oldest, and the others stay in order.
LEMMA RingPop ==
  ASSUME NEW b \in [Positions -> Codes], NEW r \in Positions, NEW w \in Positions
  PROVE  /\ Wrap(r + 1) \in Positions
         /\ r = w => Ring(b, r, w) = <<>>
         /\ r # w => /\ Ring(b, r, w) # <<>>
                     /\ Head(Ring(b, r, w)) = b[r]
                     /\ Ring(b, Wrap(r + 1), w) = Tail(Ring(b, r, w))
<1> DEFINE r2 == Wrap(r + 1)
           q  == Ring(b, r, w)
           q2 == Ring(b, r2, w)
<1>1. N \in Nat \ {0, 1}
  BY ConsoleAssumption DEF N
<1>2. r2 = IF r + 1 = N THEN 0 ELSE r + 1
  BY DEF Wrap, N
<1>3. r2 \in Positions
  BY <1>1, <1>2 DEF Positions
<1>4. /\ q \in Seq(Codes) /\ Len(q) = IF w >= r THEN w - r ELSE w - r + N
      /\ \A k \in 1..Len(q) : q[k] = b[Place(r, k - 1)]
  BY RingIs
<1> HIDE DEF r2
<1>5. /\ q2 \in Seq(Codes) /\ Len(q2) = IF w >= r2 THEN w - r2 ELSE w - r2 + N
      /\ \A k \in 1..Len(q2) : q2[k] = b[Place(r2, k - 1)]
  BY <1>3, RingIs
<1> HIDE DEF q, q2
<1>6. CASE r = w
  <2>1. Len(q) = 0
    BY <1>4, <1>6 DEF Positions
  <2>2. q = <<>>
    BY <1>4, <2>1
  <2>3. QED
    BY <1>3, <1>6, <2>2 DEF q, r2
<1>7. CASE r # w
  <2>1. Len(q) \in Nat \ {0} /\ Len(q2) = Len(q) - 1
    BY <1>1, <1>2, <1>4, <1>5, <1>7 DEF Positions
  <2>2. q # <<>> /\ Head(q) = q[1] /\ Tail(q) \in Seq(Codes) /\ Len(Tail(q)) = Len(q) - 1
    BY <1>4, <2>1
  <2>3. q[1] = b[r]
    <3>1. Place(r, 1 - 1) = r
      BY <1>1 DEF Place, Positions
    <3>2. QED
      BY <1>4, <2>1, <3>1
  <2>4. ASSUME NEW k \in 1..Len(q2) PROVE q2[k] = Tail(q)[k]
    <3>1. Tail(q)[k] = q[k + 1] /\ k + 1 \in 1..Len(q)
      BY <1>4, <2>1
    <3>2. Place(r2, k - 1) = Place(r, (k + 1) - 1)
      BY <1>1, <1>2, <1>5 DEF Place, Positions
    <3>3. QED
      BY <1>4, <1>5, <3>1, <3>2
  <2>5. q2 = Tail(q)
    BY <1>5, <2>1, <2>2, <2>4
  <2>6. QED
    BY <1>3, <1>7, <2>2, <2>3, <2>5 DEF q, q2, r2
<1>8. QED
  BY <1>6, <1>7
\* Types of everything, and a call that is under way has not returned.
RingInv ==
  /\ TypeOK
  /\ pending \in Seq(Codes)
  /\ pc # "idle" => ret = None

\* What one turn of cons_intr's loop does to the queue.
LEMMA StashStep ==
  ASSUME TypeOK, NEW x \in Codes, Stash(x), rpos' = rpos
  PROVE  /\ buf' \in [Positions -> Codes] /\ wpos' \in Positions
         /\ x = 0 => Waiting' = Waiting
         /\ x # 0 => Waiting' = IF Len(Waiting) = CONSBUFSIZE - 1 THEN <<>>
                                ELSE Append(Waiting, x)
<1>1. /\ buf \in [Positions -> Codes] /\ rpos \in Positions /\ wpos \in Positions
      /\ Waiting = Ring(buf, rpos, wpos) /\ Waiting' = Ring(buf', rpos', wpos')
  BY DEF TypeOK, Positions, N, Waiting, Ring
<1>2. CASE x = 0
  BY <1>1, <1>2 DEF Stash, Waiting
<1>3. CASE x # 0
  <2>1. buf' = [buf EXCEPT ![wpos] = x] /\ wpos' = Wrap(wpos + 1)
    BY <1>3 DEF Stash
  <2>2. /\ buf' \in [Positions -> Codes] /\ buf'[wpos] = x
        /\ \A p \in Positions : p # wpos => buf'[p] = buf[p]
    BY <1>1, <2>1
  <2>3. /\ Wrap(wpos + 1) \in Positions
        /\ Ring(buf', rpos, Wrap(wpos + 1)) =
             IF Len(Ring(buf, rpos, wpos)) = N - 1 THEN <<>> ELSE Append(Ring(buf, rpos, wpos), x)
    BY <1>1, <2>2, RingPush
  <2>4. QED
    BY <1>1, <1>3, <2>1, <2>2, <2>3 DEF N
<1>4. QED
  BY <1>2, <1>3

\* What the keyboard sends are bytes.
LEMMA SendType ==
  ASSUME RingInv, NEW k \in Keys, Press(k) \/ Release(k)
  PROVE  pending' \in Seq(Codes)
<1>1. k.code \in 0..127
  BY ConsoleAssumption
<1>2. k.code \in Codes /\ k.code + 128 \in Codes /\ E0 \in Codes
  BY <1>1 DEF Codes, E0
<1>3. PICK x \in Codes : pending' = pending \o (IF k.ext THEN <<E0>> ELSE <<>>) \o <<x>>
  BY <1>2 DEF Press, Release, Send
<1>4. QED
  BY <1>2, <1>3 DEF RingInv

\* RingInv holds from the start and is inductive.
LEMMA RingInvInit == Init => RingInv
  BY ConsoleAssumption DEF Init, RingInv, TypeOK, Codes

LEMMA RingInvNext == RingInv /\ [Next]_vars => RingInv'
<1> SUFFICES ASSUME RingInv, [Next]_vars PROVE RingInv'
  OBVIOUS
<1> USE DEF RingInv
<1>1. ASSUME NEW k \in Keys, Press(k) \/ Release(k) PROVE RingInv'
  <2>1. pending' \in Seq(Codes)
    BY <1>1, SendType
  <2>2. QED
    BY <1>1, <2>1 DEF Press, Release, Send, TypeOK
<1>2. CASE cons_getc
  BY <1>2 DEF cons_getc, TypeOK
<1>3. ASSUME NEW x \in SerialBytes, serial_proc_data(x) PROVE RingInv'
  <2>1. x \in Codes
    BY ConsoleAssumption
  <2>2. buf' \in [Positions -> Codes] /\ wpos' \in Positions
    BY <1>3, <2>1, StashStep DEF serial_proc_data
  <2>3. QED
    BY <1>3, <2>2 DEF serial_proc_data, TypeOK, Positions, N
<1>4. CASE serial_done
  BY <1>4 DEF serial_done, TypeOK
<1>5. CASE kbd_intr
  <2> DEFINE k == kbd_proc_data(Head(pending), shift)
  <2>1. Head(pending) \in Codes /\ Tail(pending) \in Seq(Codes)
    BY <1>5 DEF kbd_intr
  <2>2. k.c \in Codes /\ k.shift \subseteq Flags
    BY <2>1, KbdType DEF TypeOK
  <2> HIDE DEF k
  <2>3. /\ pc = "kbd" /\ shift' = k.shift /\ pending' = Tail(pending)
        /\ down' = down /\ rpos' = rpos /\ ret' = ret
        /\ \/ pc' = "reboot" /\ buf' = buf /\ wpos' = wpos
           \/ Stash(k.c) /\ pc' = pc
    BY <1>5 DEF kbd_intr, k
  <2>4. buf' \in [Positions -> Codes] /\ wpos' \in Positions
    BY <2>2, <2>3, StashStep DEF TypeOK, Positions, N
  <2>5. QED
    BY <2>1, <2>2, <2>3, <2>4 DEF TypeOK, Positions, N
<1>6. CASE kbd_done
  BY <1>6 DEF kbd_done, TypeOK
<1>7. CASE grab
  <2>1. Wrap(rpos + 1) \in Positions
    BY RingPop DEF TypeOK, Positions, N
  <2>2. QED
    BY <1>7, <2>1 DEF grab, TypeOK, Positions, N
<1>8. CASE Rebooting \/ UNCHANGED vars
  BY <1>8 DEF Rebooting, vars, TypeOK
<1>9. QED
  BY <1>1, <1>2, <1>3, <1>4, <1>5, <1>6, <1>7, <1>8 DEF Next

\* The input ring of the console is the queue it promises: characters come out once and
\* in order, and all are lost exactly when one more than CONSBUFSIZE - 1 comes in.
\* For every size of the ring, every keyboard and everything the serial port may send.
THEOREM ConsoleIsQueue == Spec => InputInOrder
<1>1. Init => IQ!Init
  <2>1. ASSUME Init PROVE Waiting = <<>> /\ ret = 0
    <3>1. buf \in [Positions -> Codes] /\ rpos \in Positions /\ wpos \in Positions /\ rpos = wpos
      BY <2>1, ConsoleAssumption DEF Init, Positions, N, Codes
    <3>2. Ring(buf, rpos, wpos) = <<>>
      BY <3>1, RingPop
    <3>3. QED
      BY <2>1, <3>2 DEF Init, Waiting, Ring, N
  <2>2. QED
    BY <2>1 DEF IQ!Init
<1>2. RingInv /\ [Next]_vars => [IQ!Next]_(IQ!vars)
  <2> SUFFICES ASSUME RingInv, [Next]_vars PROVE IQ!Next \/ UNCHANGED IQ!vars
    OBVIOUS
  <2> USE DEF RingInv
  <2>1. ASSUME NEW k \in Keys, Press(k) \/ Release(k) PROVE UNCHANGED IQ!vars
    BY <2>1 DEF Press, Release, Send, IQ!vars, Waiting
  <2>2. CASE cons_getc
    BY <2>2 DEF cons_getc, IQ!Next, IQ!Call, Waiting
  <2>3. ASSUME NEW x \in Codes, Stash(x), rpos' = rpos, ret = None, ret' = ret
        PROVE  IQ!Next \/ UNCHANGED IQ!vars
    BY <2>3, StashStep DEF IQ!Next, IQ!Arrive, IQ!vars
  <2>4. ASSUME NEW x \in SerialBytes, serial_proc_data(x) PROVE IQ!Next \/ UNCHANGED IQ!vars
    BY <2>3, <2>4, ConsoleAssumption DEF serial_proc_data
  <2>5. CASE serial_done \/ kbd_done
    BY <2>5 DEF serial_done, kbd_done, IQ!vars, Waiting
  <2>6. CASE kbd_intr
    <3> DEFINE k == kbd_proc_data(Head(pending), shift)
    <3>1. Head(pending) \in Codes
      BY <2>6 DEF kbd_intr
    <3>2. k.c \in Codes
      BY <3>1, KbdType DEF TypeOK
    <3> HIDE DEF k
    <3>3. /\ pc = "kbd" /\ rpos' = rpos /\ ret' = ret
          /\ \/ buf' = buf /\ wpos' = wpos
             \/ Stash(k.c)
      BY <2>6 DEF kbd_intr, k
    <3>4. CASE buf' = buf /\ wpos' = wpos
      BY <3>3, <3>4 DEF IQ!vars, Waiting
    <3>5. CASE Stash(k.c)
      BY <2>3, <3>2, <3>3, <3>5
    <3>6. QED
      BY <3>3, <3>4, <3>5
  <2>7. CASE grab
    <3>1. /\ buf \in [Positions -> Codes] /\ rpos \in Positions /\ wpos \in Positions
          /\ Waiting = Ring(buf, rpos, wpos) /\ Waiting' = Ring(buf, rpos', wpos)
      BY <2>7 DEF TypeOK, Positions, N, Waiting, Ring, grab
    <3>2. CASE rpos # wpos
      <4>1. ret = None /\ ret' = buf[rpos] /\ rpos' = Wrap(rpos + 1)
        BY <2>7, <3>2 DEF grab, Grabbed
      <4>2. Waiting # <<>> /\ ret' = Head(Waiting) /\ Waiting' = Tail(Waiting)
        BY <3>1, <3>2, <4>1, RingPop
      <4>3. QED
        BY <4>1, <4>2 DEF IQ!Next, IQ!Take
    <3>3. CASE rpos = wpos
      <4>1. ret = None /\ ret' = 0 /\ rpos' = rpos
        BY <2>7, <3>3 DEF grab
      <4>2. Waiting = <<>> /\ Waiting' = Waiting
        BY <3>1, <3>3, <4>1, RingPop
      <4>3. QED
        BY <4>1, <4>2 DEF IQ!Next, IQ!Empty
    <3>4. QED
      BY <3>2, <3>3
  <2>8. CASE Rebooting \/ UNCHANGED vars
    BY <2>8 DEF Rebooting, vars, IQ!vars, Waiting
  <2>9. QED
    BY <2>1, <2>2, <2>4, <2>5, <2>6, <2>7, <2>8 DEF Next
<1>3. QED
  BY <1>1, <1>2, RingInvInit, RingInvNext, PTL DEF Spec, InputInOrder, IQ!Spec
-----------------------------------------------------------------------------
(***************************************************************************)
(* The modifiers.  The driver lags behind the keyboard by the codes it has *)
(* not read: keys[j] is what was down, and escs[j] what an escape adds to  *)
(* the next code, when the j-th of them had been sent.                     *)
(***************************************************************************)
Mods == {"SHIFT", "CTL", "ALT"}
Offset(k) == IF k.ext THEN 128 ELSE 0
Escape(s) == IF "E0ESC" \in s THEN 128 ELSE 0
Holds(d, f) == \E k \in d : f \in shiftcode(k.code + Offset(k))

\* The keyboard sends a code, with keys d down and escape x before, d2 and x2 after.
Sent(d, x, code, d2, x2) ==
  \/ code = E0 /\ x2 = 128 /\ d2 = d
  \/ \E k \in Keys : /\ Offset(k) = x /\ x2 = 0
                     /\ \/ code = k.code /\ d2 = d \cup {k}
                        \/ code = k.code + 128 /\ d2 = d \ {k}

\* The codes p take a keyboard, as the driver with flags s sees it, to keys d and escape x.
Explains(p, s, d, x, keys, escs) ==
  /\ keys \in [0..Len(p) -> SUBSET Keys] /\ escs \in [0..Len(p) -> {0, 128}]
  /\ keys[Len(p)] = d /\ escs[Len(p)] = x
  /\ escs[0] = Escape(s)
  /\ \A f \in Mods \cap s : Holds(keys[0], f)
  /\ \A j \in 1..Len(p) : Sent(keys[j-1], escs[j-1], p[j], keys[j], escs[j])

Lag(p, s, d, x) == \E keys, escs : Explains(p, s, d, x, keys, escs)

\* The keyboard sends one more code.
LEMMA LagAppend ==
  ASSUME NEW p \in Seq(Codes), NEW s, NEW d, NEW x, Lag(p, s, d, x),
         NEW code \in Codes, NEW d2 \in SUBSET Keys, NEW x2 \in {0, 128},
         Sent(d, x, code, d2, x2)
  PROVE  Lag(Append(p, code), s, d2, x2)
<1>1. PICK keys, escs : Explains(p, s, d, x, keys, escs)
  BY DEF Lag
<1> DEFINE n == Len(p)
           q == Append(p, code)
           keys2 == [j \in 0..n+1 |-> IF j = n + 1 THEN d2 ELSE keys[j]]
           escs2 == [j \in 0..n+1 |-> IF j = n + 1 THEN x2 ELSE escs[j]]
<1>2. /\ n \in Nat /\ Len(q) = n + 1 /\ q[n + 1] = code
      /\ \A j \in 1..n : q[j] = p[j]
  OBVIOUS
<1> HIDE DEF n, q
<1>3. /\ keys \in [0..n -> SUBSET Keys] /\ escs \in [0..n -> {0, 128}]
      /\ keys[n] = d /\ escs[n] = x
      /\ escs[0] = Escape(s)
      /\ \A f \in Mods \cap s : Holds(keys[0], f)
      /\ \A j \in 1..n : Sent(keys[j-1], escs[j-1], p[j], keys[j], escs[j])
  BY <1>1 DEF Explains, n
<1>4. keys2 \in [0..n+1 -> SUBSET Keys] /\ escs2 \in [0..n+1 -> {0, 128}]
  BY <1>2, <1>3
<1>5. \A j \in 0..n : keys2[j] = keys[j] /\ escs2[j] = escs[j]
  BY <1>2
<1>6. keys2[n + 1] = d2 /\ escs2[n + 1] = x2
  BY <1>2
<1>7. keys2[0] = keys[0] /\ escs2[0] = escs[0] /\ keys2[n] = d /\ escs2[n] = x
  BY <1>2, <1>3, <1>5
<1> HIDE DEF keys2, escs2
<1>8. ASSUME NEW j \in 1..n+1
      PROVE  Sent(keys2[j-1], escs2[j-1], q[j], keys2[j], escs2[j])
  <2>1. CASE j = n + 1
    <3>1. j - 1 = n
      BY <1>2, <2>1
    <3>2. QED
      BY <1>2, <1>6, <1>7, <2>1, <3>1
  <2>2. CASE j # n + 1
    <3>1. j \in 1..n /\ j \in 0..n /\ j - 1 \in 0..n
      BY <1>2, <2>2
    <3>2. QED
      BY <1>2, <1>3, <1>5, <3>1
  <2>3. QED
    BY <2>1, <2>2
<1>9. Explains(q, s, d2, x2, keys2, escs2)
  BY <1>2, <1>3, <1>4, <1>6, <1>7, <1>8 DEF Explains
<1>10. QED
  BY <1>9 DEF Lag, q

\* Flags s2 are right after a code, if flags s were right before it.
Follows(s, code, s2) ==
  \A d1, d2 \in SUBSET Keys, x2 \in {0, 128} :
    Sent(d1, Escape(s), code, d2, x2) /\ (\A f \in Mods \cap s : Holds(d1, f)) =>
      x2 = Escape(s2) /\ \A f \in Mods \cap s2 : Holds(d2, f)

\* The driver reads the first code, after which its flags are s2.
LEMMA LagTail ==
  ASSUME NEW p \in Seq(Codes), p # <<>>, NEW s, NEW s2, NEW d, NEW x, Lag(p, s, d, x),
         NEW code, code = Head(p), Follows(s, code, s2)
  PROVE  Lag(Tail(p), s2, d, x)
<1>1. PICK keys, escs : Explains(p, s, d, x, keys, escs)
  BY DEF Lag
<1> DEFINE n == Len(p) - 1
           q == Tail(p)
           keys2 == [j \in 0..n |-> keys[j + 1]]
           escs2 == [j \in 0..n |-> escs[j + 1]]
<1>2. /\ n \in Nat /\ Len(p) = n + 1 /\ Len(q) = n /\ p[1] = Head(p)
      /\ \A j \in 1..n : q[j] = p[j + 1]
  OBVIOUS
<1> HIDE DEF n, q
<1>3. /\ keys \in [0..n+1 -> SUBSET Keys] /\ escs \in [0..n+1 -> {0, 128}]
      /\ keys[n+1] = d /\ escs[n+1] = x
      /\ escs[0] = Escape(s)
      /\ \A f \in Mods \cap s : Holds(keys[0], f)
      /\ \A j \in 1..n+1 : Sent(keys[j-1], escs[j-1], p[j], keys[j], escs[j])
  BY <1>1, <1>2 DEF Explains
<1>4. keys2 \in [0..n -> SUBSET Keys] /\ escs2 \in [0..n -> {0, 128}]
  BY <1>2, <1>3
<1>5. \A j \in 0..n : keys2[j] = keys[j + 1] /\ escs2[j] = escs[j + 1]
  OBVIOUS
<1>6. keys2[0] = keys[1] /\ escs2[0] = escs[1] /\ keys2[n] = d /\ escs2[n] = x
  <2>1. 0 \in 0..n /\ n \in 0..n /\ 0 + 1 = 1
    BY <1>2
  <2>2. QED
    BY <1>3, <1>5, <2>1
<1> HIDE DEF keys2, escs2
<1>7. Sent(keys[0], Escape(s), Head(p), keys[1], escs[1])
  <2>1. 1 \in 1..n+1 /\ 1 - 1 = 0
    BY <1>2
  <2>2. QED
    BY <1>2, <1>3, <2>1
<1>8. escs[1] = Escape(s2) /\ \A f \in Mods \cap s2 : Holds(keys[1], f)
  <2>1. keys[0] \in SUBSET Keys /\ keys[1] \in SUBSET Keys /\ escs[1] \in {0, 128}
    BY <1>2, <1>3
  <2>2. PICK d1 \in SUBSET Keys, d2 \in SUBSET Keys, x2 \in {0, 128} :
          d1 = keys[0] /\ d2 = keys[1] /\ x2 = escs[1]
    BY ZenonT(60), <2>1
  <2>3. Sent(d1, Escape(s), code, d2, x2) /\ \A f \in Mods \cap s : Holds(d1, f)
    BY <1>3, <1>7, <2>2
  <2>4. x2 = Escape(s2) /\ \A f \in Mods \cap s2 : Holds(d2, f)
    BY <2>3, Zenon DEF Follows
  <2>5. QED
    BY <2>2, <2>4
<1>9. ASSUME NEW j \in 1..n
      PROVE  Sent(keys2[j-1], escs2[j-1], q[j], keys2[j], escs2[j])
  <2>1. /\ j + 1 \in 1..n+1 /\ j \in 0..n /\ j - 1 \in 0..n
        /\ (j + 1) - 1 = j /\ (j - 1) + 1 = j
    BY <1>2
  <2>2. Sent(keys[j], escs[j], p[j + 1], keys[j + 1], escs[j + 1])
    BY <1>3, <2>1
  <2>3. QED
    BY <1>2, <1>5, <2>1, <2>2
<1>10. Explains(q, s2, d, x, keys2, escs2)
  BY <1>2, <1>4, <1>6, <1>8, <1>9 DEF Explains
<1>11. QED
  BY <1>10 DEF Lag, q
\* kbd_proc_data keeps up with the keyboard: a press sets the flag of its key, a release
\* clears it, and the escape of the one is used up by the other.
LEMMA KbdFollows ==
  ASSUME NEW code \in Codes, NEW s \in SUBSET Flags
  PROVE  Follows(s, code, kbd_proc_data(code, s).shift)
<1> DEFINE s2 == kbd_proc_data(code, s).shift
<1> SUFFICES ASSUME NEW d1 \in SUBSET Keys, NEW d2 \in SUBSET Keys, NEW x2 \in {0, 128},
                    Sent(d1, Escape(s), code, d2, x2),
                    \A f \in Mods \cap s : Holds(d1, f)
             PROVE  x2 = Escape(s2) /\ \A f \in Mods \cap s2 : Holds(d2, f)
  BY DEF Follows
<1>1. CASE code = E0 /\ x2 = 128 /\ d2 = d1
  <2>1. s2 = s \cup {"E0ESC"}
    BY <1>1 DEF kbd_proc_data
  <2>2. QED
    BY <1>1, <2>1 DEF Escape, Mods
<1>2. ASSUME NEW k \in Keys, Offset(k) = Escape(s), x2 = 0, code = k.code, d2 = d1 \cup {k}
      PROVE  x2 = Escape(s2) /\ \A f \in Mods \cap s2 : Holds(d2, f)
  <2> DEFINE d == IF "E0ESC" \in s THEN code + 128 ELSE code
             t == Toggle((s \ {"E0ESC"}) \cup shiftcode(d), togglecode(d))
  <2>1. k.code \in 0..127
    BY ConsoleAssumption
  <2>2. code # E0 /\ ~(code >= 128)
    BY <1>2, <2>1 DEF E0
  <2>3. s2 = t
    BY <2>2 DEF kbd_proc_data
  <2>4. d = k.code + Offset(k)
    BY <1>2, <2>1 DEF Escape
  <2> HIDE DEF s2, d
  <2>5. /\ shiftcode(d) \subseteq Mods
        /\ togglecode(d) \subseteq {"CAPSLOCK", "NUMLOCK", "SCROLLLOCK"}
    BY DEF shiftcode, togglecode, Mods
  <2>6. "E0ESC" \notin t
    BY <2>5 DEF Toggle, Mods
  <2>7. ASSUME NEW f \in Mods \cap t PROVE f \in s \/ f \in shiftcode(d)
    BY <2>5 DEF Toggle, Mods
  <2>8. ASSUME NEW f \in Mods \cap t PROVE Holds(d2, f)
    BY <1>2, <2>4, <2>7 DEF Holds
  <2>9. QED
    BY <1>2, <2>3, <2>6, <2>8 DEF Escape
<1>3. ASSUME NEW k \in Keys, Offset(k) = Escape(s), x2 = 0, code = k.code + 128,
             d2 = d1 \ {k}
      PROVE  x2 = Escape(s2) /\ \A f \in Mods \cap s2 : Holds(d2, f)
  <2>1. k.code \in 0..127 /\ k.code # 96
    BY ConsoleAssumption DEF E0
  <2>2. code # E0 /\ code >= 128 /\ code % 128 = k.code
    BY <1>3, <2>1 DEF E0
  <2>3. Released(code, s) = k.code + Offset(k)
    BY <1>3, <2>1, <2>2 DEF Released, Escape
  <2>4. s2 = s \ (shiftcode(Released(code, s)) \cup {"E0ESC"})
    BY <2>2 DEF kbd_proc_data
  <2> HIDE DEF s2
  <2>5. ASSUME NEW f \in Mods \cap s2 PROVE Holds(d2, f)
    BY <1>3, <2>3, <2>4 DEF Holds
  <2>6. QED
    BY <1>3, <2>4, <2>5 DEF Escape
<1>4. QED
  BY <1>1, <1>2, <1>3 DEF Sent

\* A key event, of one code or two, is one the lag can account for.
LEMMA LagSend ==
  ASSUME RingInv, Lag(pending, shift, down, 0), NEW k \in Keys, Press(k) \/ Release(k)
  PROVE  Lag(pending', shift', down', 0)
<1>1. k.code \in 0..127
  BY ConsoleAssumption
<1>2. k.code \in Codes /\ k.code + 128 \in Codes /\ E0 \in Codes
  BY <1>1 DEF Codes, E0
<1>3. PICK code \in Codes :
        /\ pending' = pending \o (IF k.ext THEN <<E0>> ELSE <<>>) \o <<code>>
        /\ \/ code = k.code /\ down' = down \cup {k}
           \/ code = k.code + 128 /\ down' = down \ {k}
        /\ shift' = shift
  BY <1>2 DEF Press, Release, Send
<1>4. down \in SUBSET Keys /\ down' \in SUBSET Keys /\ pending \in Seq(Codes)
  BY <1>3 DEF RingInv, TypeOK
<1>5. CASE k.ext
  <2>1. Append(pending, E0) \in Seq(Codes)
    BY <1>2, <1>4
  <2>2. pending' = Append(Append(pending, E0), code)
    BY <1>2, <1>3, <1>4, <1>5
  <2>3. Sent(down, 0, E0, down, 128)
    BY DEF Sent
  <2>4. Lag(Append(pending, E0), shift, down, 128)
    BY <1>2, <1>4, <2>3, LagAppend
  <2>5. Sent(down, 128, code, down', 0)
    BY <1>3, <1>5 DEF Sent, Offset
  <2>6. Lag(Append(Append(pending, E0), code), shift, down', 0)
    BY <1>4, <2>1, <2>4, <2>5, LagAppend
  <2>7. QED
    BY <1>3, <2>2, <2>6
<1>6. CASE ~k.ext
  <2>1. pending' = Append(pending, code)
    BY <1>3, <1>4, <1>6
  <2>2. Sent(down, 0, code, down', 0)
    BY <1>3, <1>6 DEF Sent, Offset
  <2>3. Lag(Append(pending, code), shift, down', 0)
    BY <1>4, <2>2, LagAppend
  <2>4. QED
    BY <1>3, <2>1, <2>3
<1>7. QED
  BY <1>5, <1>6

\* The invariant behind NoStuckModifier: what the driver has still to read takes it from
\* the flags it has to the keys that are down.
LagInv == RingInv /\ Lag(pending, shift, down, 0)

LEMMA LagInvInit == Init => LagInv
<1> SUFFICES ASSUME Init PROVE Lag(pending, shift, down, 0)
  BY RingInvInit DEF LagInv
<1> DEFINE keys == [j \in 0..0 |-> {}]
           escs == [j \in 0..0 |-> 0]
<1>1. Len(pending) = 0 /\ pending = <<>> /\ shift = {} /\ down = {}
  BY DEF Init
<1>2. keys \in [0..0 -> SUBSET Keys] /\ escs \in [0..0 -> {0, 128}] /\ keys[0] = {} /\ escs[0] = 0
  OBVIOUS
<1> HIDE DEF keys, escs
<1>3. Explains(pending, shift, down, 0, keys, escs)
  BY <1>1, <1>2 DEF Explains, Escape
<1>4. QED
  BY <1>3 DEF Lag

LEMMA LagInvNext == LagInv /\ [Next]_vars => LagInv'
<1> SUFFICES ASSUME LagInv, [Next]_vars PROVE Lag(pending', shift', down', 0)
  BY RingInvNext DEF LagInv
<1>1. ASSUME NEW k \in Keys, Press(k) \/ Release(k) PROVE Lag(pending', shift', down', 0)
  BY <1>1, LagSend DEF LagInv
<1>2. CASE kbd_intr
  <2>1. /\ pending # <<>> /\ pending' = Tail(pending) /\ down' = down
        /\ shift' = kbd_proc_data(Head(pending), shift).shift
    BY <1>2 DEF kbd_intr
  <2>2. pending \in Seq(Codes) /\ shift \in SUBSET Flags /\ Lag(pending, shift, down, 0)
    BY DEF LagInv, RingInv, TypeOK
  <2>3. Head(pending) \in Codes
    BY <2>1, <2>2
  <2>4. Follows(shift, Head(pending), shift')
    BY <2>1, <2>2, <2>3, KbdFollows
  <2>5. Lag(Tail(pending), shift', down, 0)
    BY <2>1, <2>2, <2>4, LagTail
  <2>6. QED
    BY <2>1, <2>5
<1>3. CASE \/ cons_getc \/ serial_done \/ kbd_done \/ grab \/ Rebooting \/ UNCHANGED vars
           \/ \E x \in SerialBytes : serial_proc_data(x)
  <2>1. pending' = pending /\ shift' = shift /\ down' = down
    BY <1>3 DEF cons_getc, serial_done, kbd_done, grab, Rebooting, vars, serial_proc_data
  <2>2. QED
    BY <2>1 DEF LagInv
<1>4. QED
  BY <1>1, <1>2, <1>3 DEF Next

\* For every keyboard whose keys have codes below 128 and other than that of the escape,
\* every depth of its buffer and every size of the ring: the positions stay inside the
\* ring, and once kbd_proc_data has read all there is no escape is left over and every
\* modifier it believes in is held down.
THEOREM ConsoleSafety == Spec => []ConsoleInv
<1>1. LagInv => ConsoleInv
  <2> SUFFICES ASSUME LagInv, pending = <<>>
               PROVE  "E0ESC" \notin shift /\ \A f \in Mods \cap shift : Held(f)
    BY DEF LagInv, RingInv, ConsoleInv, NoStuckModifier, Mods
  <2>1. PICK keys, escs : Explains(pending, shift, down, 0, keys, escs)
    BY DEF LagInv, Lag
  <2>2. Len(pending) = 0
    OBVIOUS
  <2>3. keys[0] = down /\ escs[0] = 0 /\ escs[0] = Escape(shift)
        /\ \A f \in Mods \cap shift : Holds(keys[0], f)
    BY <2>1, <2>2 DEF Explains
  <2>4. "E0ESC" \notin shift
    BY <2>3 DEF Escape
  <2>5. ASSUME NEW f \in Mods \cap shift PROVE Held(f)
    <3>1. PICK k \in down : f \in shiftcode(k.code + Offset(k))
      BY <2>3 DEF Holds
    <3>2. k.code \in 0..127 /\ k.ext \in BOOLEAN
      BY ConsoleAssumption DEF LagInv, RingInv, TypeOK
    <3>3. k.code + Offset(k) = IF k.ext THEN k.code + 128 ELSE k.code
      <4>1. CASE k.ext
        BY <3>2, <4>1 DEF Offset
      <4>2. CASE ~k.ext
        <5>1. Offset(k) = 0 /\ (IF k.ext THEN k.code + 128 ELSE k.code) = k.code
          BY <4>2, Zenon DEF Offset
        <5>2. k.code + 0 = k.code
          <6>1. \A n \in 0..127 : n + 0 = n
            OBVIOUS
          <6>2. QED
            BY <3>2, <6>1, Zenon
        <5>3. QED
          BY <5>1, <5>2, Zenon
      <4>3. QED
        BY <4>1, <4>2
    <3>4. f \in shiftcode(IF k.ext THEN k.code + 128 ELSE k.code)
      BY <3>1, <3>3, Zenon
    <3>5. QED
      BY <3>4, Zenon DEF Held
  <2>6. QED
    BY <2>4, <2>5
<1>2. QED
  BY <1>1, LagInvInit, LagInvNext, PTL DEF Spec

=============================================================================
