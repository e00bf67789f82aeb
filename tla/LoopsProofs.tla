----------------------------- MODULE LoopsProofs ------------------------------
(***************************************************************************)
(* The loops of Loops, for every size of screen, buffer, page and sector   *)
(* and every input.  Each loop has an invariant of its own about what it   *)
(* has done so far; steps of the others keep it, for they are about        *)
(* another value of fn.                                                    *)
(***************************************************************************)
EXTENDS Loops, FiniteSetTheorems, FunctionTheorems, SequenceTheorems, WellFoundedInduction, TLAPS

-----------------------------------------------------------------------------
(***************************************************************************)
(* Division by a size                                                      *)
(***************************************************************************)
\* What is left of a number and its multiple of the size.
LEMMA DivMod ==
  ASSUME NEW P \in Nat \ {0}, NEW a \in Int
  PROVE  /\ a \div P \in Int /\ a % P \in Int /\ 0 <= a % P /\ a % P < P
         /\ P * (a \div P) \in Int
         /\ a % P = a - P * (a \div P)
<1>1. a \div P \in Int /\ a % P \in Int /\ 0 <= a % P /\ a % P < P
  OBVIOUS
<1>2. P * (a \div P) \in Int
  BY <1>1
<1>3. a % P = a - P * (a \div P)
  OBVIOUS
<1> QED
  BY <1>1, <1>2, <1>3

\* A quotient is known by its bounds.
LEMMA DivUnique ==
  ASSUME NEW P \in Nat \ {0}, NEW a \in Int, NEW q \in Int, P * q <= a, a < P * q + P
  PROVE  a \div P = q
  OBVIOUS

\* Division is monotone.
LEMMA DivMono ==
  ASSUME NEW P \in Nat \ {0}, NEW a \in Int, NEW b \in Int, a <= b
  PROVE  a \div P <= b \div P
  OBVIOUS

\* Multiplication is strictly monotone.
LEMMA MulLess ==
  ASSUME NEW P \in Nat \ {0}, NEW a \in Int, NEW b \in Int, P * a < P * b
  PROVE  a < b
  OBVIOUS

\* Multiplication is monotone.
LEMMA MulMono ==
  ASSUME NEW P \in Nat \ {0}, NEW a \in Int, NEW b \in Int, a < b
  PROVE  P * a + P <= P * b
  OBVIOUS

\* A quotient grows by one when the divisor is added.
LEMMA DivNext ==
  ASSUME NEW P \in Nat \ {0}, NEW a \in Int
  PROVE  (a + P) \div P = a \div P + 1
  OBVIOUS

-----------------------------------------------------------------------------
(***************************************************************************)
(* readline and the screen                                                 *)
(***************************************************************************)
Screen(t) == t.pos \in 0 .. CRT_SIZE-1 /\ DOMAIN t.cells = 0 .. CRT_SIZE-1

\* The line b stands before the cursor.
Shows(t, b) ==
  /\ Len(b) <= t.pos
  /\ \A i \in 1 .. Len(b) : t.cells[t.pos - Len(b) + i - 1] = b[i]

\* The screen has two rows at least.
LEMMA Sizes ==
  /\ CRT_COLS \in Int /\ CRT_SIZE \in Int /\ BUFLEN \in Int /\ CRT_COLS > 0 /\ BUFLEN > 0
  /\ CRT_SIZE >= 2 * CRT_COLS /\ BUFLEN <= CRT_SIZE - CRT_COLS + 1
  BY TerminalAssumption

\* A character goes where the cursor is, and the line before it is longer by it.
LEMMA PutChar ==
  ASSUME NEW t, NEW c \in Int, NEW b \in Seq(Int), Screen(t), Shows(t, b),
         c >= SP, Len(b) < BUFLEN - 1
  PROVE  Screen(cga_putc(t, c)) /\ Shows(cga_putc(t, c), Append(b, c))
<1>1. PICK C, p, d, n : C = t.cells /\ p = t.pos /\ d = Append(b, c) /\ n = Len(b)
  OBVIOUS
<1>2. PICK D : D = [C EXCEPT ![p] = c]
  OBVIOUS
<1>3. p \in Int /\ 0 <= p /\ p < CRT_SIZE /\ DOMAIN C = 0 .. CRT_SIZE-1 /\ n \in Nat /\ n <= p /\ n < BUFLEN - 1
  BY <1>1, Sizes DEF Screen, Shows
<1>4. Len(d) = n + 1 /\ d[n + 1] = c /\ \A i \in 1 .. n : d[i] = b[i]
  BY <1>1
<1>5. \A i \in 1 .. n : C[p - n + i - 1] = b[i]
  BY <1>1 DEF Shows
<1>6. DOMAIN D = 0 .. CRT_SIZE-1 /\ \A i \in 1 .. n + 1 : D[p + 1 - (n + 1) + i - 1] = d[i]
  <2>1. DOMAIN D = 0 .. CRT_SIZE-1 /\ D[p] = c /\ \A j \in 0 .. CRT_SIZE-1 : j # p => D[j] = C[j]
    <3>1. p \in DOMAIN C
      BY <1>3, Sizes
    <3>2. DOMAIN D = DOMAIN C /\ D[p] = c /\ \A j \in DOMAIN C : j # p => D[j] = C[j]
      BY <1>2, <3>1, Zenon
    <3> QED
      BY <1>3, <3>2, Zenon
  <2>2. SUFFICES ASSUME NEW i \in 1 .. n + 1 PROVE D[p + 1 - (n + 1) + i - 1] = d[i]
    BY <2>1
  <2>3. CASE i = n + 1
    <3>1. p + 1 - (n + 1) + i - 1 = p
      BY <1>3, <2>3
    <3> QED
      BY <1>4, <2>1, <2>3, <3>1
  <2>4. CASE i \in 1 .. n
    <3>1. PICK j : j = p - n + i - 1
      OBVIOUS
    <3>2. j \in 0 .. CRT_SIZE-1 /\ j # p /\ p + 1 - (n + 1) + i - 1 = j
      BY <1>3, <2>4, <3>1, Sizes
    <3> QED
      BY <1>4, <1>5, <2>1, <2>4, <3>1, <3>2
  <2> QED
    BY <1>3, <2>3, <2>4
<1>7. PICK u : u = [cells |-> D, pos |-> p + 1]
  OBVIOUS
<1>8. cga_putc(t, c) = IF p + 1 >= CRT_SIZE THEN Scroll(u) ELSE u
  <2>1. c # BS /\ c # LF /\ c # CR /\ c # TAB
    BY DEF BS, LF, CR, TAB, SP
  <2>2. cga_putc(t, c) = PutOne(t, c)
    BY <2>1, Zenon DEF cga_putc
  <2>3. u.pos = p + 1
    BY <1>7
  <2>4. PutOne(t, c) = IF u.pos >= CRT_SIZE THEN Scroll(u) ELSE u
    BY <1>1, <1>2, <1>7, <2>1, Zenon DEF PutOne
  <2> QED
    BY <2>2, <2>3, <2>4, Zenon
<1>9. ASSUME p + 1 < CRT_SIZE PROVE Screen(u) /\ Shows(u, d)
  BY <1>3, <1>4, <1>6, <1>7, <1>9, Sizes DEF Screen, Shows
<1>10. ASSUME p + 1 >= CRT_SIZE PROVE Screen(Scroll(u)) /\ Shows(Scroll(u), d)
  <2>1. PICK w : w = Scroll(u)
    OBVIOUS
  <2>2. /\ w.pos = CRT_SIZE - CRT_COLS /\ DOMAIN w.cells = 0 .. CRT_SIZE-1
        /\ \A j \in 0 .. CRT_SIZE-1 : j < CRT_SIZE - CRT_COLS => w.cells[j] = D[j + CRT_COLS]
    BY <1>3, <1>7, <1>10, <2>1, Sizes DEF Scroll
  <2>3. Screen(w)
    BY <2>2, Sizes DEF Screen
  <2>4. Len(d) <= w.pos
    BY <1>3, <1>4, <2>2, Sizes
  <2>5. ASSUME NEW i \in 1 .. Len(d) PROVE w.cells[w.pos - Len(d) + i - 1] = d[i]
    <3>1. PICK j : j = w.pos - Len(d) + i - 1
      OBVIOUS
    <3>2. /\ j \in 0 .. CRT_SIZE-1 /\ j < CRT_SIZE - CRT_COLS /\ i \in 1 .. n + 1
          /\ j + CRT_COLS = p + 1 - (n + 1) + i - 1
      BY <1>3, <1>4, <1>10, <2>2, <2>4, <3>1, Sizes
    <3> QED
      BY <1>6, <2>2, <3>1, <3>2
  <2> QED
    BY <2>1, <2>3, <2>4, <2>5 DEF Shows
<1> QED
  BY <1>1, <1>3, <1>8, <1>9, <1>10, Sizes

\* The line without its last character.
LEMMA FrontFacts ==
  ASSUME NEW S, NEW b \in Seq(S), b # <<>>
  PROVE  /\ Front(b) \in Seq(S) /\ Len(Front(b)) = Len(b) - 1
         /\ \A i \in 1 .. Len(b) - 1 : Front(b)[i] = b[i]
<1>1. Len(b) \in Nat /\ Len(b) >= 1
  OBVIOUS
<1>2. PICK m : m = Len(b) - 1
  OBVIOUS
<1>3. 1 \in Int /\ m \in Int /\ 0 <= m /\ \A i \in 1 .. m : b[i] \in S
  BY <1>1, <1>2
<1>4. PICK c : c = SubSeq(b, 1, m)
  OBVIOUS
<1>5. /\ c \in Seq(S) /\ Len(c) = IF 1 <= m THEN m - 1 + 1 ELSE 0
      /\ \A i \in 1 .. m - 1 + 1 : c[i] = b[1 + i - 1]
  BY <1>3, <1>4, SubSeqProperties
<1>6. Len(c) = m /\ \A i \in 1 .. m : c[i] = b[i]
  BY <1>3, <1>5
<1> QED
  BY <1>2, <1>4, <1>5, <1>6 DEF Front

\* A backspace erases the last character of the line, wherever the line wrapped.
LEMMA PutBackspace ==
  ASSUME NEW t, NEW b \in Seq(Int), Screen(t), Shows(t, b), b # <<>>
  PROVE  Screen(cga_putc(t, BS)) /\ Shows(cga_putc(t, BS), Front(b))
<1>1. PICK C, p, d, n : C = t.cells /\ p = t.pos /\ d = Front(b) /\ n = Len(b)
  OBVIOUS
<1>2. PICK D : D = [C EXCEPT ![p - 1] = SP]
  OBVIOUS
<1>3. p \in Int /\ 0 <= p /\ p < CRT_SIZE /\ DOMAIN C = 0 .. CRT_SIZE-1 /\ n \in Nat \ {0} /\ n <= p
  BY <1>1, Sizes DEF Screen, Shows
<1>4. Len(d) = n - 1 /\ \A i \in 1 .. n - 1 : d[i] = b[i]
  BY <1>1, FrontFacts
<1>5. \A i \in 1 .. n : C[p - n + i - 1] = b[i]
  BY <1>1 DEF Shows
<1>6. DOMAIN D = 0 .. CRT_SIZE-1 /\ \A j \in 0 .. CRT_SIZE-1 : j # p - 1 => D[j] = C[j]
  BY <1>2, <1>3
<1>7. PICK u : u = cga_putc(t, BS)
  OBVIOUS
<1>8. u = [cells |-> D, pos |-> p - 1]
  <2>1. BS # TAB /\ BS # LF /\ BS # CR /\ p > 0 /\ ~(p - 1 >= CRT_SIZE)
    BY <1>3, Sizes DEF BS, TAB, LF, CR
  <2>2. cga_putc(t, BS) = PutOne(t, BS)
    BY <2>1, Zenon DEF cga_putc
  <2>3. PICK v : v = [cells |-> D, pos |-> p - 1]
    OBVIOUS
  <2>4. PutOne(t, BS) = IF v.pos >= CRT_SIZE THEN Scroll(v) ELSE v
    BY <1>1, <1>2, <2>1, <2>3, Zenon DEF PutOne
  <2> QED
    BY <1>7, <2>1, <2>2, <2>3, <2>4
<1>9. Screen(u) /\ Len(d) <= u.pos
  BY <1>3, <1>4, <1>6, <1>8, Sizes DEF Screen
<1>10. ASSUME NEW i \in 1 .. Len(d) PROVE u.cells[u.pos - Len(d) + i - 1] = d[i]
  <2>1. PICK j : j = u.pos - Len(d) + i - 1
    OBVIOUS
  <2>2. j \in 0 .. CRT_SIZE-1 /\ j # p - 1 /\ i \in 1 .. n /\ i \in 1 .. n - 1 /\ j = p - n + i - 1
    BY <1>3, <1>4, <1>8, <2>1, Sizes
  <2> QED
    BY <1>4, <1>5, <1>6, <1>8, <2>1, <2>2
<1> QED
  BY <1>1, <1>7, <1>9, <1>10 DEF Shows

\* Enter keeps the cursor on the screen.
LEMMA PutNewline ==
  ASSUME NEW t, Screen(t)
  PROVE  Screen(cga_putc(t, LF))
<1>1. PICK C, p, q : C = t.cells /\ p = t.pos /\ q = p + CRT_COLS - (p % CRT_COLS)
  OBVIOUS
<1>2. p \in Int /\ 0 <= p /\ p < CRT_SIZE /\ DOMAIN C = 0 .. CRT_SIZE-1
  BY <1>1, Sizes DEF Screen
<1>3. q \in Int /\ p < q /\ q <= p + CRT_COLS
  <2>1. p % CRT_COLS \in Int /\ 0 <= p % CRT_COLS /\ p % CRT_COLS < CRT_COLS
    BY <1>2, TerminalAssumption, DivMod
  <2> QED
    BY <1>1, <1>2, <2>1, Sizes
<1>4. PICK u : u = [t EXCEPT !.pos = q]
  OBVIOUS
<1>5. cga_putc(t, LF) = IF u.pos >= CRT_SIZE THEN Scroll(u) ELSE u
  <2>1. LF # TAB /\ LF # BS /\ LF # CR
    BY DEF BS, TAB, LF, CR
  <2>2. cga_putc(t, LF) = PutOne(t, LF)
    BY <2>1, Zenon DEF cga_putc
  <2>3. PutOne(t, LF) = IF u.pos >= CRT_SIZE THEN Scroll(u) ELSE u
    BY <1>1, <1>4, <2>1, Zenon DEF PutOne
  <2> QED
    BY <2>2, <2>3, Zenon
<1>6. u.pos = q /\ u.cells = C
  BY <1>1, <1>4
<1>7. CASE u.pos >= CRT_SIZE
  <2>1. PICK v : v = Scroll(u)
    OBVIOUS
  <2>2. v.pos = q - CRT_COLS /\ DOMAIN v.cells = 0 .. CRT_SIZE-1
    BY <1>6, <2>1 DEF Scroll
  <2>3. Screen(v)
    BY <1>2, <1>3, <1>6, <1>7, <2>2, Sizes DEF Screen
  <2> QED
    BY <1>5, <1>7, <2>1, <2>3
<1>8. CASE ~(u.pos >= CRT_SIZE)
  <2>1. Screen(u)
    BY <1>2, <1>3, <1>6, <1>8, Sizes DEF Screen
  <2> QED
    BY <1>5, <1>8, <2>1
<1> QED
  BY <1>7, <1>8

\* What readline has done so far.
EchoInv ==
  fn = "readline" =>
    /\ DOMAIN res = {"buf", "crt", "done"}
    /\ res.buf \in Seq(Int) /\ Len(res.buf) < BUFLEN /\ Screen(res.crt)
    /\ res.done = FALSE => Shows(res.crt, res.buf)

\* Every screen shows the empty line.
LEMMA EchoStart ==
  ASSUME readline
  PROVE  EchoInv'
<1>1. PICK pos \in 0 .. CRT_SIZE-1 : res' = [buf |-> <<>>, crt |-> cga_init(pos), done |-> FALSE]
  BY DEF readline, Called
<1>2. PICK t, b : t = cga_init(pos) /\ b = <<>>
  OBVIOUS
<1>3. res'.buf = b /\ res'.crt = t /\ DOMAIN res' = {"buf", "crt", "done"}
  BY <1>1, <1>2
<1>4. t.pos = pos /\ DOMAIN t.cells = 0 .. CRT_SIZE-1
  BY <1>2 DEF cga_init
<1>5. b \in Seq(Int) /\ Len(b) = 0
  BY <1>2
<1>6. Screen(t) /\ Shows(t, b) /\ Len(b) < BUFLEN
  BY <1>4, <1>5, Sizes DEF Screen, Shows
<1> QED
  BY <1>3, <1>5, <1>6 DEF EchoInv

\* A key keeps line and screen together.
LEMMA EchoKey ==
  ASSUME EchoInv, readline_key
  PROVE  EchoInv'
<1>1. PICK c \in Keys : res' = ReadChar(res, c)
  BY DEF readline_key
<1>2. PICK t, b, r : t = res.crt /\ b = res.buf /\ r = res'
  OBVIOUS
<1>3. /\ b \in Seq(Int) /\ Len(b) < BUFLEN /\ Screen(t) /\ Shows(t, b)
      /\ c \in Int /\ fn' = "readline" /\ DOMAIN res = {"buf", "crt", "done"}
  <2>1. c \in Int
    BY LoopsAssumption
  <2>2. fn = "readline" /\ ~res.done /\ fn' = "readline"
    BY DEF readline_key
  <2> QED
    BY <1>2, <2>1, <2>2 DEF EchoInv
<1> SUFFICES /\ DOMAIN r = {"buf", "crt", "done"}
             /\ r.buf \in Seq(Int) /\ Len(r.buf) < BUFLEN /\ Screen(r.crt)
             /\ (r.done = FALSE => Shows(r.crt, r.buf))
  BY <1>2 DEF EchoInv
<1>4. CASE c \in {BS, DEL} /\ b # <<>>
  <2>1. PICK d, u : d = Front(b) /\ u = cga_putc(t, BS)
    OBVIOUS
  <2>2. r = [buf |-> d, crt |-> u, done |-> FALSE]
    BY <1>1, <1>2, <1>4, <2>1 DEF ReadChar, Erase
  <2>3. d \in Seq(Int) /\ Len(d) < BUFLEN
    <3>1. d \in Seq(Int) /\ Len(d) = Len(b) - 1 /\ Len(b) \in Nat
      BY <1>3, <1>4, <2>1, FrontFacts
    <3> QED
      BY <1>3, <3>1, Sizes
  <2>4. Screen(u) /\ Shows(u, d)
    BY <1>3, <1>4, <2>1, PutBackspace
  <2> QED
    BY <2>2, <2>3, <2>4
<1>5. CASE ~(c \in {BS, DEL} /\ b # <<>>) /\ c >= SP /\ Len(b) < BUFLEN - 1
  <2>1. PICK d, u : d = Append(b, c) /\ u = cga_putc(t, c)
    OBVIOUS
  <2>2. r = [buf |-> d, crt |-> u, done |-> FALSE]
    BY <1>1, <1>2, <1>5, <2>1, Zenon DEF ReadChar
  <2>3. d \in Seq(Int) /\ Len(d) < BUFLEN
    BY <1>3, <1>5, <2>1, Sizes
  <2>4. Screen(u) /\ Shows(u, d)
    BY <1>3, <1>5, <2>1, PutChar
  <2> QED
    BY <2>2, <2>3, <2>4
<1>6. CASE ~(c \in {BS, DEL} /\ b # <<>>) /\ ~(c >= SP /\ Len(b) < BUFLEN - 1)
  <2>1. CASE c \in {LF, CR}
    <3>1. PICK u : u = cga_putc(t, LF)
      OBVIOUS
    <3>2. r = [res EXCEPT !.crt = u, !.done = TRUE]
      BY <1>1, <1>2, <1>6, <2>1, <3>1, Zenon DEF ReadChar
    <3>3. DOMAIN r = {"buf", "crt", "done"}
      BY <1>3, <3>2, Zenon
    <3>4. r.buf = b /\ r.crt = u
      BY <1>2, <1>3, <3>2
    <3>5. ~(r.done = FALSE)
      BY <1>3, <3>2, Zenon
    <3> QED
      BY <1>3, <3>1, <3>3, <3>4, <3>5, PutNewline
  <2>2. CASE c \notin {LF, CR}
    <3>1. r = res
      BY <1>1, <1>2, <1>6, <2>2, Zenon DEF ReadChar
    <3> QED
      BY <1>2, <1>3, <3>1
  <2> QED
    BY <2>1, <2>2
<1> QED
  BY <1>4, <1>5, <1>6

-----------------------------------------------------------------------------
(***************************************************************************)
(* user_mem_check                                                          *)
(***************************************************************************)
LEMMA PageSizes ==
  /\ PGSIZE \in Nat \ {0} /\ PGSIZE \in Int /\ PGSIZE > 0 /\ ADDRMOD \in Int /\ ADDRMOD >= 0
  /\ ULIM \in Int /\ 0 <= ULIM /\ ULIM % PGSIZE = 0 /\ ADDRMOD % PGSIZE = 0
  BY SegmentsAssumption

\* Below the last page, a number rounds up to a multiple of the page size less than a
\* page away.
LEMMA RoundsUp ==
  ASSUME NEW n \in Int, 0 <= n, n <= ADDRMOD - PGSIZE
  PROVE  \E q \in Int : RoundUp(n) = PGSIZE * q /\ n <= PGSIZE * q /\ PGSIZE * q < n + PGSIZE
<1>1. PICK m, q : m = n + PGSIZE - 1 /\ q = m \div PGSIZE
  OBVIOUS
<1>2. m \in Int /\ 0 <= m /\ m < ADDRMOD
  BY <1>1, PageSizes
<1>3. q \in Int /\ PGSIZE * q \in Int /\ m % PGSIZE = m - PGSIZE * q /\ 0 <= m % PGSIZE /\ m % PGSIZE < PGSIZE
  BY <1>1, <1>2, PageSizes, DivMod
<1>4. m % ADDRMOD = m
  BY <1>2, PageSizes
<1>5. RoundUp(n) = m - (m % PGSIZE)
  BY <1>1, <1>4 DEF RoundUp, RoundDown
<1>6. RoundUp(n) = PGSIZE * q /\ n <= PGSIZE * q /\ PGSIZE * q < n + PGSIZE
  BY <1>1, <1>2, <1>3, <1>5, PageSizes
<1> QED
  BY <1>3, <1>6

\* The page may be accessed.
Allowed(x, p) == x.pt[p] # NoTable /\ x.perm \subseteq x.pt[p]

\* A call whose range does not wrap around.
Plain(x) ==
  /\ x.va \in Int /\ 0 <= x.va /\ x.len \in Int /\ x.len > 0
  /\ x.va + x.len <= ADDRMOD - PGSIZE
  /\ x.pt \in PageTables /\ "U" \in x.perm

\* The pages before the one of address b have been looked at.
Covered(x, b) ==
  /\ b \in Int /\ x.va <= b
  /\ \A a \in x.va .. x.va + x.len - 1 : a \div PGSIZE < b \div PGSIZE => Allowed(x, a \div PGSIZE)

\* Every page with a byte of the range may be accessed.
Everything(x) == \A a \in x.va .. x.va + x.len - 1 : Allowed(x, a \div PGSIZE)

\* The end: every page of the range is before the page of the end or a later address.
LEMMA CheckEnd ==
  ASSUME NEW x, NEW b, Plain(x), Covered(x, b), b >= EndVa(x.va, x.len)
  PROVE  Everything(x)
<1>1. PICK v, n : v = x.va /\ n = x.len
  OBVIOUS
<1>2. v \in Int /\ n \in Int /\ 0 <= v /\ 0 < n /\ v + n <= ADDRMOD - PGSIZE /\ b \in Int /\ v + n \in Int
  BY <1>1 DEF Plain, Covered
<1>3. (v + n) % ADDRMOD = v + n
  BY <1>2, PageSizes
<1>4. PICK q \in Int : RoundUp(v + n) = PGSIZE * q /\ v + n <= PGSIZE * q /\ PGSIZE * q < v + n + PGSIZE
  <2>1. PICK w : w = v + n
    OBVIOUS
  <2>2. w \in Int /\ 0 <= w /\ w <= ADDRMOD - PGSIZE
    BY <1>2, <2>1
  <2> QED
    BY <2>1, <2>2, RoundsUp
<1>5. b >= PGSIZE * q /\ PGSIZE * q \in Int
  BY <1>1, <1>3, <1>4, PageSizes DEF EndVa
<1>6. ASSUME NEW a \in v .. v + n - 1 PROVE a \div PGSIZE < b \div PGSIZE
  <2>1. PICK c : c = PGSIZE * q
    OBVIOUS
  <2>2. c \in Int /\ a \in Int /\ a < c /\ c <= b
    BY <1>2, <1>4, <1>5, <1>6, <2>1
  <2>3. c \div PGSIZE = q
    BY <2>1, <2>2, PageSizes, DivUnique
  <2>4. q <= b \div PGSIZE /\ b \div PGSIZE \in Int
    BY <1>2, <2>2, <2>3, PageSizes, DivMono, DivMod
  <2>5. a \div PGSIZE \in Int /\ PGSIZE * (a \div PGSIZE) <= a
    BY <2>2, PageSizes, DivMod
  <2>6. a \div PGSIZE < q
    BY <2>1, <2>2, <2>5, PageSizes
  <2> QED
    BY <2>4, <2>5, <2>6
<1> QED
  BY <1>1, <1>6 DEF Covered, Everything

\* Before the end, the page of the address holds a byte of the range.
LEMMA CheckHere ==
  ASSUME NEW x, NEW b, Plain(x), Covered(x, b), b < EndVa(x.va, x.len)
  PROVE  /\ b + PGSIZE < ADDRMOD /\ 0 <= b \div PGSIZE /\ b \div PGSIZE < ADDRMOD \div PGSIZE
         /\ \E a \in x.va .. x.va + x.len - 1 : a \div PGSIZE = b \div PGSIZE
<1>1. PICK v, n : v = x.va /\ n = x.len
  OBVIOUS
<1>2. /\ v \in Int /\ n \in Int /\ 0 <= v /\ 0 < n /\ v + n <= ADDRMOD - PGSIZE
      /\ b \in Int /\ v <= b /\ v + n \in Int
  BY <1>1 DEF Plain, Covered
<1>3. (v + n) % ADDRMOD = v + n
  BY <1>2, PageSizes
<1>4. PICK q \in Int : RoundUp(v + n) = PGSIZE * q /\ v + n <= PGSIZE * q /\ PGSIZE * q < v + n + PGSIZE
  <2>1. PICK w : w = v + n
    OBVIOUS
  <2>2. w \in Int /\ 0 <= w /\ w <= ADDRMOD - PGSIZE
    BY <1>2, <2>1
  <2> QED
    BY <2>1, <2>2, RoundsUp
<1>5. b < PGSIZE * q /\ PGSIZE * q \in Int
  BY <1>1, <1>3, <1>4, PageSizes DEF EndVa
<1>6. PICK m \in Int : ADDRMOD = PGSIZE * m
  <2>1. ADDRMOD % PGSIZE = ADDRMOD - PGSIZE * (ADDRMOD \div PGSIZE) /\ ADDRMOD \div PGSIZE \in Int
    BY PageSizes, DivMod
  <2> QED
    BY <2>1, PageSizes
<1>7. PICK d, B : d = b \div PGSIZE /\ B = PGSIZE * d
  OBVIOUS
<1>8. d \in Int /\ B \in Int /\ B <= b /\ b < B + PGSIZE
  <2>1. b \div PGSIZE \in Int /\ PGSIZE * (b \div PGSIZE) \in Int /\ b % PGSIZE = b - PGSIZE * (b \div PGSIZE)
        /\ 0 <= b % PGSIZE /\ b % PGSIZE < PGSIZE
    BY <1>2, PageSizes, DivMod
  <2> QED
    BY <1>2, <1>7, <2>1, PageSizes
<1>9. d < q
  <2>1. PGSIZE * d < PGSIZE * q
    BY <1>2, <1>5, <1>7, <1>8
  <2> QED
    BY <1>8, <2>1, PageSizes, MulLess
<1>10. B + PGSIZE <= PGSIZE * q
  BY <1>7, <1>8, <1>9, PageSizes, MulMono
<1>11. q < m
  BY <1>2, <1>4, <1>6, PageSizes
<1>12. PGSIZE * q + PGSIZE <= ADDRMOD
  BY <1>6, <1>11, PageSizes
<1>13. b + PGSIZE < ADDRMOD
  BY <1>2, <1>5, <1>12, PageSizes
<1>14. 0 <= d
  BY <1>2, <1>7, <1>8, PageSizes
<1>15. ADDRMOD \div PGSIZE = m
  BY <1>6, PageSizes, DivUnique
<1>16. PICK a : a = IF B < v THEN v ELSE B
  OBVIOUS
<1>17. a \in Int /\ v <= a /\ a < v + n /\ B <= a /\ a < B + PGSIZE
  BY <1>2, <1>4, <1>8, <1>10, <1>16, PageSizes
<1>18. a \div PGSIZE = d
  BY <1>7, <1>8, <1>17, PageSizes, DivUnique
<1> QED
  BY <1>1, <1>2, <1>7, <1>9, <1>11, <1>13, <1>14, <1>15, <1>17, <1>18

\* What user_mem_check has done so far.
CheckInv ==
  fn = "user_mem_check" =>
    /\ arg.va \in 0 .. ADDRMOD-1 /\ arg.len \in 0 .. ADDRMOD-1
    /\ arg.pt \in PageTables /\ "U" \in arg.perm
    /\ Plain(arg) => /\ res.ret = "run" => Covered(arg, res.addr)
                     /\ res.ret # "run" => (res.ret = "ok" <=> Everything(arg))

\* No page is behind the first address.
LEMMA CheckStart ==
  ASSUME user_mem_check
  PROVE  CheckInv'
<1>1. PICK pt \in PageTables, va \in 0 .. ADDRMOD-1, len \in 0 .. ADDRMOD-1, perm \in {{"U"}, {"U", "W"}} :
        /\ arg' = [pt |-> pt, va |-> va, len |-> len, perm |-> perm \cup {"P"}]
        /\ res' = [addr |-> va, ret |-> "run"]
  BY DEF user_mem_check, Called
<1>2. PICK x, r : x = arg' /\ r = res'
  OBVIOUS
<1>3. x.pt = pt /\ x.va = va /\ x.len = len /\ x.perm = perm \cup {"P"} /\ r.addr = va /\ r.ret = "run"
  BY <1>1, <1>2
<1>4. "U" \in x.perm
  BY <1>3
<1>5. va \in Int
  OBVIOUS
<1>6. Covered(x, va)
  <2>1. ASSUME NEW a \in va .. va + len - 1 PROVE ~(a \div PGSIZE < va \div PGSIZE)
    <3>1. va <= a /\ a \in Int
      BY <1>5
    <3> QED
      BY <1>5, <3>1, PageSizes, DivMono, DivMod
  <2> QED
    BY <1>3, <1>5, <2>1 DEF Covered
<1> QED
  BY <1>2, <1>3, <1>4, <1>6 DEF CheckInv

\* A page from ULIM on is not the user's.
LEMMA KernelPage ==
  ASSUME NEW x, Plain(x), NEW b \in Int, b > ULIM, 0 <= b \div PGSIZE, b \div PGSIZE < ADDRMOD \div PGSIZE
  PROVE  ~Allowed(x, b \div PGSIZE)
<1>1. PICK d, u : d = b \div PGSIZE /\ u = ULIM \div PGSIZE
  OBVIOUS
<1>2. d \in Int /\ u \in Int /\ u <= d /\ ULIM = PGSIZE * u
  <2>1. d \in Int /\ u \in Int /\ u <= d
    BY <1>1, PageSizes, DivMod, DivMono
  <2>2. ULIM % PGSIZE = ULIM - PGSIZE * u /\ PGSIZE * u \in Int
    BY <1>1, PageSizes, DivMod
  <2> QED
    BY <2>1, <2>2, PageSizes
<1>3. d * PGSIZE >= ULIM
  BY <1>2, PageSizes
<1>4. d \in 0 .. (ADDRMOD \div PGSIZE) - 1
  <2>1. ADDRMOD \div PGSIZE \in Int
    BY PageSizes, DivMod
  <2> QED
    BY <1>1, <1>2, <2>1
<1>5. x.pt[d] = NoTable \/ "U" \notin x.pt[d]
  BY <1>3, <1>4, LoopsAssumption DEF Plain
<1> QED
  BY <1>1, <1>5 DEF Allowed, Plain

\* One more page is checked, or the loop ends with its answer.
LEMMA CheckNext ==
  ASSUME CheckInv, user_mem_check_page
  PROVE  CheckInv'
<1>1. PICK x, b, r, e : x = arg /\ b = res.addr /\ r = res' /\ e = EndVa(arg.va, arg.len)
  OBVIOUS
<1>2. r = CheckPage(x.pt, x.va, e, x.perm, b) /\ arg' = x /\ fn' = "user_mem_check"
  BY <1>1 DEF user_mem_check_page
<1>3. Plain(x) => Covered(x, b)
  BY <1>1 DEF user_mem_check_page, CheckInv
<1> SUFFICES ASSUME Plain(x)
             PROVE  /\ r.ret = "run" => Covered(x, r.addr)
                    /\ r.ret # "run" => (r.ret = "ok" <=> Everything(x))
  BY <1>1, <1>2 DEF CheckInv, user_mem_check_page
<1>4. Covered(x, b)
  BY <1>3
<1>5. CASE b >= e
  <2>1. r.ret = "ok"
    BY <1>2, <1>5 DEF CheckPage
  <2>2. Everything(x)
    BY <1>1, <1>4, <1>5, CheckEnd
  <2> QED
    BY <2>1, <2>2
<1>6. CASE ~(b >= e)
  <2>1. PICK d : d = b \div PGSIZE
    OBVIOUS
  <2>2. b \in Int /\ x.va <= b
    BY <1>4 DEF Covered
  <2>3. b < e
    <3>1. e \in Int
      <4>1. PICK v, n : v = x.va /\ n = x.len
        OBVIOUS
      <4>2. v \in Int /\ n \in Int /\ 0 <= v /\ 0 < n /\ v + n <= ADDRMOD - PGSIZE
        BY <4>1 DEF Plain
      <4>3. (v + n) % ADDRMOD = v + n /\ v + n \in Int /\ 0 <= v + n
        BY <4>2, PageSizes
      <4>4. PICK w : w = v + n
        OBVIOUS
      <4>5. PICK q \in Int : RoundUp(w) = PGSIZE * q
        BY <4>2, <4>3, <4>4, RoundsUp
      <4> QED
        BY <1>1, <4>1, <4>3, <4>4, <4>5, PageSizes DEF EndVa
    <3> QED
      BY <1>6, <2>2, <3>1
  <2>4. /\ b + PGSIZE < ADDRMOD /\ 0 <= d /\ d < ADDRMOD \div PGSIZE
        /\ \E a \in x.va .. x.va + x.len - 1 : a \div PGSIZE = d
    BY <1>1, <1>4, <2>1, <2>3, CheckHere
  <2>5. ~Allowed(x, d) => ~Everything(x)
    BY <2>4 DEF Everything
  <2>6. CASE x.pt[d] = NoTable
    <3>1. r.ret \in {"fault", "null"}
      BY <1>2, <1>6, <2>1, <2>6, Zenon DEF CheckPage
    <3> QED
      BY <2>5, <2>6, <3>1 DEF Allowed
  <2>7. CASE x.pt[d] # NoTable /\ (b > ULIM \/ ~(x.perm \subseteq x.pt[d]))
    <3>1. r.ret = "fault"
      BY <1>2, <1>6, <2>1, <2>7, Zenon DEF CheckPage
    <3>2. ~Allowed(x, d)
      BY <2>1, <2>2, <2>4, <2>7, KernelPage DEF Allowed
    <3> QED
      BY <2>5, <3>1, <3>2
  <2>8. CASE x.pt[d] # NoTable /\ ~(b > ULIM \/ ~(x.perm \subseteq x.pt[d]))
    <3>1. r = [addr |-> (b + PGSIZE) % ADDRMOD, ret |-> "run"]
      BY <1>2, <1>6, <2>1, <2>8, Zenon DEF CheckPage
    <3>2. PICK c : c = b + PGSIZE
      OBVIOUS
    <3>3. c \in Int /\ x.va <= c /\ 0 <= c /\ c < ADDRMOD
      BY <2>2, <2>4, <3>2, PageSizes DEF Plain
    <3>4. c % ADDRMOD = c
      BY <3>3, PageSizes
    <3>5. c \div PGSIZE = d + 1 /\ d \in Int
      BY <2>1, <2>2, <3>2, PageSizes, DivNext, DivMod
    <3>6. Allowed(x, d)
      BY <2>8 DEF Allowed
    <3>7. ASSUME NEW a \in x.va .. x.va + x.len - 1, a \div PGSIZE < c \div PGSIZE
          PROVE  Allowed(x, a \div PGSIZE)
      <4>1. x.va \in Int /\ x.len \in Int
        BY DEF Plain
      <4>2. PICK k : k = a \div PGSIZE
        OBVIOUS
      <4>3. k \in Int
        BY <4>1, <4>2, PageSizes, DivMod
      <4>4. k = d \/ k < d
        BY <3>5, <3>7, <4>2, <4>3
      <4> QED
        BY <1>4, <2>1, <3>6, <4>2, <4>4 DEF Covered
    <3>8. Covered(x, c)
      BY <3>3, <3>7 DEF Covered
    <3> QED
      BY <3>1, <3>2, <3>4, <3>8
  <2> QED
    BY <2>6, <2>7, <2>8
<1> QED
  BY <1>5, <1>6

-----------------------------------------------------------------------------
(***************************************************************************)
(* runcmd                                                                  *)
(***************************************************************************)
\* Where words begin before position k of line l.
Starts(l, k) ==
  {j \in 1 .. Len(l) : j < k /\ l[j] \notin WHITESPACE /\ (j > 1 => l[j - 1] \in WHITESPACE)}

\* The part of the line before k is parsed: v has its words, b has zeros for its spaces.
Parsed(l, k, b, v) ==
  /\ k \in 1 .. Len(l) + 1
  /\ v \in Seq(Int) /\ Range(v) = Starts(l, k)
  /\ \A i \in 1 .. Len(v) - 1 : v[i] < v[i + 1]
  /\ Len(v) = Cardinality(Starts(l, k)) /\ Len(v) <= MAXARGS - 1
  /\ DOMAIN b = 1 .. Len(l) + 1 /\ b[Len(l) + 1] = 0
  /\ \A j \in 1 .. Len(l) : b[j] = IF j < k /\ l[j] \in WHITESPACE THEN 0 ELSE l[j]

\* More words than argv has room for.
TooMany(l) == Cardinality(Starts(l, Len(l) + 1)) > MAXARGS - 1

\* Position k is in a word whose beginning has been seen.
InWord(l, k) == k > 1 /\ l[k - 1] \notin WHITESPACE

\* A line has finitely many words.
LEMMA StartsFinite ==
  ASSUME NEW T, NEW l \in Seq(T), NEW k
  PROVE  IsFiniteSet(Starts(l, k)) /\ Cardinality(Starts(l, k)) \in Nat
<1>1. Len(l) \in Int /\ 1 \in Int
  OBVIOUS
<1>2. IsFiniteSet(1 .. Len(l))
  BY <1>1, FS_Interval
<1>3. Starts(l, k) \subseteq 1 .. Len(l)
  BY DEF Starts
<1> QED
  BY <1>2, <1>3, FS_Subset, FS_CardinalityType

\* A character that begins no word.
LEMMA NoStart ==
  ASSUME NEW T, NEW l \in Seq(T), NEW k \in 1 .. Len(l), l[k] \in WHITESPACE \/ InWord(l, k)
  PROVE  Starts(l, k + 1) = Starts(l, k)
<1>1. k \notin Starts(l, k + 1)
  BY DEF Starts, InWord
<1>2. \A j \in 1 .. Len(l) : j < k + 1 <=> j < k \/ j = k
  OBVIOUS
<1> QED
  BY <1>1, <1>2 DEF Starts

\* What one more character adds to the starts of words.
LEMMA NewStart ==
  ASSUME NEW T, NEW l \in Seq(T), NEW k \in 1 .. Len(l), l[k] \notin WHITESPACE, ~InWord(l, k)
  PROVE  /\ Starts(l, k + 1) = Starts(l, k) \cup {k} /\ k \notin Starts(l, k)
         /\ Cardinality(Starts(l, k + 1)) = Cardinality(Starts(l, k)) + 1
<1>1. k > 1 => l[k - 1] \in WHITESPACE
  BY DEF InWord
<1>2. \A j \in 1 .. Len(l) : j < k + 1 <=> j < k \/ j = k
  OBVIOUS
<1>3. Starts(l, k + 1) = Starts(l, k) \cup {k}
  BY <1>1, <1>2 DEF Starts
<1>4. k \notin Starts(l, k)
  BY DEF Starts
<1> QED
  BY <1>3, <1>4, StartsFinite, FS_AddElement

\* One more character that begins no word: zero it if it is a space.
LEMMA ParsedSame ==
  ASSUME NEW T, NEW l \in Seq(T), NEW k, NEW b, NEW v, NEW d, Parsed(l, k, b, v), k <= Len(l),
         \/ l[k] \in WHITESPACE /\ d = [b EXCEPT ![k] = 0]
         \/ l[k] \notin WHITESPACE /\ InWord(l, k) /\ d = b
  PROVE  Parsed(l, k + 1, d, v)
<1>1. k \in 1 .. Len(l) /\ k + 1 \in 1 .. Len(l) + 1
  BY DEF Parsed
<1>2. Starts(l, k + 1) = Starts(l, k)
  BY <1>1, NoStart
<1>3. DOMAIN d = 1 .. Len(l) + 1 /\ d[Len(l) + 1] = 0
      /\ \A j \in 1 .. Len(l) : d[j] = IF j < k + 1 /\ l[j] \in WHITESPACE THEN 0 ELSE l[j]
  <2>1. DOMAIN b = 1 .. Len(l) + 1 /\ b[Len(l) + 1] = 0
        /\ \A j \in 1 .. Len(l) : b[j] = IF j < k /\ l[j] \in WHITESPACE THEN 0 ELSE l[j]
    BY DEF Parsed
  <2>2. CASE l[k] \in WHITESPACE /\ d = [b EXCEPT ![k] = 0]
    <3>1. DOMAIN d = DOMAIN b /\ d[k] = 0 /\ \A j \in DOMAIN b : j # k => d[j] = b[j]
      <4>1. k \in DOMAIN b
        BY <1>1, <2>1
      <4> QED
        BY <2>2, <4>1
    <3>2. DOMAIN d = 1 .. Len(l) + 1 /\ d[Len(l) + 1] = 0
      BY <1>1, <2>1, <3>1
    <3>3. ASSUME NEW j \in 1 .. Len(l)
          PROVE  d[j] = IF j < k + 1 /\ l[j] \in WHITESPACE THEN 0 ELSE l[j]
      <4>1. j \in DOMAIN b /\ (j < k + 1 <=> j < k \/ j = k)
        BY <1>1, <2>1
      <4>2. CASE j = k
        BY <2>2, <3>1, <4>1, <4>2
      <4>3. CASE j # k
        <5>1. d[j] = b[j]
          BY <3>1, <4>1, <4>3
        <5> QED
          BY <2>1, <4>1, <4>3, <5>1
      <4> QED
        BY <4>2, <4>3
    <3> QED
      BY <3>2, <3>3
  <2>3. CASE l[k] \notin WHITESPACE /\ d = b
    <3>1. ASSUME NEW j \in 1 .. Len(l)
          PROVE  d[j] = IF j < k + 1 /\ l[j] \in WHITESPACE THEN 0 ELSE l[j]
      <4>1. j < k + 1 <=> j < k \/ j = k
        BY <1>1
      <4> QED
        BY <2>1, <2>3, <4>1
    <3> QED
      BY <2>1, <2>3, <3>1
  <2> QED
    BY <2>2, <2>3
<1>4. v \in Seq(Int) /\ Range(v) = Starts(l, k) /\ (\A i \in 1 .. Len(v) - 1 : v[i] < v[i + 1])
      /\ Len(v) = Cardinality(Starts(l, k)) /\ Len(v) <= MAXARGS - 1
  BY DEF Parsed
<1> QED
  BY <1>1, <1>2, <1>3, <1>4 DEF Parsed

\* The beginning of a word, when argv has room.
LEMMA ParsedWord ==
  ASSUME NEW T, NEW l \in Seq(T), NEW k, NEW b, NEW v, NEW d, Parsed(l, k, b, v), k <= Len(l),
         l[k] \notin WHITESPACE, ~InWord(l, k), Len(v) # MAXARGS - 1, d = Append(v, k)
  PROVE  Parsed(l, k + 1, b, d)
<1>1. k \in 1 .. Len(l) /\ k + 1 \in 1 .. Len(l) + 1
  BY DEF Parsed
<1>2. /\ v \in Seq(Int) /\ Range(v) = Starts(l, k) /\ \A i \in 1 .. Len(v) - 1 : v[i] < v[i + 1]
      /\ Len(v) = Cardinality(Starts(l, k)) /\ Len(v) <= MAXARGS - 1
  BY DEF Parsed
<1>3. /\ Starts(l, k + 1) = Starts(l, k) \cup {k}
      /\ Cardinality(Starts(l, k + 1)) = Cardinality(Starts(l, k)) + 1
  BY <1>1, NewStart
<1>4. PICK n : n = Len(v)
  OBVIOUS
<1>5. n \in Nat /\ d \in Seq(Int) /\ Len(d) = n + 1 /\ d[n + 1] = k /\ \A i \in 1 .. n : d[i] = v[i]
  BY <1>1, <1>2, <1>4
<1>6. Len(d) = Cardinality(Starts(l, k + 1)) /\ Len(d) <= MAXARGS - 1
  BY <1>2, <1>3, <1>4, <1>5, TerminalAssumption
<1>7. Range(d) = Starts(l, k + 1)
  <2>1. DOMAIN d = 1 .. n + 1 /\ DOMAIN v = 1 .. n
    BY <1>2, <1>4, <1>5
  <2>2. Range(d) = Range(v) \cup {k}
    <3>1. \A x \in Range(d) : x \in Range(v) \cup {k}
      BY <1>5, <2>1 DEF Range
    <3>2. \A x \in Range(v) : x \in Range(d)
      BY <1>5, <2>1 DEF Range
    <3>3. k \in Range(d)
      BY <1>5, <2>1 DEF Range
    <3> QED
      BY <3>1, <3>2, <3>3
  <2> QED
    BY <1>2, <1>3, <2>2
<1>8. ASSUME NEW i \in 1 .. Len(d) - 1 PROVE d[i] < d[i + 1]
  <2>1. CASE i = n
    <3>1. n \in DOMAIN v
      BY <1>2, <1>4, <1>5, <2>1
    <3>2. v[n] \in Starts(l, k)
      BY <1>2, <3>1 DEF Range
    <3>3. v[n] < k
      BY <3>2 DEF Starts
    <3> QED
      BY <1>5, <2>1, <3>3
  <2>2. CASE i \in 1 .. n - 1
    <3>1. i + 1 \in 1 .. n /\ i \in 1 .. n
      BY <1>5, <2>2
    <3> QED
      BY <1>2, <1>4, <1>5, <2>2, <3>1
  <2> QED
    BY <1>5, <2>1, <2>2
<1>9. ASSUME NEW j \in 1 .. Len(l)
      PROVE  b[j] = IF j < k + 1 /\ l[j] \in WHITESPACE THEN 0 ELSE l[j]
  <2>1. b[j] = IF j < k /\ l[j] \in WHITESPACE THEN 0 ELSE l[j]
    BY DEF Parsed
  <2>2. j < k + 1 <=> j < k \/ j = k
    BY <1>1
  <2> QED
    BY <2>1, <2>2
<1>10. DOMAIN b = 1 .. Len(l) + 1 /\ b[Len(l) + 1] = 0
  BY DEF Parsed
<1> QED
  BY <1>1, <1>5, <1>6, <1>7, <1>8, <1>9, <1>10 DEF Parsed

\* The beginning of a word, when argv is full.
LEMMA ParsedFull ==
  ASSUME NEW T, NEW l \in Seq(T), NEW k, NEW b, NEW v, Parsed(l, k, b, v), k <= Len(l),
         l[k] \notin WHITESPACE, ~InWord(l, k), Len(v) = MAXARGS - 1
  PROVE  TooMany(l)
<1>1. k \in 1 .. Len(l)
  BY DEF Parsed
<1>2. Cardinality(Starts(l, k)) = MAXARGS - 1
  BY DEF Parsed
<1>3. Cardinality(Starts(l, k + 1)) = Cardinality(Starts(l, k)) + 1
  BY <1>1, NewStart
<1>4. Starts(l, k + 1) \subseteq Starts(l, Len(l) + 1)
  BY <1>1 DEF Starts
<1>5. Cardinality(Starts(l, k + 1)) <= Cardinality(Starts(l, Len(l) + 1))
  BY <1>4, StartsFinite, FS_Subset
<1>6. Cardinality(Starts(l, Len(l) + 1)) \in Nat
  BY StartsFinite
<1> QED
  BY <1>2, <1>3, <1>5, <1>6, TerminalAssumption DEF TooMany

\* A set of naturals that is not empty has a least element.
LEMMA LeastNatural ==
  ASSUME NEW D, D \subseteq Nat, D # {}
  PROVE  \E d \in D : \A x \in D : d <= x
<1> DEFINE Less == {ss \in Nat \X Nat : ss[1] < ss[2]}
<1>1. IsWellFoundedOn(Less, Nat)
  BY NatLessThanWellFounded, Zenon DEF OpToRel
<1> HIDE DEF Less
<1>2. PICK d \in D : \A x \in D : ~(<<x, d>> \in Less)
  BY <1>1, WFMin
<1>3. ASSUME NEW x \in D PROVE d <= x
  <2>1. <<x, d>> \in Nat \X Nat /\ ~(x < d)
    BY <1>2 DEF Less
  <2> QED
    BY <2>1
<1> QED
  BY <1>3

\* Words(l), without the pairs.
Word(l, a, e) ==
  /\ a \in 1 .. Len(l) /\ e \in 1 .. Len(l) /\ a <= e /\ \A i \in a .. e : l[i] \notin WHITESPACE
  /\ a > 1 => l[a - 1] \in WHITESPACE
  /\ e < Len(l) => l[e + 1] \in WHITESPACE

\* Words and their starts correspond.
LEMMA WordsAre ==
  ASSUME NEW l
  PROVE  /\ \A w \in Words(l) : w = <<w[1], w[2]>> /\ Word(l, w[1], w[2])
         /\ \A a, e : Word(l, a, e) => <<a, e>> \in Words(l)
<1>1. ASSUME NEW w \in Words(l) PROVE w = <<w[1], w[2]>> /\ Word(l, w[1], w[2])
  BY DEF Words, Word
<1>2. ASSUME NEW a, NEW e, Word(l, a, e) PROVE <<a, e>> \in Words(l)
  BY <1>2 DEF Words, Word
<1> QED
  BY <1>1, <1>2

\* A word begins where Starts says, and what begins has one end.
LEMMA WordEnds ==
  ASSUME NEW T, NEW l \in Seq(T), NEW a \in Starts(l, Len(l) + 1)
  PROVE  \E e : Word(l, a, e)
<1>1. a \in 1 .. Len(l) /\ l[a] \notin WHITESPACE /\ (a > 1 => l[a - 1] \in WHITESPACE) /\ Len(l) \in Nat
  BY DEF Starts
<1>2. PICK D : D = {k \in a .. Len(l) + 1 : k = Len(l) + 1 \/ l[k] \in WHITESPACE}
  OBVIOUS
<1>3. D \subseteq Nat /\ Len(l) + 1 \in D
  BY <1>1, <1>2
<1>4. PICK d \in D : \A x \in D : d <= x
  BY <1>3, LeastNatural
<1>5. d \in a .. Len(l) + 1 /\ (d = Len(l) + 1 \/ l[d] \in WHITESPACE) /\ d # a
  BY <1>1, <1>2, <1>4
<1>6. PICK e : e = d - 1
  OBVIOUS
<1>7. e \in 1 .. Len(l) /\ a <= e /\ e + 1 = d
  BY <1>1, <1>5, <1>6
<1>8. ASSUME NEW i \in a .. e PROVE l[i] \notin WHITESPACE
  <2>1. i \in a .. Len(l) + 1 /\ ~(d <= i) /\ i # Len(l) + 1
    BY <1>1, <1>7
  <2> QED
    BY <1>2, <1>4, <2>1
<1>9. e < Len(l) => l[e + 1] \in WHITESPACE
  BY <1>1, <1>5, <1>7
<1> QED
  BY <1>1, <1>7, <1>8, <1>9 DEF Word

\* A word is known by its start.
LEMMA WordUnique ==
  ASSUME NEW T, NEW l \in Seq(T), NEW a, NEW e, NEW f, Word(l, a, e), Word(l, a, f)
  PROVE  e = f
<1>1. /\ a \in Int /\ e \in Int /\ f \in Int /\ a <= e /\ a <= f /\ e <= Len(l) /\ f <= Len(l)
      /\ Len(l) \in Int
  BY DEF Word
<1>2. ASSUME e < f PROVE FALSE
  <2>1. e + 1 \in a .. f /\ e < Len(l)
    BY <1>1, <1>2
  <2> QED
    BY <2>1 DEF Word
<1>3. ASSUME f < e PROVE FALSE
  <2>1. f + 1 \in a .. e /\ f < Len(l)
    BY <1>1, <1>3
  <2> QED
    BY <2>1 DEF Word
<1> QED
  BY <1>1, <1>2, <1>3

\* A line has as many words as starts.
LEMMA WordStarts ==
  ASSUME NEW T, NEW l \in Seq(T), NEW a, NEW e, Word(l, a, e)
  PROVE  a \in Starts(l, Len(l) + 1)
<1>1. a \in 1 .. Len(l) /\ a \in a .. e /\ a < Len(l) + 1
  BY DEF Word
<1> QED
  BY <1>1 DEF Word, Starts

\* So the line has as many words as beginnings.
LEMMA WordCount ==
  ASSUME NEW T, NEW l \in Seq(T)
  PROVE  /\ {w[1] : w \in Words(l)} = Starts(l, Len(l) + 1)
         /\ Cardinality(Words(l)) = Cardinality(Starts(l, Len(l) + 1))
<1>1. PICK W, S : W = Words(l) /\ S = Starts(l, Len(l) + 1)
  OBVIOUS
<1>2. \A w \in W : w = <<w[1], w[2]>> /\ Word(l, w[1], w[2]) /\ w[1] \in S
  BY <1>1, WordsAre, WordStarts
<1>3. \A a \in S : \E e : <<a, e>> \in W
  BY <1>1, WordsAre, WordEnds
<1>4. PICK g : g = [w \in W |-> w[1]]
  OBVIOUS
<1>5. g \in [W -> S]
  BY <1>2, <1>4
<1>6. ASSUME NEW x \in W, NEW y \in W, g[x] = g[y] PROVE x = y
  <2>1. x[1] = y[1]
    BY <1>4, <1>6
  <2>2. x[2] = y[2]
    BY <1>2, <2>1, WordUnique
  <2> QED
    BY <1>2, <2>1, <2>2
<1>7. ASSUME NEW a \in S PROVE \E w \in W : g[w] = a
  BY <1>3, <1>4
<1>8. g \in Injection(W, S) /\ g \in Surjection(W, S)
  BY <1>5, <1>6, <1>7, Fun_IsInj, Fun_IsSurj
<1>9. IsFiniteSet(S)
  BY <1>1, StartsFinite
<1>10. Cardinality(W) = Cardinality(S)
  BY <1>8, <1>9, FS_Injection
<1>11. {w[1] : w \in W} = S
  BY <1>2, <1>3
<1> QED
  BY <1>1, <1>10, <1>11

\* The fields of runcmd's state.
Fields == {"i", "buf", "argv", "inarg", "toomany"}

\* What runcmd has done so far.
RunInv ==
  fn = "runcmd" =>
    /\ arg \in Seq(Nat \ {0}) /\ DOMAIN res = Fields
    /\ res.toomany \in BOOLEAN /\ res.inarg \in BOOLEAN
    /\ res.toomany = TRUE => TooMany(arg)
    /\ res.toomany = FALSE => /\ Parsed(arg, res.i, res.buf, res.argv)
                              /\ res.inarg = TRUE <=> InWord(arg, res.i)

\* runcmd has found nothing yet.
LEMMA RunStart ==
  ASSUME runcmd
  PROVE  RunInv'
<1>1. PICK l \in Lines : /\ arg' = l /\ fn' = "runcmd"
                         /\ res' = [i |-> 1, buf |-> l \o <<0>>, argv |-> <<>>, inarg |-> FALSE,
                                    toomany |-> FALSE]
  BY DEF runcmd, Called
<1>2. PICK b, v, r : b = l \o <<0>> /\ v = <<>> /\ r = res'
  OBVIOUS
<1>3. r.i = 1 /\ r.buf = b /\ r.argv = v /\ DOMAIN r = Fields
  BY <1>1, <1>2 DEF Fields
<1>4. r.inarg = FALSE /\ r.toomany = FALSE
  BY <1>1, <1>2, Zenon
<1>5. l \in Seq(Nat \ {0})
  BY LoopsAssumption
<1>6. v \in Seq(Int) /\ Len(v) = 0 /\ DOMAIN v = {}
  BY <1>2
<1>7. Starts(l, 1) = {}
  BY DEF Starts
<1>8. Parsed(l, 1, b, v)
  <2>1. Range(v) = {}
    BY <1>6 DEF Range
  <2>2. Cardinality(Starts(l, 1)) = 0
    BY <1>7, FS_EmptySet
  <2>3. /\ DOMAIN b = 1 .. Len(l) + 1 /\ b[Len(l) + 1] = 0
        /\ \A j \in 1 .. Len(l) : b[j] = l[j] /\ ~(j < 1)
    BY <1>2, <1>5
  <2>4. 1 \in 1 .. Len(l) + 1
    BY <1>5
  <2>5. Len(v) <= MAXARGS - 1
    BY <1>6, TerminalAssumption
  <2> QED
    BY <1>6, <1>7, <2>1, <2>2, <2>3, <2>4, <2>5 DEF Parsed
<1>9. ~InWord(l, 1)
  BY DEF InWord
<1> QED
  BY <1>1, <1>2, <1>3, <1>4, <1>5, <1>8, <1>9, Zenon DEF RunInv

\* One more character is scanned.
LEMMA RunNext ==
  ASSUME RunInv, runcmd_char
  PROVE  RunInv'
<1>1. PICK l, k, b, v, r, a : /\ l = arg /\ k = res.i /\ b = res.buf /\ v = res.argv /\ r = res' /\ a = res
  OBVIOUS
<1>2. r = ScanChar(a, l[k]) /\ fn' = "runcmd" /\ arg' = l /\ ~a.toomany /\ ~(k > Len(l)) /\ fn = "runcmd"
  BY <1>1, Zenon DEF runcmd_char, Scanned
<1>3. a.toomany = FALSE
  BY <1>1, <1>2, Zenon DEF RunInv
<1>4. /\ l \in Seq(Nat \ {0}) /\ DOMAIN a = Fields /\ a.inarg \in BOOLEAN
      /\ Parsed(l, k, b, v) /\ (a.inarg = TRUE <=> InWord(l, k))
  BY <1>1, <1>2, <1>3, Zenon DEF RunInv
<1>5. k \in 1 .. Len(l) /\ k <= Len(l) /\ k \in Int /\ k + 1 > 1 /\ k + 1 - 1 = k
  BY <1>2, <1>4 DEF Parsed
<1>6. "i" \in DOMAIN a /\ "buf" \in DOMAIN a /\ "argv" \in DOMAIN a /\ "inarg" \in DOMAIN a /\ "toomany" \in DOMAIN a
  BY <1>4 DEF Fields
<1> SUFFICES /\ DOMAIN r = Fields /\ r.toomany \in BOOLEAN /\ r.inarg \in BOOLEAN
             /\ r.toomany = TRUE => TooMany(l)
             /\ r.toomany = FALSE => /\ Parsed(l, r.i, r.buf, r.argv)
                                     /\ r.inarg = TRUE <=> InWord(l, r.i)
  BY <1>1, <1>2, <1>4, Zenon DEF RunInv
<1>7. CASE l[k] \in WHITESPACE
  <2>1. PICK d : d = [b EXCEPT ![k] = 0]
    OBVIOUS
  <2>2. r = [a EXCEPT !.i = k + 1, !.buf = d, !.inarg = FALSE]
    BY <1>1, <1>2, <1>7, <2>1, ZenonT(60) DEF ScanChar, Gobble
  <2>3. DOMAIN r = Fields /\ r.i = k + 1 /\ r.buf = d /\ r.argv = v
    BY <1>1, <1>4, <1>6, <2>2, Zenon
  <2>4. r.inarg = FALSE /\ r.toomany = FALSE
    BY <1>3, <1>6, <2>2, Zenon
  <2>5. Parsed(l, k + 1, d, v)
    BY <1>4, <1>5, <1>7, <2>1, ParsedSame
  <2>6. ~InWord(l, k + 1)
    BY <1>5, <1>7 DEF InWord
  <2> QED
    BY <2>3, <2>4, <2>5, <2>6, Zenon
<1>8. CASE l[k] \notin WHITESPACE /\ a.inarg = TRUE
  <2>1. r = [a EXCEPT !.i = k + 1]
    BY <1>1, <1>2, <1>8, Zenon DEF ScanChar
  <2>2. DOMAIN r = Fields /\ r.i = k + 1 /\ r.buf = b /\ r.argv = v
    BY <1>1, <1>4, <1>6, <2>1, Zenon
  <2>3. r.inarg = TRUE /\ r.toomany = FALSE
    BY <1>3, <1>6, <1>8, <2>1, Zenon
  <2>4. Parsed(l, k + 1, b, v)
    BY <1>4, <1>5, <1>8, ParsedSame
  <2>5. InWord(l, k + 1)
    BY <1>5, <1>8 DEF InWord
  <2> QED
    BY <2>2, <2>3, <2>4, <2>5, Zenon
<1>9. CASE l[k] \notin WHITESPACE /\ a.inarg = FALSE
  <2>1. ~InWord(l, k)
    BY <1>4, <1>9, Zenon
  <2>2. CASE Len(v) = MAXARGS - 1
    <3>1. r = [a EXCEPT !.toomany = TRUE]
      BY <1>1, <1>2, <1>9, <2>2, Zenon DEF ScanChar
    <3>2. DOMAIN r = Fields /\ r.inarg = FALSE /\ r.toomany = TRUE
      BY <1>4, <1>6, <1>9, <3>1, Zenon
    <3>3. TooMany(l)
      BY <1>4, <1>5, <1>9, <2>1, <2>2, ParsedFull
    <3> QED
      BY <3>2, <3>3, Zenon
  <2>3. CASE Len(v) # MAXARGS - 1
    <3>1. PICK d : d = Append(v, k)
      OBVIOUS
    <3>2. r = [a EXCEPT !.i = k + 1, !.argv = d, !.inarg = TRUE]
      BY <1>1, <1>2, <1>9, <2>3, <3>1, Zenon DEF ScanChar
    <3>3. DOMAIN r = Fields /\ r.i = k + 1 /\ r.buf = b /\ r.argv = d
      BY <1>1, <1>4, <1>6, <3>2, Zenon
    <3>4. r.inarg = TRUE /\ r.toomany = FALSE
      BY <1>3, <1>6, <3>2, Zenon
    <3>5. Parsed(l, k + 1, b, d)
      BY <1>4, <1>5, <1>9, <2>1, <2>3, <3>1, ParsedWord
    <3>6. InWord(l, k + 1)
      BY <1>5, <1>9 DEF InWord
    <3> QED
      BY <3>3, <3>4, <3>5, <3>6, Zenon
  <2> QED
    BY <2>2, <2>3
<1> QED
  BY <1>4, <1>7, <1>8, <1>9, Zenon

\* At the end of the line the parsed part is the line.
LEMMA RunEnd ==
  ASSUME RunInv
  PROVE  RuncmdWords
<1> SUFFICES ASSUME fn = "runcmd", Scanned
             PROVE  /\ res.toomany <=> Cardinality(Words(arg)) > MAXARGS - 1
                    /\ ~res.toomany =>
                         /\ Range(res.argv) = {w[1] : w \in Words(arg)}
                         /\ \A i \in 1 .. Len(res.argv) - 1 : res.argv[i] < res.argv[i + 1]
                         /\ \A w \in Words(arg) : res.buf[w[2] + 1] = 0
                         /\ \A i \in DOMAIN arg : arg[i] \notin WHITESPACE => res.buf[i] = arg[i]
  BY DEF RuncmdWords
<1>1. PICK l, k, b, v : l = arg /\ k = res.i /\ b = res.buf /\ v = res.argv
  OBVIOUS
<1>2. l \in Seq(Nat \ {0}) /\ (res.toomany = TRUE \/ res.toomany = FALSE)
  BY <1>1, Zenon DEF RunInv
<1>3. /\ {w[1] : w \in Words(l)} = Starts(l, Len(l) + 1)
      /\ Cardinality(Words(l)) = Cardinality(Starts(l, Len(l) + 1))
  BY <1>2, WordCount
<1>4. CASE res.toomany = TRUE
  <2>1. TooMany(l)
    BY <1>1, <1>4, Zenon DEF RunInv
  <2> QED
    BY <1>1, <1>3, <1>4, <2>1, Zenon DEF TooMany
<1>5. CASE res.toomany = FALSE
  <2>1. Parsed(l, k, b, v)
    BY <1>1, <1>5, Zenon DEF RunInv
  <2>2. k > Len(l)
    BY <1>1, <1>5, Zenon DEF Scanned
  <2>3. k = Len(l) + 1
    BY <1>2, <2>1, <2>2 DEF Parsed
  <2>4. /\ Range(v) = {w[1] : w \in Words(l)} /\ \A i \in 1 .. Len(v) - 1 : v[i] < v[i + 1]
    BY <1>3, <2>1, <2>3 DEF Parsed
  <2>5. ~(Cardinality(Words(l)) > MAXARGS - 1)
    <3>1. Len(v) = Cardinality(Words(l)) /\ Len(v) <= MAXARGS - 1 /\ Len(v) \in Nat
      BY <1>3, <2>1, <2>3 DEF Parsed
    <3> QED
      BY <3>1, TerminalAssumption
  <2>6. ASSUME NEW w \in Words(l) PROVE b[w[2] + 1] = 0
    <3>1. PICK e : e = w[2]
      OBVIOUS
    <3>2. e \in 1 .. Len(l) /\ (e < Len(l) => l[e + 1] \in WHITESPACE)
      BY <3>1, WordsAre DEF Word
    <3>3. CASE e = Len(l)
      BY <2>1, <3>1, <3>3 DEF Parsed
    <3>4. CASE e # Len(l)
      <4>1. e + 1 \in 1 .. Len(l) /\ e + 1 < k /\ l[e + 1] \in WHITESPACE
        BY <1>2, <2>3, <3>2, <3>4
      <4> QED
        BY <2>1, <3>1, <4>1 DEF Parsed
    <3> QED
      BY <3>3, <3>4
  <2>7. ASSUME NEW i \in DOMAIN l, l[i] \notin WHITESPACE PROVE b[i] = l[i]
    <3>1. i \in 1 .. Len(l)
      BY <1>2
    <3> QED
      BY <2>1, <2>7, <3>1 DEF Parsed
  <2> QED
    BY <1>1, <1>5, <2>4, <2>5, <2>6, <2>7, Zenon
<1> QED
  BY <1>2, <1>4, <1>5

-----------------------------------------------------------------------------
(***************************************************************************)
(* bootmain                                                                *)
(***************************************************************************)
Fits(s) ==
  /\ s.pa \in Int /\ 0 <= s.pa /\ s.memsz \in Int /\ 0 <= s.memsz /\ s.off \in Int /\ 0 <= s.off
  /\ s.pa .. s.pa + s.memsz - 1 \subseteq DOMAIN Memory

\* The bytes of segment s are in memory m.
InPlace(m, s) == \A k \in 0 .. s.memsz - 1 : m[s.pa + k] = Disk[SECTSIZE + s.off + k]

\* A byte of memory after readseg: untouched and not of the segment, or the byte of
\* the disk at the distance the segment has there, in one of the segment's sectors.
ByteRead(w, m, s, a) ==
  \/ w[a] = m[a] /\ a \notin s.pa .. s.pa + s.memsz - 1
  \/ /\ a \div SECTSIZE \in Sectors(s)
     /\ Aligned(s) => w[a] = Disk[SECTSIZE + s.off + (a - s.pa)]

\* What readseg leaves at an address.
LEMMA Reads ==
  ASSUME NEW m, NEW s, NEW w, Fits(s),
         w = readseg(m, Disk, s.pa, s.memsz, s.off)
  PROVE  /\ DOMAIN w = DOMAIN m
         /\ \A a \in DOMAIN m : a \in Int => ByteRead(w, m, s, a)
<1>1. PICK S, p, z, o : S = SECTSIZE /\ p = s.pa /\ z = s.memsz /\ o = s.off
  OBVIOUS
<1>2. PICK b, x, n : b = p - (p % S) /\ x = (o \div S) + 1 /\ n = ((p + z) - b + S - 1) \div S
  OBVIOUS
<1>3. PICK new : new = b .. b + n * S - 1
  OBVIOUS
<1>4. w = [a \in DOMAIN m |-> IF a \in new THEN Disk[x * S + a - b] ELSE m[a]]
  BY <1>1, <1>2, <1>3, Zenon DEF readseg, EndPa
<1>5. S \in Nat \ {0} /\ S \in Int /\ S > 0 /\ p \in Int /\ 0 <= p /\ z \in Int /\ 0 <= z /\ o \in Int
  BY <1>1, SegmentsAssumption DEF Fits
<1>6. PICK d, e : d = p \div S /\ e = o \div S
  OBVIOUS
<1>7. /\ d \in Int /\ e \in Int /\ S * d \in Int /\ S * e \in Int
      /\ p % S = p - S * d /\ o % S = o - S * e /\ p % S \in Int /\ 0 <= p % S /\ p % S < S
  BY <1>5, <1>6, DivMod
<1>8. b = S * d /\ b \in Int /\ b <= p /\ p < b + S
  BY <1>2, <1>5, <1>7
<1>9. x * S = S * e + S
  BY <1>2, <1>5, <1>6, <1>7
<1>10. PICK c : c = (p + z) - b + S - 1
  OBVIOUS
<1>11. c \in Int /\ n = c \div S
  <2>1. c \in Int
    BY <1>5, <1>8, <1>10
  <2> QED
    BY <1>2, <1>10, <2>1, Zenon
<1>12. n \in Int /\ S * n \in Int /\ S * n <= c /\ c < S * n + S
  <2>1. n \in Int /\ S * n \in Int /\ c % S = c - S * n /\ 0 <= c % S /\ c % S < S /\ c % S \in Int
    BY <1>5, <1>11, DivMod
  <2> QED
    BY <1>5, <1>11, <2>1
<1>13. n * S = S * n
  BY <1>5, <1>12
<1>14. p + z <= b + S * n /\ b + S * n < p + z + S
  BY <1>5, <1>8, <1>10, <1>12
<1>15. DOMAIN w = DOMAIN m
  BY <1>4
<1>16. ASSUME NEW a \in DOMAIN m, a \in Int PROVE ByteRead(w, m, s, a)
  <2>1. CASE a \notin new
    <3>1. w[a] = m[a]
      BY <1>4, <2>1
    <3>2. a \notin p .. p + z - 1
      BY SMTT(40), <1>3, <1>5, <1>8, <1>12, <1>13, <1>14, <1>16, <2>1
    <3> QED
      BY <1>1, <3>1, <3>2 DEF ByteRead
  <2>2. CASE a \in new
    <3>1. w[a] = Disk[x * S + a - b]
      BY <1>4, <2>2
    <3>2. b <= a /\ a < b + S * n
      BY <1>3, <1>8, <1>12, <1>13, <1>16, <2>2
    <3>3. ASSUME p % S = o % S PROVE x * S + a - b = S + o + (a - p)
      <4>1. p - S * d = o - S * e
        BY <1>7, <3>3
      <4>2. PICK D, E : D = S * d /\ E = S * e
        OBVIOUS
      <4>3. x * S = E + S /\ b = D /\ D \in Int /\ E \in Int /\ p - D = o - E
        BY <1>7, <1>8, <1>9, <4>1, <4>2
      <4> QED
        BY <1>5, <1>16, <4>3
    <3>4. PICK f, g : f = a \div S /\ g = S * f
      OBVIOUS
    <3>5. f \in Int /\ g \in Int /\ g <= a /\ a < g + S
      <4>1. f \in Int /\ S * f \in Int /\ a % S = a - S * f /\ 0 <= a % S /\ a % S < S /\ a % S \in Int
        BY <1>5, <1>16, <3>4, DivMod
      <4> QED
        BY <1>5, <1>16, <3>4, <4>1
    <3>6. d <= f
      <4>1. b \div S = d
        BY <1>5, <1>7, <1>8, DivUnique
      <4> QED
        BY <1>5, <1>8, <1>16, <3>2, <3>4, <4>1, DivMono
    <3>7. b <= g
      BY <1>5, <1>7, <1>8, <3>4, <3>5, <3>6
    <3>8. g + S <= b + S * n
      <4>1. S * f < S * (d + n)
        <5>1. S * (d + n) = b + S * n
          BY <1>5, <1>7, <1>8, <1>12
        <5> QED
          BY <1>8, <1>12, <1>16, <3>2, <3>4, <3>5, <5>1
      <4>2. f < d + n
        <5>1. d + n \in Int
          BY <1>7, <1>12
        <5> QED
          BY <1>5, <3>5, <4>1, <5>1, MulLess
      <4>3. S * f + S <= S * (d + n)
        <5>1. d + n \in Int
          BY <1>7, <1>12
        <5> QED
          BY <1>5, <3>5, <4>2, <5>1, MulMono
      <4>4. S * (d + n) = b + S * n
        BY <1>5, <1>7, <1>8, <1>12
      <4> QED
        BY <3>4, <4>3, <4>4
    <3>9. g \in b .. p + z - 1
      BY <1>5, <1>8, <1>12, <1>14, <3>5, <3>7, <3>8
    <3>10. g \div S = f
      BY <1>5, <3>4, <3>5, DivUnique
    <3>11. f \in Sectors(s)
      BY <1>1, <1>2, <3>9, <3>10 DEF Sectors
    <3> QED
      BY <1>1, <3>1, <3>3, <3>4, <3>11 DEF ByteRead, Aligned
  <2> QED
    BY <2>1, <2>2
<1> QED
  BY <1>15, <1>16

\* Segments at one distance from the file are both aligned or neither is.
LEMMA SameOffset ==
  ASSUME NEW s, NEW u, Fits(s), Fits(u), Aligned(u), s.pa - s.off = u.pa - u.off
  PROVE  Aligned(s)
<1>0. PICK S, p, o, q, y : S = SECTSIZE /\ p = u.pa /\ o = u.off /\ q = s.pa /\ y = s.off
  OBVIOUS
<1>9. S \in Nat \ {0} /\ p \in Int /\ o \in Int /\ q \in Int /\ y \in Int /\ p % S = o % S /\ q - y = p - o
  BY <1>0, SegmentsAssumption DEF Fits, Aligned
<1>1. PICK d, e, g : d = p \div S /\ e = o \div S /\ g = y \div S
  OBVIOUS
<1>2. /\ d \in Int /\ S * d \in Int /\ p % S = p - S * d
      /\ e \in Int /\ S * e \in Int /\ o % S = o - S * e
      /\ g \in Int /\ S * g \in Int /\ y % S = y - S * g
      /\ y % S \in Int /\ 0 <= y % S /\ y % S < S
  BY <1>1, <1>9, DivMod
<1>3. PICK h : h = g + d - e
  OBVIOUS
<1>4. h \in Int /\ S * h = S * g + S * d - S * e /\ S * h \in Int
  BY <1>2, <1>3, <1>9
<1>5. q = S * h + (y % S)
  <2>1. PICK D, E, G, H, r : D = S * d /\ E = S * e /\ G = S * g /\ H = S * h /\ r = y % S
    OBVIOUS
  <2>2. D \in Int /\ E \in Int /\ G \in Int /\ H \in Int /\ r \in Int
    BY <1>2, <1>4, <2>1
  <2>3. p - D = o - E
    BY <1>2, <1>9, <2>1
  <2>4. H = G + D - E
    BY <1>4, <2>1
  <2>5. r = y - G
    BY <1>2, <2>1
  <2>6. p \in Int /\ o \in Int /\ q \in Int /\ y \in Int /\ q - y = p - o
    BY <1>9
  <2>7. q = H + r
    BY ONLY <2>2, <2>3, <2>4, <2>5, <2>6
  <2> QED
    BY <2>1, <2>7
<1>6. S * h <= q /\ q < S * h + S
  BY <1>2, <1>4, <1>5, <1>9
<1>7. q \div S = h
  BY <1>4, <1>6, <1>9, DivUnique
<1>8. q % S = q - S * h
  BY <1>7, <1>9, DivMod
<1>10. q % S = y % S
  BY <1>2, <1>4, <1>5, <1>8, <1>9
<1> QED
  BY <1>0, <1>10 DEF Aligned

\* The segment read is in place, and so is one that was before it, if they are
\* neighbours wherever they share a sector.
LEMMA ReadsKeep ==
  ASSUME NEW m, NEW s, NEW w, NEW u, Fits(s), Fits(u), DOMAIN m = DOMAIN Memory,
         \A a \in DOMAIN m : a \in Int => ByteRead(w, m, s, a),
         Aligned(u),
         u = s \/ (InPlace(m, u) /\ (Sectors(s) \cap Sectors(u) # {} => s.pa - s.off = u.pa - u.off))
  PROVE  InPlace(w, u)
<1> SUFFICES ASSUME NEW k \in 0 .. u.memsz - 1
             PROVE  w[u.pa + k] = Disk[SECTSIZE + u.off + k]
  BY DEF InPlace
<1>1. PICK S, p, z, o, q, y, c : /\ S = SECTSIZE /\ p = u.pa /\ z = u.memsz /\ o = u.off
                                 /\ q = s.pa /\ y = s.off /\ c = s.memsz
  OBVIOUS
<1>2. /\ S \in Nat \ {0} /\ S \in Int /\ S > 0 /\ p \in Int /\ 0 <= p /\ z \in Int /\ 0 <= z /\ o \in Int /\ k \in Int /\ 0 <= k /\ k < z
      /\ q \in Int /\ y \in Int
  BY <1>1, SegmentsAssumption DEF Fits
<1>3. PICK a : a = p + k
  OBVIOUS
<1>4. a \in Int /\ a \in p .. p + z - 1 /\ a \in DOMAIN m
  <2>1. a \in Int /\ a \in p .. p + z - 1
    BY <1>2, <1>3
  <2> QED
    BY <1>1, <2>1 DEF Fits
<1>5. ByteRead(w, m, s, a)
  BY <1>4
<1>6. CASE w[a] = m[a] /\ a \notin s.pa .. s.pa + s.memsz - 1
  <2>1. u # s
    BY <1>1, <1>4, <1>6
  <2>2. m[u.pa + k] = Disk[SECTSIZE + u.off + k]
    BY <2>1 DEF InPlace
  <2> QED
    BY <1>1, <1>3, <1>6, <2>2
<1>7. CASE /\ a \div SECTSIZE \in Sectors(s)
           /\ Aligned(s) => w[a] = Disk[SECTSIZE + s.off + (a - s.pa)]
  <2>1. a \div SECTSIZE \in Sectors(u)
    <3>1. p % S \in Int /\ 0 <= p % S
      BY <1>2, DivMod
    <3>2. a \in p - (p % S) .. p + z - 1
      BY <1>2, <1>4, <3>1
    <3> QED
      BY <1>1, <3>2 DEF Sectors
  <2>2. q - y = p - o
    BY <1>1, <1>7, <2>1
  <2>3. S + y + (a - q) = S + o + k
    BY <1>2, <1>3, <2>2
  <2>4. Aligned(s)
    BY <1>1, <2>2, SameOffset
  <2> QED
    BY <1>1, <1>3, <1>7, <2>3, <2>4
<1> QED
  BY <1>5, <1>6, <1>7 DEF ByteRead

\* What bootmain has done so far.
BootInv ==
  fn = "bootmain" =>
    /\ arg \in Images /\ res.i \in 1 .. Len(arg) + 1 /\ DOMAIN res.mem = DOMAIN Memory
    /\ \A j \in 1 .. res.i - 1 : Undisturbed(arg, j) => InPlace(res.mem, arg[j])

\* A segment of the kernel fits the memory.
LEMMA ImageFits ==
  ASSUME NEW phs \in Images
  PROVE  Len(phs) \in Nat /\ DOMAIN phs = 1 .. Len(phs) /\ \A i \in 1 .. Len(phs) : Fits(phs[i])
  BY LoopsAssumption DEF Fits

\* No segment is loaded yet.
LEMMA BootStart ==
  ASSUME bootmain
  PROVE  BootInv'
<1>1. PICK phs \in Images : arg' = phs /\ res' = [mem |-> Memory, i |-> 1]
  BY DEF bootmain, Called
<1>2. PICK r : r = res'
  OBVIOUS
<1>3. r.mem = Memory /\ r.i = 1
  BY <1>1, <1>2
<1>4. 1 \in 1 .. Len(phs) + 1 /\ ~\E j \in 1 .. 1 - 1 : TRUE
  BY ImageFits
<1> QED
  BY <1>1, <1>2, <1>3, <1>4 DEF BootInv

\* One more segment is loaded, and none is overwritten that it is not at odds with.
LEMMA BootNext ==
  ASSUME BootInv, bootmain_segment
  PROVE  BootInv'
<1>1. PICK phs, i, m, r, s, w : /\ phs = arg /\ i = res.i /\ m = res.mem /\ r = res' /\ s = phs[i]
                                /\ w = readseg(m, Disk, s.pa, s.memsz, s.off)
  OBVIOUS
<1>2. r = [mem |-> w, i |-> i + 1] /\ i <= Len(phs) /\ arg' = phs /\ fn = "bootmain" /\ fn' = "bootmain"
  BY <1>1 DEF bootmain_segment
<1>3. /\ phs \in Images /\ i \in 1 .. Len(phs) + 1 /\ DOMAIN m = DOMAIN Memory
      /\ \A j \in 1 .. i - 1 : Undisturbed(phs, j) => InPlace(m, phs[j])
  BY <1>1, <1>2 DEF BootInv
<1>4. Len(phs) \in Nat /\ DOMAIN phs = 1 .. Len(phs) /\ \A j \in 1 .. Len(phs) : Fits(phs[j])
  BY <1>3, ImageFits
<1>5. i \in 1 .. Len(phs) /\ i + 1 \in 1 .. Len(phs) + 1 /\ Fits(s)
  BY <1>1, <1>2, <1>3, <1>4
<1>6. DOMAIN w = DOMAIN m
  BY <1>1 DEF readseg
<1>7. ASSUME NEW j \in 1 .. i + 1 - 1, Undisturbed(phs, j) PROVE InPlace(w, phs[j])
  <2>1. j \in 1 .. Len(phs) /\ (j = i \/ (j \in 1 .. i - 1 /\ i \in j + 1 .. Len(phs)))
    BY <1>4, <1>5
  <2>3. \A a \in DOMAIN m : a \in Int => ByteRead(w, m, s, a)
    BY <1>1, <1>5, Reads
  <2>4. PICK u : u = phs[j]
    OBVIOUS
  <2>5. Fits(u) /\ Aligned(u) /\ (u = s \/ InPlace(m, u))
    BY <1>1, <1>3, <1>4, <1>7, <2>1, <2>4 DEF Undisturbed
  <2>6. u = s \/ (InPlace(m, u) /\ (Sectors(s) \cap Sectors(u) # {} => s.pa - s.off = u.pa - u.off))
    BY <1>1, <1>3, <1>7, <2>1, <2>4 DEF Undisturbed
  <2>7. InPlace(w, u)
    BY <1>3, <1>5, <2>3, <2>5, <2>6, ReadsKeep
  <2> QED
    BY <2>4, <2>7
<1>8. r.mem = w /\ r.i = i + 1
  BY <1>2
<1> QED
  BY <1>1, <1>2, <1>3, <1>5, <1>6, <1>7, <1>8 DEF BootInv

\* At the end every segment that was left alone is loaded.
LEMMA BootEnd ==
  ASSUME BootInv
  PROVE  KernelLoaded
<1> SUFFICES ASSUME fn = "bootmain", res.i > Len(arg), NEW j \in DOMAIN arg, Undisturbed(arg, j)
             PROVE  InPlace(res.mem, arg[j])
  BY DEF KernelLoaded, InPlace
<1>1. Len(arg) \in Nat /\ DOMAIN arg = 1 .. Len(arg)
  BY ImageFits DEF BootInv
<1>2. j \in 1 .. res.i - 1
  BY <1>1 DEF BootInv
<1> QED
  BY <1>2 DEF BootInv

-----------------------------------------------------------------------------
(***************************************************************************)
(* load_icode                                                              *)
(***************************************************************************)
\* The bytes of a segment, and of the pages region_alloc maps for it.
Bytes(s) == s.va .. s.va + s.memsz - 1
\* The addresses that region_alloc maps.
Region(va, len) == UNION {p .. p + PGSIZE - 1 : p \in RegionPages(va, len)}

\* A segment that ends below the page of the stack.
Placeable(s) ==
  /\ s.va \in Int /\ 0 <= s.va /\ s.memsz \in Int /\ 0 <= s.memsz
  /\ s.va + s.memsz + 2 * PGSIZE <= ADDRMOD

\* A region is an interval: from the page of its start, as long as the rounded length.
IsRegion(v, n, d, q) ==
  /\ d = v \div PGSIZE /\ RoundUp(n) = PGSIZE * q /\ n <= PGSIZE * q
  /\ PGSIZE * d \in Int /\ PGSIZE * q \in Int /\ v % PGSIZE = v - PGSIZE * d
  /\ PGSIZE * d <= v /\ v < PGSIZE * d + PGSIZE
  /\ \A a : a \in Region(v, n) <=> a \in Int /\ PGSIZE * d <= a /\ a < PGSIZE * d + PGSIZE * q
  /\ \A a \in Region(v, n) : a \div PGSIZE \in {p \div PGSIZE : p \in RegionPages(v, n)}

\* The region is an interval of whole pages.
LEMMA RegionIs ==
  ASSUME NEW v \in Int, NEW n \in Int, 0 <= v, 0 <= n, n <= ADDRMOD - PGSIZE
  PROVE  \E d, q \in Int : IsRegion(v, n, d, q)
<1>1. PICK P, d : P = PGSIZE /\ d = v \div P
  OBVIOUS
<1>2. P \in Nat \ {0} /\ P \in Int /\ P > 0
  BY <1>1, PageSizes
<1>3. d \in Int /\ P * d \in Int /\ v % P = v - P * d /\ P * d <= v /\ v < P * d + P
  <2>1. d \in Int /\ P * d \in Int /\ v % P = v - P * d /\ 0 <= v % P /\ v % P < P /\ v % P \in Int
    BY <1>1, <1>2, DivMod
  <2> QED
    BY <1>2, <2>1
<1>4. PICK q \in Int : RoundUp(n) = P * q /\ n <= P * q
  BY <1>1, RoundsUp
<1>5. P * q \in Int
  BY <1>2, <1>4
<1>6. (P * q) \div P = q
  BY <1>2, <1>4, <1>5, DivUnique
<1>7. RegionPages(v, n) = {P * d + k * P : k \in 0 .. q - 1}
  <2>1. v - (v % P) = P * d
    BY <1>2, <1>3
  <2> QED
    BY <1>1, <1>4, <1>6, <2>1, Zenon DEF RegionPages, RoundDown
<1>8. ASSUME NEW k \in 0 .. q - 1
      PROVE  /\ P * d + k * P \in Int /\ P * d + k * P = P * (d + k) /\ d + k \in Int
             /\ P * d <= P * d + k * P /\ P * d + k * P + P <= P * d + P * q
  <2>1. k \in Int /\ 0 <= k /\ k < q
    BY <1>4
  <2>2. k * P \in Int /\ k * P = P * k /\ 0 <= k * P
    BY <1>2, <2>1
  <2>3. P * k + P <= P * q
    BY <1>2, <1>4, <2>1, MulMono
  <2>4. P * (d + k) = P * d + P * k
    BY <1>2, <1>3, <2>1
  <2> QED
    BY <1>2, <1>3, <1>5, <2>1, <2>2, <2>3, <2>4
<1>9. ASSUME NEW a \in Region(v, n)
      PROVE  /\ a \in Int /\ P * d <= a /\ a < P * d + P * q
             /\ a \div P \in {p \div P : p \in RegionPages(v, n)}
  <2>1. PICK p \in RegionPages(v, n) : a \in p .. p + P - 1
    BY <1>1 DEF Region
  <2>2. PICK k \in 0 .. q - 1 : p = P * d + k * P
    BY <1>7, <2>1
  <2>3. PICK c : c = d + k
    OBVIOUS
  <2>4. p \in Int /\ p = P * c /\ c \in Int /\ P * d <= p /\ p + P <= P * d + P * q
    BY <1>8, <2>2, <2>3
  <2>5. a \in Int /\ P * d <= a /\ a < P * d + P * q /\ p <= a /\ a < p + P
    BY <1>2, <1>3, <1>5, <2>1, <2>4
  <2>6. a \div P = c
    BY <1>2, <2>4, <2>5, DivUnique
  <2>7. p \div P = c
    BY <1>2, <2>4, DivUnique
  <2> QED
    BY <2>1, <2>5, <2>6, <2>7
<1>10. ASSUME NEW a \in Int, P * d <= a, a < P * d + P * q
       PROVE  a \in Region(v, n)
  <2>1. PICK x, c, k : x = a - P * d /\ c = x \div P /\ k = c
    OBVIOUS
  <2>2. x \in Int /\ 0 <= x /\ x < P * q
    BY <1>3, <1>5, <1>10, <2>1
  <2>3. k \in Int /\ P * k \in Int /\ P * k <= x /\ x < P * k + P
    <3>1. c \in Int /\ P * c \in Int /\ x % P = x - P * c /\ 0 <= x % P /\ x % P < P /\ x % P \in Int
      BY <1>2, <2>1, <2>2, DivMod
    <3> QED
      BY <1>2, <2>1, <2>2, <3>1
  <2>4. 0 <= k
    BY <1>2, <2>1, <2>2
  <2>5. k < q
    <3>1. P * k < P * q
      BY <1>5, <2>2, <2>3
    <3> QED
      BY <1>2, <1>4, <2>3, <3>1, MulLess
  <2>6. k \in 0 .. q - 1 /\ k * P = P * k
    BY <1>2, <1>4, <2>3, <2>4, <2>5
  <2>7. PICK p : p = P * d + k * P
    OBVIOUS
  <2>8. p \in RegionPages(v, n)
    BY <1>7, <2>6, <2>7
  <2>9. a \in p .. p + P - 1
    BY <1>2, <1>3, <1>10, <2>1, <2>3, <2>6, <2>7
  <2> QED
    BY <1>1, <2>8, <2>9 DEF Region
<1> QED
  BY <1>1, <1>3, <1>4, <1>5, <1>9, <1>10 DEF IsRegion

\* What the region of a segment holds: all of the segment, unless the last page is lost.
LEMMA RegionHolds ==
  ASSUME NEW s, Placeable(s)
  PROVE  /\ ~Straddles(s) => Bytes(s) \subseteq Region(s.va, s.memsz)
         /\ Straddles(s) => \E a \in Bytes(s) : a \notin Region(s.va, s.memsz)
         /\ \A a \in Bytes(s) \cup Region(s.va, s.memsz) : a \div PGSIZE \in PagesOf(s)
         /\ Region(s.va, s.memsz) \subseteq Int
<1>1. PICK v, n, P : v = s.va /\ n = s.memsz /\ P = PGSIZE
  OBVIOUS
<1>2. v \in Int /\ 0 <= v /\ n \in Int /\ 0 <= n /\ n <= ADDRMOD - P /\ P \in Int /\ P > 0 /\ ADDRMOD \in Int
  BY <1>1, PageSizes DEF Placeable
<1>9. PICK d, q \in Int : IsRegion(v, n, d, q)
  BY <1>1, <1>2, RegionIs
<1>3. /\ RoundUp(n) = P * q /\ n <= P * q
      /\ P * d \in Int /\ P * q \in Int /\ v % P = v - P * d
      /\ P * d <= v /\ v < P * d + P
      /\ \A a : a \in Region(v, n) <=> a \in Int /\ P * d <= a /\ a < P * d + P * q
      /\ \A a \in Region(v, n) : a \div P \in {p \div P : p \in RegionPages(v, n)}
  BY <1>1, <1>9, Zenon DEF IsRegion
<1>4. Straddles(s) <=> n > 0 /\ (v - P * d) + n > P * q
  BY <1>1, <1>3 DEF Straddles
<1>5. ASSUME ~Straddles(s), NEW a \in Bytes(s) PROVE a \in Region(v, n)
  <2>1. a \in Int /\ v <= a /\ a < v + n
    BY <1>1, <1>2, <1>5 DEF Bytes
  <2>2. (v - P * d) + n <= P * q
    BY <1>2, <1>3, <1>4, <1>5, <2>1
  <2> QED
    BY <1>2, <1>3, <2>1, <2>2
<1>6. ASSUME Straddles(s) PROVE \E a \in Bytes(s) : a \notin Region(v, n)
  <2>1. PICK a : a = v + n - 1
    OBVIOUS
  <2>2. a \in Int /\ v <= a /\ a <= v + n - 1 /\ ~(a < P * d + P * q)
    BY <1>2, <1>3, <1>4, <1>6, <2>1
  <2>3. a \in Bytes(s)
    BY <1>1, <1>2, <2>2 DEF Bytes
  <2>4. a \notin Region(v, n)
    BY <1>3, <2>2
  <2> QED
    BY <2>3, <2>4
<1>7. ASSUME NEW a \in Bytes(s) \cup Region(v, n) PROVE a \div P \in PagesOf(s)
  <2>1. CASE a \in Bytes(s)
    BY <1>1, <2>1 DEF Bytes, PagesOf
  <2>2. CASE a \in Region(v, n)
    BY <1>1, <1>3, <2>2 DEF PagesOf
  <2> QED
    BY <1>7, <2>1, <2>2
<1>8. Region(v, n) \subseteq Int
  BY <1>3
<1> QED
  BY <1>1, <1>5, <1>6, <1>7, <1>8

\* A segment that load_icode refuses.
Bad(s) == s.filesz > s.memsz \/ Straddles(s)

\* The bytes of segment s are in memory m, and zeros after them.
Good(m, s) ==
  /\ Bytes(s) \subseteq DOMAIN m
  /\ \A k \in 0 .. s.memsz - 1 : m[s.va + k] = IF k < s.filesz THEN File[s.off + k] ELSE 0

\* The segments B are loaded, and nothing else is mapped.
LoadedBytes(m, B) ==
  /\ \A u \in B : Placeable(u) /\ ~Bad(u) /\ Good(m, u)
  /\ \A a \in DOMAIN m : \E u \in B : a \in Region(u.va, u.memsz)

\* No page of segment s is a page of the others in B.
ApartFrom(s, B) == \A u \in B : u # s => PagesOf(u) \cap PagesOf(s) = {}

\* w is m with the region of the segment s mapped.
Mapped(w, m, s) ==
  /\ DOMAIN w = DOMAIN m \cup Region(s.va, s.memsz)
  /\ \A a \in DOMAIN m : a \notin Region(s.va, s.memsz) => w[a] = m[a]

\* region_alloc maps the region, and keeps what is mapped.
LEMMA Maps ==
  ASSUME NEW m, NEW s
  PROVE  Mapped(region_alloc(m, s.va, s.memsz), m, s)
<1>1. PICK w, R : w = region_alloc(m, s.va, s.memsz) /\ R = Region(s.va, s.memsz)
  OBVIOUS
<1>2. w = [a \in DOMAIN m \cup R |-> IF a \in R THEN Garbage ELSE m[a]]
  BY <1>1 DEF region_alloc, Region
<1>3. DOMAIN w = DOMAIN m \cup R /\ \A a \in DOMAIN m : a \notin R => w[a] = m[a]
  BY <1>2
<1> QED
  BY <1>1, <1>3 DEF Mapped

\* Two segments of which one is apart from the other have no byte in common.
LEMMA NoCommonByte ==
  ASSUME NEW s, NEW u, Placeable(s), Placeable(u), PagesOf(u) \cap PagesOf(s) = {}, NEW a,
         a \in Bytes(u) \cup Region(u.va, u.memsz)
  PROVE  a \notin Bytes(s) \cup Region(s.va, s.memsz)
<1>1. a \div PGSIZE \in PagesOf(u)
  BY RegionHolds
<1>2. a \in Bytes(s) \cup Region(s.va, s.memsz) => a \div PGSIZE \in PagesOf(s)
  BY RegionHolds
<1> QED
  BY <1>1, <1>2

\* A segment that loses its last page has a byte that is not mapped.
LEMMA LostByte ==
  ASSUME NEW m, NEW s, NEW B, NEW w, Placeable(s), Straddles(s), LoadedBytes(m, B), ApartFrom(s, B),
         Mapped(w, m, s)
  PROVE  ~(Bytes(s) \subseteq DOMAIN w)
<1>1. PICK a \in Bytes(s) : a \notin Region(s.va, s.memsz)
  BY RegionHolds
<1>2. ASSUME a \in DOMAIN m PROVE FALSE
  <2>1. PICK u \in B : a \in Region(u.va, u.memsz)
    BY <1>2 DEF LoadedBytes
  <2>2. u # s
    BY <1>1, <2>1
  <2>3. Placeable(u) /\ PagesOf(u) \cap PagesOf(s) = {}
    BY <2>1, <2>2 DEF LoadedBytes, ApartFrom
  <2> QED
    BY <1>1, <2>1, <2>3, NoCommonByte
<1> QED
  BY <1>1, <1>2 DEF Mapped

\* Otherwise it is loaded, and the others stay.
LEMMA LoadsSegment ==
  ASSUME NEW m, NEW s, NEW B, NEW w, NEW x, Placeable(s), ~Bad(s), s.filesz \in Int, s.off \in Int,
         LoadedBytes(m, B), ApartFrom(s, B), Mapped(w, m, s),
         x = [a \in DOMAIN w |-> IF a \in Bytes(s) THEN Contents(s, File, a, w[a]) ELSE w[a]]
  PROVE  Bytes(s) \subseteq DOMAIN w /\ LoadedBytes(x, B \cup {s})
<1>1. Bytes(s) \subseteq Region(s.va, s.memsz)
  BY RegionHolds DEF Bad
<1>2. Bytes(s) \subseteq DOMAIN w
  BY <1>1 DEF Mapped
<1>3. /\ DOMAIN x = DOMAIN w
      /\ \A a \in DOMAIN w : a \in Bytes(s) => x[a] = Contents(s, File, a, w[a])
      /\ \A a \in DOMAIN w : a \notin Bytes(s) => x[a] = w[a]
  OBVIOUS
<1>4. Good(x, s)
  <2>1. ASSUME NEW k \in 0 .. s.memsz - 1
        PROVE  x[s.va + k] = IF k < s.filesz THEN File[s.off + k] ELSE 0
    <3>1. PICK v, o, a : v = s.va /\ o = s.off /\ a = v + k
      OBVIOUS
    <3>2. v \in Int /\ o \in Int /\ s.memsz \in Int /\ k \in Int /\ 0 <= k /\ k < s.memsz
      BY <3>1 DEF Placeable
    <3>3. a \in v .. v + s.memsz - 1 /\ a - v = k /\ o + (a - v) = o + k
      BY <3>1, <3>2
    <3>4. a \in Bytes(s)
      BY <3>1, <3>3 DEF Bytes
    <3>5. x[a] = Contents(s, File, a, w[a])
      BY <1>2, <1>3, <3>4
    <3>6. Contents(s, File, a, w[a]) = IF a - v < s.filesz THEN File[o + (a - v)] ELSE 0
      BY <3>1 DEF Contents
    <3> QED
      BY <3>1, <3>3, <3>5, <3>6
  <2> QED
    BY <1>2, <1>3, <2>1 DEF Good
<1>5. ASSUME NEW u \in B, u # s PROVE Good(x, u)
  <2>1. Placeable(u) /\ Good(m, u) /\ PagesOf(u) \cap PagesOf(s) = {}
    BY <1>5 DEF LoadedBytes, ApartFrom
  <2>2. Bytes(u) \subseteq DOMAIN x
    BY <1>3, <2>1 DEF Mapped, Good
  <2>3. ASSUME NEW k \in 0 .. u.memsz - 1
        PROVE  x[u.va + k] = IF k < u.filesz THEN File[u.off + k] ELSE 0
    <3>1. PICK a : a = u.va + k
      OBVIOUS
    <3>2. a \in Bytes(u)
      BY <2>1, <3>1 DEF Placeable, Bytes
    <3>3. a \notin Bytes(s) /\ a \notin Region(s.va, s.memsz)
      BY <2>1, <3>2, NoCommonByte
    <3>4. a \in DOMAIN m /\ a \in DOMAIN w
      BY <2>1, <3>2 DEF Mapped, Good
    <3>5. x[a] = m[a]
      BY <1>3, <3>3, <3>4 DEF Mapped
    <3> QED
      BY <2>1, <3>1, <3>5 DEF Good
  <2> QED
    BY <2>2, <2>3 DEF Good
<1>6. \A u \in B \cup {s} : Placeable(u) /\ ~Bad(u) /\ Good(x, u)
  BY <1>4, <1>5 DEF LoadedBytes
<1>7. ASSUME NEW a \in DOMAIN x PROVE \E u \in B \cup {s} : a \in Region(u.va, u.memsz)
  <2>1. a \in DOMAIN m \/ a \in Region(s.va, s.memsz)
    BY <1>3 DEF Mapped
  <2> QED
    BY <2>1 DEF LoadedBytes
<1> QED
  BY <1>2, <1>6, <1>7 DEF LoadedBytes

\* The page of the stack is above every segment.
LEMMA StackApart ==
  ASSUME NEW m, NEW u, NEW w, Placeable(u), Good(m, u), w = region_alloc(m, ADDRMOD - PGSIZE, PGSIZE)
  PROVE  Good(w, u)
<1>1. PICK R, P, v, n : R = Region(ADDRMOD - PGSIZE, PGSIZE) /\ P = PGSIZE /\ v = u.va /\ n = u.memsz
  OBVIOUS
<1>2. w = [a \in DOMAIN m \cup R |-> IF a \in R THEN Garbage ELSE m[a]]
  BY <1>1 DEF region_alloc, Region
<1>3. v \in Int /\ n \in Int /\ 0 <= v /\ 0 <= n /\ P \in Int /\ P > 0 /\ v + n + 2 * P <= ADDRMOD /\ ADDRMOD \in Int
  BY <1>1, PageSizes DEF Placeable
<1>4. ASSUME NEW a \in Bytes(u) PROVE a \notin R
  <2>1. PICK c : c = ADDRMOD - PGSIZE
    OBVIOUS
  <2>2. c \in Int /\ 0 <= c /\ 0 <= P /\ P <= ADDRMOD - PGSIZE /\ P = PGSIZE /\ v + n + P <= c
    BY <1>1, <1>3, <2>1
  <2>3. PICK d, q \in Int : IsRegion(c, P, d, q)
    BY <1>3, <2>2, RegionIs
  <2>4. /\ PGSIZE * d \in Int /\ c < PGSIZE * d + PGSIZE
        /\ \A b : b \in Region(c, P) => b \in Int /\ PGSIZE * d <= b
    BY <2>3 DEF IsRegion
  <2>5. a \in Int /\ a < v + n
    BY <1>1, <1>3 DEF Bytes
  <2>6. ~(PGSIZE * d <= a)
    <3>1. PICK D : D = PGSIZE * d
      OBVIOUS
    <3> QED
      BY <1>1, <1>3, <2>2, <2>4, <2>5, <3>1
  <2> QED
    BY <1>1, <2>1, <2>4, <2>6
<1>5. Bytes(u) \subseteq DOMAIN w
  BY <1>2 DEF Good
<1>6. ASSUME NEW k \in 0 .. u.memsz - 1
      PROVE  w[u.va + k] = IF k < u.filesz THEN File[u.off + k] ELSE 0
  <2>1. PICK a : a = u.va + k
    OBVIOUS
  <2>2. a \in Bytes(u)
    BY <2>1 DEF Placeable, Bytes
  <2>3. w[a] = m[a]
    BY <1>2, <1>4, <2>2 DEF Good
  <2> QED
    BY <2>1, <2>3 DEF Good
<1> QED
  BY <1>5, <1>6 DEF Good

\* The segments to load before header i.
Before(phs, i) == {s \in {phs[j] : j \in 1 .. i - 1} : s.type = "LOAD"}

\* The fields of load_icode's state.
LoadFields == {"mem", "panic", "i", "done"}

\* The panic is due to a segment seen, or to the header.
Blamed(x, i) == x.magic = FALSE \/ \E s \in Before(x.phs, i) : Bad(s)

\* What load_icode has done so far.
LoadInv ==
  fn = "load_icode" =>
    /\ arg.phs \in Programs /\ arg.magic \in BOOLEAN /\ DOMAIN res = LoadFields
    /\ res.panic \in BOOLEAN /\ res.done \in BOOLEAN /\ res.i \in 1 .. Len(arg.phs) + 1
    /\ res.done = TRUE => res.panic = FALSE /\ res.i = Len(arg.phs) + 1
    /\ Apart(arg.phs) =>
         /\ res.panic = TRUE => Blamed(arg, res.i)
         /\ res.panic = FALSE =>
              /\ arg.magic = TRUE
              /\ res.done = FALSE => LoadedBytes(res.mem, Before(arg.phs, res.i))
              /\ res.done = TRUE => \A u \in Before(arg.phs, res.i) : Placeable(u) /\ ~Bad(u) /\ Good(res.mem, u)

\* A segment of a program ends below the stack.
LEMMA ProgramFits ==
  ASSUME NEW phs \in Programs
  PROVE  /\ Len(phs) \in Nat /\ DOMAIN phs = 1 .. Len(phs)
         /\ \A i \in 1 .. Len(phs) : Placeable(phs[i]) /\ phs[i].filesz \in Int /\ phs[i].off \in Int
         /\ Segs(phs) = Before(phs, Len(phs) + 1)
<1>1. Len(phs) \in Nat /\ DOMAIN phs = 1 .. Len(phs)
  BY LoopsAssumption
<1>2. \A i \in 1 .. Len(phs) : Placeable(phs[i]) /\ phs[i].filesz \in Int /\ phs[i].off \in Int
  BY <1>1, LoopsAssumption DEF Placeable
<1>3. 1 .. Len(phs) + 1 - 1 = 1 .. Len(phs)
  BY <1>1
<1>4. Segs(phs) = Before(phs, Len(phs) + 1)
  BY <1>1, <1>3 DEF Segs, Before
<1> QED
  BY <1>1, <1>2, <1>4

\* One more header is behind.
LEMMA BeforeNext ==
  ASSUME NEW phs, NEW i \in Int, 1 <= i
  PROVE  /\ phs[i].type = "LOAD" => Before(phs, i + 1) = Before(phs, i) \cup {phs[i]}
         /\ phs[i].type # "LOAD" => Before(phs, i + 1) = Before(phs, i)
<1>1. 1 .. i + 1 - 1 = (1 .. i - 1) \cup {i}
  OBVIOUS
<1>2. {phs[j] : j \in 1 .. i + 1 - 1} = {phs[j] : j \in 1 .. i - 1} \cup {phs[i]}
  BY <1>1
<1> QED
  BY <1>2 DEF Before

\* Nothing is loaded yet.
LEMMA LoadStart ==
  ASSUME load_icode
  PROVE  LoadInv'
<1>1. PICK phs \in Programs, magic \in BOOLEAN :
        /\ arg' = [phs |-> phs, magic |-> magic] /\ fn' = "load_icode"
        /\ res' = [mem |-> <<>>, panic |-> ~magic, i |-> 1, done |-> FALSE]
  BY DEF load_icode, Called
<1>2. PICK x, r, m : x = arg' /\ r = res' /\ m = <<>>
  OBVIOUS
<1>3. x.phs = phs /\ r.mem = m /\ r.i = 1 /\ DOMAIN r = LoadFields
  BY <1>1, <1>2 DEF LoadFields
<1>4. x.magic = magic /\ r.done = FALSE /\ r.panic = ~magic
  BY <1>1, <1>2, Zenon
<1>5. DOMAIN m = {}
  BY <1>2
<1>6. Before(phs, 1) = {}
  <2>1. 1 .. 1 - 1 = {}
    OBVIOUS
  <2> QED
    BY <2>1 DEF Before
<1>7. LoadedBytes(m, Before(phs, 1))
  BY <1>5, <1>6 DEF LoadedBytes
<1>8. 1 \in 1 .. Len(phs) + 1
  BY ProgramFits
<1>9. r.panic = TRUE <=> magic = FALSE
  BY <1>4, Zenon
<1> QED
  BY <1>1, <1>2, <1>3, <1>4, <1>7, <1>8, <1>9, Zenon DEF LoadInv, Blamed

\* w is what the load of the header s leaves of r.
LoadedOne(w, r, s) ==
  /\ DOMAIN w = LoadFields /\ w.i = r.i /\ w.done = r.done
  /\ s.type # "LOAD" => w = r
  /\ s.type = "LOAD" /\ s.filesz > s.memsz => w.panic = TRUE
  /\ s.type = "LOAD" /\ ~(s.filesz > s.memsz) =>
       \E m : /\ Mapped(m, r.mem, s)
              /\ ~(Bytes(s) \subseteq DOMAIN m) => w.panic = TRUE
              /\ Bytes(s) \subseteq DOMAIN m =>
                   /\ w.panic = r.panic
                   /\ w.mem = [a \in DOMAIN m |-> IF a \in Bytes(s) THEN Contents(s, File, a, m[a]) ELSE m[a]]

\* What LoadSegment does with one header.
LEMMA LoadOne ==
  ASSUME NEW r, NEW s, NEW w, DOMAIN r = LoadFields, w = LoadSegment(r, s, File)
  PROVE  LoadedOne(w, r, s)
<1>1. "mem" \in DOMAIN r /\ "panic" \in DOMAIN r /\ "i" \in DOMAIN r /\ "done" \in DOMAIN r
  BY DEF LoadFields
<1>2. CASE s.type # "LOAD"
  <2>1. w = r
    BY <1>2, Zenon DEF LoadSegment
  <2> QED
    BY <1>2, <2>1, Zenon DEF LoadedOne
<1>3. CASE s.type = "LOAD" /\ s.filesz > s.memsz
  <2>1. w = [r EXCEPT !.panic = TRUE]
    BY <1>3, Zenon DEF LoadSegment
  <2>2. DOMAIN w = DOMAIN r /\ w.i = r.i /\ w.done = r.done /\ w.panic = TRUE
    BY <1>1, <2>1, Zenon
  <2> QED
    BY <1>3, <2>2, Zenon DEF LoadedOne
<1>4. CASE s.type = "LOAD" /\ ~(s.filesz > s.memsz)
  <2>1. PICK m : m = region_alloc(r.mem, s.va, s.memsz)
    OBVIOUS
  <2>2. Mapped(m, r.mem, s)
    BY <2>1, Maps
  <2>3. PICK x : x = [a \in DOMAIN m |-> IF a \in Bytes(s) THEN Contents(s, File, a, m[a]) ELSE m[a]]
    OBVIOUS
  <2>4. CASE Bytes(s) \subseteq DOMAIN m
    <3>1. w = [r EXCEPT !.mem = x]
      BY <1>4, <2>1, <2>3, <2>4, Zenon DEF LoadSegment, Bytes
    <3>2. DOMAIN w = DOMAIN r /\ w.i = r.i /\ w.done = r.done /\ w.panic = r.panic /\ w.mem = x
      BY <1>1, <3>1, Zenon
    <3> QED
      BY <1>4, <2>2, <2>3, <2>4, <3>2, Zenon DEF LoadedOne
  <2>5. CASE ~(Bytes(s) \subseteq DOMAIN m)
    <3>1. w = [r EXCEPT !.panic = TRUE]
      BY <1>4, <2>1, <2>5, Zenon DEF LoadSegment, Bytes
    <3>2. DOMAIN w = DOMAIN r /\ w.i = r.i /\ w.done = r.done /\ w.panic = TRUE
      BY <1>1, <3>1, Zenon
    <3> QED
      BY <1>4, <2>2, <2>5, <3>2, Zenon DEF LoadedOne
  <2> QED
    BY <2>4, <2>5
<1> QED
  BY <1>2, <1>3, <1>4, Zenon

\* One more header is loaded, or blamed.
LEMMA LoadNext ==
  ASSUME LoadInv, load_icode_segment
  PROVE  LoadInv'
<1>1. PICK x, r, phs, i, t : x = arg /\ r = res /\ phs = arg.phs /\ i = res.i /\ t = res'
  OBVIOUS
<1>2. PICK s, w, B : s = phs[i] /\ w = LoadSegment(r, s, File) /\ B = Before(phs, i)
  OBVIOUS
<1>3. /\ fn = "load_icode" /\ fn' = "load_icode" /\ arg' = x /\ ~r.panic /\ ~r.done /\ i <= Len(phs)
      /\ t = [w EXCEPT !.i = @ + 1]
  BY <1>1, <1>2, Zenon DEF load_icode_segment, Loading
<1>4. /\ phs \in Programs /\ x.phs = phs /\ x.magic \in BOOLEAN /\ DOMAIN r = LoadFields
      /\ r.panic = FALSE /\ r.done = FALSE /\ i \in 1 .. Len(phs) + 1
      /\ Apart(phs) => x.magic = TRUE /\ LoadedBytes(r.mem, B)
  BY <1>1, <1>2, <1>3, Zenon DEF LoadInv
<1>5. /\ Len(phs) \in Nat /\ DOMAIN phs = 1 .. Len(phs)
      /\ \A j \in 1 .. Len(phs) : Placeable(phs[j]) /\ phs[j].filesz \in Int /\ phs[j].off \in Int
      /\ Segs(phs) = Before(phs, Len(phs) + 1)
  BY <1>4, ProgramFits
<1>6. /\ i \in Int /\ 1 <= i /\ i \in 1 .. Len(phs) /\ i + 1 \in 1 .. Len(phs) + 1
      /\ Placeable(s) /\ s.filesz \in Int /\ s.off \in Int
  BY <1>2, <1>3, <1>4, <1>5
<1>7. /\ DOMAIN w = LoadFields /\ w.i = r.i /\ w.done = r.done
      /\ s.type # "LOAD" => w = r
      /\ s.type = "LOAD" /\ s.filesz > s.memsz => w.panic = TRUE
      /\ s.type = "LOAD" /\ ~(s.filesz > s.memsz) =>
           \E m : /\ Mapped(m, r.mem, s)
                  /\ ~(Bytes(s) \subseteq DOMAIN m) => w.panic = TRUE
                  /\ Bytes(s) \subseteq DOMAIN m =>
                       /\ w.panic = r.panic
                       /\ w.mem = [a \in DOMAIN m |-> IF a \in Bytes(s) THEN Contents(s, File, a, m[a]) ELSE m[a]]
  <2>1. LoadedOne(w, r, s)
    BY <1>2, <1>4, LoadOne
  <2> QED
    BY <2>1, Zenon DEF LoadedOne
<1>8. "i" \in DOMAIN w /\ "mem" \in DOMAIN w /\ "panic" \in DOMAIN w /\ "done" \in DOMAIN w
  BY <1>7 DEF LoadFields
<1>9. DOMAIN t = LoadFields /\ t.i = i + 1 /\ t.done = FALSE /\ t.panic = w.panic /\ t.mem = w.mem
  BY <1>1, <1>3, <1>4, <1>7, <1>8, Zenon
<1>10. w.panic \in BOOLEAN
  BY <1>4, <1>7, Zenon
<1>11. ASSUME Apart(phs)
       PROVE  /\ w.panic = TRUE => Blamed(x, i + 1)
              /\ w.panic = FALSE => LoadedBytes(w.mem, Before(phs, i + 1))
  <2>1. LoadedBytes(r.mem, B)
    BY <1>4, <1>11
  <2>2. CASE s.type # "LOAD"
    <3>1. Before(phs, i + 1) = B /\ w = r
      BY <1>2, <1>6, <1>7, <2>2, BeforeNext
    <3> QED
      BY <1>4, <2>1, <3>1, Zenon
  <2>3. CASE s.type = "LOAD"
    <3>1. Before(phs, i + 1) = B \cup {s}
      BY <1>2, <1>6, <2>3, BeforeNext
    <3>2. Bad(s) => Blamed(x, i + 1)
      BY <1>4, <3>1 DEF Blamed
    <3>3. ApartFrom(s, B)
      <4>1. s \in Segs(phs)
        BY <1>2, <1>5, <1>6, <2>3 DEF Segs
      <4>2. B \subseteq Segs(phs)
        <5>1. 1 .. i - 1 \subseteq DOMAIN phs
          BY <1>5, <1>6
        <5> QED
          BY <1>2, <5>1 DEF Before, Segs
      <4> QED
        BY <1>11, <4>1, <4>2 DEF Apart, ApartFrom
    <3>4. CASE s.filesz > s.memsz
      <4>1. w.panic = TRUE
        BY <1>7, <2>3, <3>4, Zenon
      <4> QED
        BY <3>2, <3>4, <4>1, Zenon DEF Bad
    <3>5. CASE ~(s.filesz > s.memsz)
      <4>1. PICK m : /\ Mapped(m, r.mem, s)
                     /\ ~(Bytes(s) \subseteq DOMAIN m) => w.panic = TRUE
                     /\ Bytes(s) \subseteq DOMAIN m =>
                          /\ w.panic = r.panic
                          /\ w.mem = [a \in DOMAIN m |-> IF a \in Bytes(s) THEN Contents(s, File, a, m[a]) ELSE m[a]]
        BY <1>7, <2>3, <3>5, Zenon
      <4>2. CASE Straddles(s)
        <5>1. ~(Bytes(s) \subseteq DOMAIN m)
          BY <1>6, <2>1, <3>3, <4>1, <4>2, LostByte
        <5>2. w.panic = TRUE
          BY <4>1, <5>1, Zenon
        <5> QED
          BY <3>2, <4>2, <5>2, Zenon DEF Bad
      <4>3. CASE ~Straddles(s)
        <5>1. PICK y : y = [a \in DOMAIN m |-> IF a \in Bytes(s) THEN Contents(s, File, a, m[a]) ELSE m[a]]
          OBVIOUS
        <5>2. ~Bad(s)
          BY <3>5, <4>3, Zenon DEF Bad
        <5>3. Bytes(s) \subseteq DOMAIN m /\ LoadedBytes(y, B \cup {s})
          BY <1>6, <2>1, <3>3, <4>1, <5>1, <5>2, LoadsSegment
        <5>4. w.panic = FALSE /\ w.mem = y
          BY <1>4, <4>1, <5>1, <5>3, Zenon
        <5> QED
          BY <3>1, <5>3, <5>4, Zenon
      <4> QED
        BY <4>2, <4>3
    <3> QED
      BY <3>4, <3>5
  <2> QED
    BY <2>2, <2>3
<1> QED
  BY <1>1, <1>3, <1>4, <1>6, <1>9, <1>10, <1>11, Zenon DEF LoadInv

\* The page of the stack leaves the segments as they are.
LEMMA LoadStack ==
  ASSUME LoadInv, load_icode_stack
  PROVE  LoadInv'
<1>1. PICK x, r, phs, i, t : x = arg /\ r = res /\ phs = arg.phs /\ i = res.i /\ t = res'
  OBVIOUS
<1>2. PICK m, w, B : m = r.mem /\ w = region_alloc(m, ADDRMOD - PGSIZE, PGSIZE) /\ B = Before(phs, i)
  OBVIOUS
<1>3. /\ fn = "load_icode" /\ fn' = "load_icode" /\ arg' = x /\ ~r.panic /\ ~r.done /\ i > Len(phs)
      /\ t = [r EXCEPT !.mem = w, !.done = TRUE]
  BY <1>1, <1>2, Zenon DEF load_icode_stack, Loading
<1>4. /\ phs \in Programs /\ x.phs = phs /\ x.magic \in BOOLEAN /\ DOMAIN r = LoadFields
      /\ r.panic = FALSE /\ r.done = FALSE /\ i \in 1 .. Len(phs) + 1
      /\ Apart(phs) => x.magic = TRUE /\ LoadedBytes(m, B)
  BY <1>1, <1>2, <1>3, Zenon DEF LoadInv
<1>5. i = Len(phs) + 1
  BY <1>3, <1>4, ProgramFits
<1>6. "i" \in DOMAIN r /\ "mem" \in DOMAIN r /\ "panic" \in DOMAIN r /\ "done" \in DOMAIN r
  BY <1>4 DEF LoadFields
<1>7. DOMAIN t = LoadFields /\ t.i = i /\ t.done = TRUE /\ t.panic = FALSE /\ t.mem = w
  BY <1>1, <1>3, <1>4, <1>6, Zenon
<1>8. ASSUME Apart(phs), NEW u \in B PROVE Placeable(u) /\ ~Bad(u) /\ Good(w, u)
  <2>1. Placeable(u) /\ ~Bad(u) /\ Good(m, u)
    BY <1>4, <1>8 DEF LoadedBytes
  <2> QED
    BY <1>2, <2>1, StackApart
<1> QED
  BY <1>1, <1>2, <1>3, <1>4, <1>5, <1>7, <1>8, ZenonT(60) DEF LoadInv

\* At the end: the panic has a reason, or every segment is in place.
LEMMA LoadEnd ==
  ASSUME LoadInv
  PROVE  LoadedOrPanic
<1> SUFFICES ASSUME fn = "load_icode", res.panic \/ res.done, Apart(arg.phs)
             PROVE  /\ Malformed(arg) => res.panic
                    /\ res.panic => Malformed(arg) \/ \E s \in Segs(arg.phs) : Straddles(s)
                    /\ ~res.panic => \A s \in Segs(arg.phs) : \A k \in 0 .. s.memsz - 1 :
                                       res.mem[s.va + k] = IF k < s.filesz THEN File[s.off + k] ELSE 0
  BY DEF LoadedOrPanic
<1>1. PICK x, r, phs, i : x = arg /\ r = res /\ phs = arg.phs /\ i = res.i
  OBVIOUS
<1>2. /\ phs \in Programs /\ x.phs = phs /\ x.magic \in BOOLEAN /\ i \in 1 .. Len(phs) + 1
      /\ r.panic = TRUE \/ r.panic = FALSE
      /\ r.panic = TRUE => Blamed(x, i)
      /\ r.panic = FALSE => /\ r.done = TRUE /\ x.magic = TRUE /\ i = Len(phs) + 1
                            /\ \A u \in Before(phs, i) : ~Bad(u) /\ Good(r.mem, u)
  BY <1>1, Zenon DEF LoadInv
<1>3. Segs(phs) = Before(phs, Len(phs) + 1) /\ Len(phs) \in Nat
  BY <1>2, ProgramFits
<1>4. Before(phs, i) \subseteq Segs(phs)
  <2>1. 1 .. i - 1 \subseteq 1 .. Len(phs) + 1 - 1
    BY <1>2, <1>3
  <2> QED
    BY <1>3, <2>1 DEF Before
<1>5. CASE r.panic = TRUE
  <2>1. ~x.magic \/ \E s \in Segs(phs) : Bad(s)
    BY <1>2, <1>4, <1>5, Zenon DEF Blamed
  <2> QED
    BY <1>1, <1>5, <2>1, Zenon DEF Bad, Malformed
<1>6. CASE r.panic = FALSE
  <2>1. x.magic = TRUE /\ \A s \in Segs(phs) : ~Bad(s) /\ Good(r.mem, s)
    BY <1>2, <1>3, <1>6, Zenon
  <2> QED
    BY <1>1, <1>6, <2>1, Zenon DEF Bad, Good, Malformed
<1> QED
  BY <1>2, <1>5, <1>6

-----------------------------------------------------------------------------
(***************************************************************************)
(* The theorems                                                            *)
(***************************************************************************)
\* The invariant that is inductive: what each loop has done so far.
LoopInv == EchoInv /\ RunInv /\ CheckInv /\ LoadInv /\ BootInv

\* No loop runs at first.
LEMMA LoopInvInit ==
  ASSUME LoopInit
  PROVE  LoopInv
  BY DEF LoopInit, LoopInv, EchoInv, RunInv, CheckInv, LoadInv, BootInv

\* A step that is of another routine.
LEMMA Elsewhere ==
  /\ fn' # "readline" => EchoInv'
  /\ fn' # "runcmd" => RunInv'
  /\ fn' # "user_mem_check" => CheckInv'
  /\ fn' # "load_icode" => LoadInv'
  /\ fn' # "bootmain" => BootInv'
  BY DEF EchoInv, RunInv, CheckInv, LoadInv, BootInv

\* Every turn of a loop keeps its part; the other parts are about loops that do not run.
LEMMA LoopInvStep ==
  ASSUME LoopInv, [LoopStep \/ Other]_vars
  PROVE  LoopInv'
<1>1. CASE readline \/ readline_key
  <2>1. fn' = "readline"
    BY <1>1 DEF readline, readline_key, Called
  <2> QED
    BY <1>1, <2>1, EchoStart, EchoKey, Elsewhere DEF LoopInv
<1>2. CASE runcmd \/ runcmd_char
  <2>1. fn' = "runcmd"
    BY <1>2 DEF runcmd, runcmd_char, Called
  <2> QED
    BY <1>2, <2>1, RunStart, RunNext, Elsewhere DEF LoopInv
<1>3. CASE user_mem_check \/ user_mem_check_page
  <2>1. fn' = "user_mem_check"
    BY <1>3 DEF user_mem_check, user_mem_check_page, Called
  <2> QED
    BY <1>3, <2>1, CheckStart, CheckNext, Elsewhere DEF LoopInv
<1>4. CASE load_icode \/ load_icode_segment \/ load_icode_stack
  <2>1. fn' = "load_icode"
    BY <1>4 DEF load_icode, load_icode_segment, load_icode_stack, Loading, Called
  <2> QED
    BY <1>4, <2>1, LoadStart, LoadNext, LoadStack, Elsewhere DEF LoopInv
<1>5. CASE bootmain \/ bootmain_segment
  <2>1. fn' = "bootmain"
    BY <1>5 DEF bootmain, bootmain_segment, Called
  <2> QED
    BY <1>5, <2>1, BootStart, BootNext, Elsewhere DEF LoopInv
<1>6. CASE Other
  BY <1>6, Elsewhere DEF LoopInv, Other, LoopRoutines
<1>7. CASE UNCHANGED vars
  BY <1>7 DEF vars, LoopInv, EchoInv, RunInv, CheckInv, LoadInv, BootInv
<1> QED
  BY <1>1, <1>2, <1>3, <1>4, <1>5, <1>6, <1>7 DEF LoopStep

\* The invariant of the five loops holds of every run, whatever other routines do between them.
THEOREM LoopsInductive == LoopSpec => []LoopInv
<1>1. LoopInit => LoopInv
  BY LoopInvInit
<1>2. LoopInv /\ [LoopStep \/ Other]_vars => LoopInv'
  BY LoopInvStep
<1> QED
  BY <1>1, <1>2, PTL DEF LoopSpec

\* What is on the screen is the line, for every size of screen and buffer.
THEOREM ReadlineEchoes == LoopSpec => []EchoShowsLine
<1>1. LoopInv => EchoShowsLine
  <2> SUFFICES ASSUME EchoInv, fn = "readline" PROVE EchoShowsLine
    BY DEF LoopInv, EchoShowsLine
  <2>1. PICK t, b : t = res.crt /\ b = res.buf
    OBVIOUS
  <2>2. b \in Seq(Int) /\ Len(b) < BUFLEN /\ Screen(t) /\ (res.done = FALSE => Shows(t, b))
    BY <2>1 DEF EchoInv
  <2>3. DOMAIN b = 1 .. Len(b)
    BY <2>2
  <2>4. ~res.done => res.done = FALSE
    BY DEF EchoInv
  <2> QED
    BY <2>1, <2>2, <2>3, <2>4 DEF EchoShowsLine, Screen, Shows
<1> QED
  BY <1>1, LoopsInductive, PTL

\* The words of a command line are the arguments, for every line.
THEOREM RuncmdParses == LoopSpec => []RuncmdWords
<1>1. LoopInv => RuncmdWords
  BY RunEnd DEF LoopInv
<1> QED
  BY <1>1, LoopsInductive, PTL

\* No page of a range escapes the check, for every page size, range and page table.
THEOREM UserMemChecked == LoopSpec => []EveryPageChecked
<1>1. LoopInv => EveryPageChecked
  <2> SUFFICES ASSUME CheckInv, fn = "user_mem_check", res.ret # "run", arg.len > 0,
                      arg.va + arg.len <= ADDRMOD - PGSIZE
               PROVE  res.ret = "ok" <=> Everything(arg)
    BY DEF LoopInv, EveryPageChecked, Everything, Allowed
  <2>1. Plain(arg)
    BY PageSizes DEF CheckInv, Plain
  <2> QED
    BY <2>1 DEF CheckInv
<1> QED
  BY <1>1, LoopsInductive, PTL

\* A program's and the kernel's segments are where they belong, for every program and
\* every order of the kernel's segments.
THEOREM LoadersExact == LoopSpec => []SegmentsLoaded
<1>1. LoopInv => SegmentsLoaded
  BY LoadEnd, BootEnd DEF LoopInv, SegmentsLoaded
<1> QED
  BY <1>1, LoopsInductive, PTL

=============================================================================
