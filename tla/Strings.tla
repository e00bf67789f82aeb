------------------------------ MODULE Strings -------------------------------
(***************************************************************************)
(* lib/string.c.  Memory is a function from addresses to bytes, a pointer  *)
(* an address, and a routine that stores returns the new memory.           *)
(***************************************************************************)
EXTENDS Integers, Sequences, FiniteSets, FiniteSetsExt

CONSTANT LONGMOD    \* values of a long, 2^32

ASSUME LongAssumption == LONGMOD \in Nat /\ LONGMOD % 2 = 0 /\ LONGMOD > 0

\* A number as the machine keeps it in a signed word.
Signed(v) == ((v + LONGMOD \div 2) % LONGMOD) - LONGMOD \div 2

\* The first address from a on where P holds.
First(m, a, P(_)) == Min({x \in DOMAIN m : x >= a /\ P(x)})

(***************************************************************************)
(* Strings                                                                 *)
(***************************************************************************)
strlen(m, s) == First(m, s, LAMBDA x : m[x] = 0) - s

strnlen(m, s, size) == Min({size, strlen(m, s)})

RECURSIVE strcpy(_, _, _)
strcpy(m, dst, src) ==
  LET n == [m EXCEPT ![dst] = m[src]]
  IN  IF m[src] = 0 THEN n ELSE strcpy(n, dst + 1, src + 1)

strcat(m, dst, src) == strcpy(m, dst + strlen(m, dst), src)

RECURSIVE strncpy(_, _, _, _)
strncpy(m, dst, src, size) ==
  IF size = 0 THEN m
  ELSE strncpy([m EXCEPT ![dst] = m[src]], dst + 1, IF m[src] = 0 THEN src ELSE src + 1, size - 1)

\* Characters that fit: the loop's --size > 0.
StrlcpyRoom(size) == size - 1

RECURSIVE StrlcpyLoop(_, _, _, _)
StrlcpyLoop(m, dst, src, room) ==
  IF room = 0 \/ m[src] = 0 THEN [m EXCEPT ![dst] = 0]
  ELSE StrlcpyLoop([m EXCEPT ![dst] = m[src]], dst + 1, src + 1, room - 1)

\* The memory, and the number of characters copied.
strlcpy(m, dst, src, size) ==
  IF size = 0 THEN [m |-> m, n |-> 0]
  ELSE LET r == StrlcpyLoop(m, dst, src, StrlcpyRoom(size))
       IN  [m |-> r, n |-> strlen(r, dst)]

\* (unsigned char) *p - (unsigned char) *q
ByteDiff(a, b) == a - b

strcmp(m, p, q) ==
  LET x == First(m, p, LAMBDA a : m[a] = 0 \/ m[a] # m[q + a - p])
  IN  ByteDiff(m[x], m[q + x - p])

strncmp(m, p, q, n) ==
  LET x == First(m, p, LAMBDA a : a = p + n \/ m[a] = 0 \/ m[a] # m[q + a - p])
  IN  IF x = p + n THEN 0 ELSE ByteDiff(m[x], m[q + x - p])

strfind(m, s, c) == First(m, s, LAMBDA a : m[a] \in {0, c})

\* 0 is the null pointer.
strchr(m, s, c) == LET a == strfind(m, s, c) IN IF m[a] = 0 THEN 0 ELSE a

(***************************************************************************)
(* Blocks of memory                                                        *)
(***************************************************************************)
\* rep stosl or stosb: cnt stores of w bytes.
RepStos(m, d, cnt, w, c) == [a \in DOMAIN m |-> IF a \in d .. d + cnt * w - 1 THEN c ELSE m[a]]

memset(m, v, c, n) ==
  IF v % 4 = 0 /\ n % 4 = 0 THEN RepStos(m, v, n \div 4, 4, c % 256)
                            ELSE RepStos(m, v, n, 1, c % 256)

\* rep movsl or movsb: cnt moves of w bytes, upwards or (std) downwards.
RECURSIVE RepMovs(_, _, _, _, _, _)
RepMovs(m, d, s, cnt, w, dir) ==
  IF cnt = 0 THEN m
  ELSE RepMovs([a \in DOMAIN m |-> IF a \in d .. d + w - 1 THEN m[s + a - d] ELSE m[a]],
               d + dir * w, s + dir * w, cnt - 1, w, dir)

\* Mutant: an overlap counts only when the blocks start together.
Overlaps_equal(s, d, n) == s = d

Overlaps(s, d, n) == s < d /\ s + n > d

memmove(m, dst, src, n) ==
  LET words(s, d) == s % 4 = 0 /\ d % 4 = 0 /\ n % 4 = 0
  IN  IF Overlaps(src, dst, n)
      THEN IF words(src + n, dst + n)
           THEN RepMovs(m, dst + n - 4, src + n - 4, n \div 4, 4, -1)
           ELSE RepMovs(m, dst + n - 1, src + n - 1, n, 1, -1)
      ELSE IF words(src, dst)
           THEN RepMovs(m, dst, src, n \div 4, 4, 1)
           ELSE RepMovs(m, dst, src, n, 1, 1)

memcmp(m, v1, v2, n) ==
  LET diff == {k \in 0..n-1 : m[v1 + k] # m[v2 + k]}
  IN  IF diff = {} THEN 0 ELSE ByteDiff(m[v1 + Min(diff)], m[v2 + Min(diff)])

memfind(m, s, c, n) == Min({a \in s .. s + n - 1 : m[a] = c % 256} \cup {s + n})

(***************************************************************************)
(* Numbers                                                                 *)
(***************************************************************************)
DigitOf(c) ==
  CASE c \in 48..57 -> c - 48 [] c \in 97..122 -> c - 87 [] c \in 65..90 -> c - 55 [] OTHER -> 99

RECURSIVE Digits(_, _, _, _)
Digits(m, s, base, val) ==
  IF DigitOf(m[s]) >= base THEN [val |-> val, end |-> s]
  ELSE Digits(m, s + 1, base, Signed(val * base + DigitOf(m[s])))

Negate(neg, v) == IF neg THEN Signed(-v) ELSE v

\* The value and the address after the last digit.
strtol(m, s, base) ==
  LET sign == First(m, s, LAMBDA a : m[a] \notin {32, 9})
      num  == IF m[sign] \in {43, 45} THEN sign + 1 ELSE sign
      hex  == base \in {0, 16} /\ m[num] = 48 /\ m[num + 1] = 120
      b    == CASE hex -> 16 [] ~hex /\ base = 0 /\ m[num] = 48 -> 8
                [] ~hex /\ base = 0 /\ m[num] # 48 -> 10 [] OTHER -> base
      d    == IF hex THEN num + 2 ELSE IF base = 0 /\ b = 8 THEN num + 1 ELSE num
      r    == Digits(m, d, b, 0)
  IN  [val |-> Negate(m[sign] = 45, r.val), end |-> r.end]

=============================================================================
