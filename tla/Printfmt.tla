------------------------------ MODULE Printfmt ------------------------------
(***************************************************************************)
(* lib/printfmt.c and the output of lib/printf.c.  A format is a sequence  *)
(* of character codes that ends in 0; what it prints is a sequence of      *)
(* characters.  Arguments are numbers, sequences of characters or NULL;    *)
(* an error message is one symbol.                                         *)
(***************************************************************************)
EXTENDS Integers, Sequences, SequencesExt

CONSTANTS UINTMOD,     \* values of an unsigned int, 2^32
          PRINTBUF,    \* size of printbuf.buf, 256
          NULL

MAXERROR == 10
COLOR_RED == 4
COLOR_GRN == 2

\* E_NO_SYS, 7, has no message.
error_string(n) == IF n \in (1 .. MAXERROR-1) \ {7} THEN <<1000 + n>> ELSE NULL
Null_text == <<40, 110, 117, 108, 108, 41>>
Percent == 37
Overrun == <<-1>>     \* the scan has left the format string

Pad(n, c) == IF n > 0 THEN [i \in 1..n |-> c] ELSE <<>>
Digit(d) == IF d < 10 THEN 48 + d ELSE 87 + d

MoreDigits(num, base) == num >= base

RECURSIVE printnum(_, _, _, _)
printnum(num, base, width, padc) ==
  (IF MoreDigits(num, base) THEN printnum(num \div base, base, width - 1, padc)
                            ELSE Pad(width - 1, padc))
    \o <<Digit(num % base)>>

\* An argument as an unsigned number; a long has the width of an int.
getuint(v, lflag) == v % (IF lflag >= 2 THEN UINTMOD * UINTMOD ELSE UINTMOD)

\* A byte read as a char, which is signed; and what a char keeps of an int.
CharOf(b) == IF b < 128 THEN b ELSE b - 256
Byte(c) == c % 256

\* %s: pad on the left, unless padc is '-'; at most precision characters; pad on
\* the right what is left of the width.
PrintString(p, sp) ==
  LET shown == IF sp.precision < 0 \/ sp.precision > Len(p) THEN p ELSE SubSeq(p, 1, sp.precision)
      left  == IF sp.width > 0 /\ sp.padc # 45 THEN sp.width - Len(shown) ELSE 0
      right == IF sp.width > 0 /\ sp.padc # 45 THEN 0 ELSE sp.width - Len(shown)
  IN  Pad(left, sp.padc)
        \o [i \in DOMAIN shown |-> IF sp.altflag /\ shown[i] \notin 32..126 THEN 63 ELSE CharOf(shown[i])]
        \o Pad(right, 32)

\* The attribute that %C adds to the next %c.
Color(v) == IF v \in {COLOR_RED, COLOR_GRN} THEN 256 * v ELSE 0

NoSpec == [padc |-> 32, width |-> -1, precision |-> -1, lflag |-> 0, altflag |-> FALSE]

Precision(sp, n) == IF sp.width < 0 THEN [sp EXCEPT !.width = n, !.precision = -1]
                                    ELSE [sp EXCEPT !.precision = n]

\* Mutant: an unknown escape is skipped.
Rewind_not(f, i) == i + 1

\* After an unknown escape: back to the character after its '%'.
Rewind(f, i) == 1 + CHOOSE k \in 1 .. i-1 : f[k] = Percent /\ \A j \in k+1 .. i-1 : f[j] # Percent

RECURSIVE Scan(_, _, _, _), Escape(_, _, _, _, _), Width(_, _, _)

\* The decimal number at f[i]: its value and the position after it.
Width(f, i, n) ==
  IF f[i] \in 48..57 THEN Width(f, i + 1, 10 * n + f[i] - 48) ELSE [n |-> n, i |-> i]

\* The outer loop of vprintfmt, from position i with the arguments ap.
Scan(f, i, ap, color) ==
  IF i > Len(f) THEN Overrun
  ELSE CASE f[i] = 0 -> <<>>
         [] f[i] = Percent -> Escape(f, i + 1, ap, color, NoSpec)
         [] OTHER -> <<f[i]>> \o Scan(f, i + 1, ap, color)

\* The switch of vprintfmt on f[i].
Escape(f, i, ap, color, sp) ==
  LET ch == f[i]
      next(text) == text \o Scan(f, i + 1, Tail(ap), color)
      number(n, base) == printnum(n, base, sp.width, sp.padc)
  IN  CASE ch \in {45, 48} -> Escape(f, i + 1, ap, color, [sp EXCEPT !.padc = ch])
        [] ch \in 49..57 -> LET w == Width(f, i, 0) IN Escape(f, w.i, ap, color, Precision(sp, w.n))
        [] ch = 42 -> Escape(f, i + 1, Tail(ap), color, Precision(sp, Head(ap)))
        [] ch = 46 -> Escape(f, i + 1, ap, color,
                             [sp EXCEPT !.width = IF @ < 0 THEN 0 ELSE @])
        [] ch = 35 -> Escape(f, i + 1, ap, color, [sp EXCEPT !.altflag = TRUE])
        [] ch = 108 -> Escape(f, i + 1, ap, color, [sp EXCEPT !.lflag = @ + 1])  \* l
        [] ch = 99 -> <<Head(ap) + color>> \o Scan(f, i + 1, Tail(ap), 0)      \* c
        [] ch = 67 -> Escape(f, i + 1, Tail(ap), Color(Head(ap)), sp)          \* C
        [] ch = 101 -> LET e == IF Head(ap) < 0 THEN -Head(ap) ELSE Head(ap)   \* e
                       IN  next(IF error_string(e) # NULL THEN error_string(e)
                                ELSE <<1000>> \o printnum(e, 10, -1, 32))
        [] ch = 115 -> next(PrintString(IF Head(ap) = NULL THEN Null_text ELSE Head(ap), sp))
        [] ch = 100 -> next(IF Head(ap) < 0 THEN <<45>> \o number(-Head(ap), 10)
                                            ELSE number(Head(ap), 10))         \* d
        [] ch = 117 -> next(number(getuint(Head(ap), sp.lflag), 10))           \* u
        [] ch = 111 -> next(number(getuint(Head(ap), sp.lflag), 8))            \* o
        [] ch = 112 -> next(<<48, 120>> \o number(getuint(Head(ap), 0), 16))   \* p
        [] ch = 120 -> next(number(getuint(Head(ap), sp.lflag), 16))           \* x
        [] ch = Percent -> <<Percent>> \o Scan(f, i + 1, ap, color)
        [] OTHER -> <<Percent>> \o Scan(f, Rewind(f, i), ap, color)

vprintfmt(f, ap) == Scan(f, 1, ap, 0)

(***************************************************************************)
(* Where the characters go                                                 *)
(***************************************************************************)
\* The index of ebuf: characters are stored below it.
Ebuf(n) == n - 1

\* sprintputch: every character counts, those before ebuf are stored.
sprintputch(b, ch) ==
  [buf |-> IF Len(b.buf) < b.ebuf THEN Append(b.buf, Byte(ch)) ELSE b.buf,
   ebuf |-> b.ebuf, cnt |-> b.cnt + 1]

\* The bytes stored in a buffer of n bytes, and the result; NULL for -E_INVAL.
vsnprintf(n, text) ==
  IF n < 1 THEN [buf |-> <<>>, cnt |-> NULL]
  ELSE LET b == FoldLeft(sprintputch, [buf |-> <<>>, ebuf |-> Ebuf(n), cnt |-> 0], text)
       IN  [buf |-> Append(b.buf, 0), cnt |-> b.cnt]

\* putch of lib/printf.c: sent is the sys_cputs calls made.
putch(b, ch) ==
  LET buf == Append(b.buf, Byte(ch))
  IN  IF Len(buf) = PRINTBUF - 1 THEN [b EXCEPT !.buf = <<>>, !.sent = Append(@, buf)]
      ELSE [b EXCEPT !.buf = buf]

\* The system calls of one cprintf.
vcprintf(text) ==
  LET b == FoldLeft(putch, [buf |-> <<>>, sent |-> <<>>], text)
  IN  Append(b.sent, b.buf)

=============================================================================
