------------------------------ MODULE Terminal ------------------------------
(***************************************************************************)
(* The screen of kern/console.c, the line editor lib/readline.c that       *)
(* echoes on it and the command parser of kern/monitor.c.  A cell holds a  *)
(* character; attributes are left out.                                     *)
(***************************************************************************)
EXTENDS Integers, Sequences, SequencesExt

CONSTANTS CRT_COLS, CRT_SIZE,   \* columns and cells of the screen
          BUFLEN,               \* readline's buffer
          MAXARGS               \* runcmd's argv

ASSUME TerminalAssumption ==
  /\ CRT_COLS \in Nat \ {0} /\ CRT_SIZE \in Nat /\ CRT_SIZE >= 2 * CRT_COLS
  /\ CRT_SIZE % CRT_COLS = 0
  /\ BUFLEN \in Nat \ {0} /\ BUFLEN <= CRT_SIZE - CRT_COLS + 1
  /\ MAXARGS \in Nat \ {0}

BS == 8
TAB == 9
LF == 10
CR == 13
SP == 32
DEL == 127

(***************************************************************************)
(* The screen: its cells and crt_pos                                       *)
(***************************************************************************)
\* cga_init takes the cursor from the hardware; the cells are what the BIOS left.
cga_init(pos) == [cells |-> [i \in 0 .. CRT_SIZE-1 |-> SP], pos |-> pos]

\* Mutant: the cursor moves up, the text does not.
Scroll_cursor(t) == [t EXCEPT !.pos = @ - CRT_COLS]

\* When the cursor has left the screen, everything moves up a line.
Scroll(t) ==
  [cells |-> [i \in 0 .. CRT_SIZE-1 |-> IF i < CRT_SIZE - CRT_COLS THEN t.cells[i + CRT_COLS] ELSE SP],
   pos |-> t.pos - CRT_COLS]

\* Every character but a tab, which is five spaces.
PutOne(t, c) ==
  LET u == CASE c = BS -> IF t.pos > 0
                          THEN [cells |-> [t.cells EXCEPT ![t.pos - 1] = SP], pos |-> t.pos - 1]
                          ELSE t
             [] c = LF -> [t EXCEPT !.pos = @ + CRT_COLS - (@ % CRT_COLS)]
             [] c = CR -> [t EXCEPT !.pos = @ - (@ % CRT_COLS)]
             [] OTHER -> [cells |-> [t.cells EXCEPT ![t.pos] = c], pos |-> t.pos + 1]
  IN  IF u.pos >= CRT_SIZE THEN Scroll(u) ELSE u

cga_putc(t, c) == IF c = TAB THEN FoldLeft(PutOne, t, <<SP, SP, SP, SP, SP>>) ELSE PutOne(t, c)

(***************************************************************************)
(* readline: the line so far and the screen                                *)
(***************************************************************************)
Erase(r) == [buf |-> Front(r.buf), crt |-> cga_putc(r.crt, BS), done |-> FALSE]

\* One turn of the loop.
ReadChar(r, c) ==
  IF c \in {BS, DEL} /\ r.buf # <<>> THEN Erase(r)
  ELSE IF c >= SP /\ Len(r.buf) < BUFLEN - 1
  THEN [buf |-> Append(r.buf, c), crt |-> cga_putc(r.crt, c), done |-> FALSE]
  ELSE IF c \in {LF, CR} THEN [r EXCEPT !.crt = cga_putc(@, LF), !.done = TRUE]
  ELSE r

(***************************************************************************)
(* runcmd                                                                  *)
(***************************************************************************)
WHITESPACE == {TAB, CR, LF, SP}

\* Mutant: the space after an argument stays in it.
Gobble_keep(a) == [a EXCEPT !.i = @ + 1, !.inarg = FALSE]

Gobble(a) == [a EXCEPT !.i = @ + 1, !.buf[a.i] = 0, !.inarg = FALSE]

\* The scan of one character, from between arguments or in one: the buffer with
\* spaces zeroed and the starts of the arguments.
ScanChar(a, c) ==
  IF c \in WHITESPACE THEN Gobble(a)
  ELSE IF a.inarg THEN [a EXCEPT !.i = @ + 1]
  ELSE IF Len(a.argv) = MAXARGS - 1 THEN [a EXCEPT !.toomany = TRUE]
  ELSE [a EXCEPT !.i = @ + 1, !.argv = Append(@, a.i), !.inarg = TRUE]

=============================================================================
