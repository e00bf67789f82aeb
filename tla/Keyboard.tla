------------------------------ MODULE Keyboard ------------------------------
(***************************************************************************)
(* The keyboard driver of kern/console.c: scan codes to characters.  The   *)
(* static variable shift is a set of its flags; a character is its code.   *)
(***************************************************************************)
EXTENDS Naturals, Sequences

KEY_HOME == 224
KEY_END  == 225
KEY_UP   == 226
KEY_DN   == 227
KEY_LF   == 228
KEY_RT   == 229
KEY_PGUP == 230
KEY_PGDN == 231
KEY_INS  == 232
KEY_DEL  == 233

Codes == 0..255
E0    == 224
Flags == {"SHIFT", "CTL", "ALT", "CAPSLOCK", "NUMLOCK", "SCROLLLOCK", "E0ESC"}

shiftcode(d) ==
  CASE d \in {29, 157} -> {"CTL"}
    [] d \in {42, 54}  -> {"SHIFT"}
    [] d \in {56, 184} -> {"ALT"}
    [] OTHER -> {}

togglecode(d) ==
  CASE d = 58 -> {"CAPSLOCK"} [] d = 69 -> {"NUMLOCK"} [] d = 70 -> {"SCROLLLOCK"}
    [] OTHER -> {}

\* A table of characters from its first rows and its designated entries.
Table(rows, keys) ==
  [d \in Codes |-> IF d \in DOMAIN keys THEN keys[d]
                   ELSE IF d < Len(rows) THEN rows[d + 1] ELSE 0]

\* The keypad and the cursor keys, at their codes with 128 added.
Cursor == [d \in {200, 201, 203, 205, 207, 208, 209, 210, 211} |->
  CASE d = 200 -> KEY_UP   [] d = 201 -> KEY_PGUP [] d = 203 -> KEY_LF
    [] d = 205 -> KEY_RT   [] d = 207 -> KEY_END  [] d = 208 -> KEY_DN
    [] d = 209 -> KEY_PGDN [] d = 210 -> KEY_INS  [] d = 211 -> KEY_DEL]
Keypad == [d \in {199, 156, 181} |-> IF d = 199 THEN KEY_HOME ELSE IF d = 156 THEN 10 ELSE 47]
Extended == [d \in DOMAIN Cursor \cup DOMAIN Keypad |->
               IF d \in DOMAIN Cursor THEN Cursor[d] ELSE Keypad[d]]

normalmap == Table(
  << 0, 27, 49, 50, 51, 52, 53, 54, 55, 56, 57, 48, 45, 61, 8, 9,
     113, 119, 101, 114, 116, 121, 117, 105, 111, 112, 91, 93, 10, 0, 97, 115,
     100, 102, 103, 104, 106, 107, 108, 59, 39, 96, 0, 92, 122, 120, 99, 118,
     98, 110, 109, 44, 46, 47, 0, 42, 0, 32, 0, 0, 0, 0, 0, 0,
     0, 0, 0, 0, 0, 0, 0, 55, 56, 57, 45, 52, 53, 54, 43, 49,
     50, 51, 48, 46 >>, Extended)

shiftmap == Table(
  << 0, 27, 33, 64, 35, 36, 37, 94, 38, 42, 40, 41, 95, 43, 8, 9,
     81, 87, 69, 82, 84, 89, 85, 73, 79, 80, 123, 125, 10, 0, 65, 83,
     68, 70, 71, 72, 74, 75, 76, 58, 34, 126, 0, 124, 90, 88, 67, 86,
     66, 78, 77, 60, 62, 63, 0, 42, 0, 32, 0, 0, 0, 0, 0, 0,
     0, 0, 0, 0, 0, 0, 0, 55, 56, 57, 45, 52, 53, 54, 43, 49,
     50, 51, 48, 46 >>, Extended)

\* C('/') is a negative number, 239 in a byte.  The home key is at 0x97.
ctlmap == Table(
  << 0, 0, 0, 0, 0, 0, 0, 0, 0, 0, 0, 0, 0, 0, 0, 0,
     17, 23, 5, 18, 20, 25, 21, 9, 15, 16, 0, 0, 13, 0, 1, 19,
     4, 6, 7, 8, 10, 11, 12, 0, 0, 0, 0, 28, 26, 24, 3, 22,
     2, 14, 13, 0, 0, 239 >>,
  [d \in DOMAIN Cursor \cup {151, 181} |->
     IF d \in DOMAIN Cursor THEN Cursor[d] ELSE IF d = 151 THEN KEY_HOME ELSE 239])

charcode(shift) ==
  IF "CTL" \in shift THEN ctlmap ELSE IF "SHIFT" \in shift THEN shiftmap ELSE normalmap

Toggle(shift, f) == (shift \ f) \cup (f \ shift)

\* Mutant: only lower-case letters change.
CapsLock_upper(c) == IF c \in 97..122 THEN c - 32 ELSE c

CapsLock(c) == IF c \in 97..122 THEN c - 32 ELSE IF c \in 65..90 THEN c + 32 ELSE c

\* Mutant: the bit of a release is never cleared.
Released_whole(data, shift) == data

\* The index of a released key in shiftcode.
Released(data, shift) == IF "E0ESC" \in shift THEN data ELSE data % 128

\* One code: the new flags, the character (0 when there is none), and whether the
\* machine is told to reboot.
kbd_proc_data(data, shift) ==
  IF data = E0 THEN [shift |-> shift \cup {"E0ESC"}, c |-> 0, reboot |-> FALSE]
  ELSE IF data >= 128
  THEN [shift |-> shift \ (shiftcode(Released(data, shift)) \cup {"E0ESC"}), c |-> 0,
        reboot |-> FALSE]
  ELSE LET d  == IF "E0ESC" \in shift THEN data + 128 ELSE data
           s  == Toggle((shift \ {"E0ESC"}) \cup shiftcode(d), togglecode(d))
           c  == charcode(s)[d]
       IN  [shift |-> s, c |-> IF "CAPSLOCK" \in s THEN CapsLock(c) ELSE c,
            reboot |-> {"CTL", "ALT"} \subseteq s /\ c = KEY_DEL]

=============================================================================
