----------------------------- MODULE InputQueue -----------------------------
(***************************************************************************)
(* What the console's input buffer promises: characters come out once and  *)
(* in the order they came in.  It holds Max of them; one more and all of   *)
(* them are gone.                                                          *)
(***************************************************************************)
EXTENDS Naturals, Sequences

CONSTANTS Max, Chars, None

VARIABLES q,     \* characters waiting
          got    \* what the last call returned, 0 for none; None during a call

vars == <<q, got>>

Init == q = <<>> /\ got = 0

Call == got' = None /\ UNCHANGED q

Arrive ==
  /\ got = None
  /\ \E c \in Chars : q' = IF Len(q) = Max THEN <<>> ELSE Append(q, c)
  /\ UNCHANGED got

Take  == got = None /\ q # <<>> /\ got' = Head(q) /\ q' = Tail(q)
Empty == got = None /\ q = <<>> /\ got' = 0 /\ UNCHANGED q

Next == Call \/ Arrive \/ Take \/ Empty

Spec == Init /\ [][Next]_vars

=============================================================================
