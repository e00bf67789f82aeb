----------------------------- MODULE MCConsole ------------------------------
(* A keyboard with Shift, both Ctrl keys, an extended Alt and Del.         *)
EXTENDS Console

MCKeys == {[ext |-> FALSE, code |-> 42],
           [ext |-> FALSE, code |-> 29], [ext |-> TRUE, code |-> 29],
           [ext |-> TRUE, code |-> 56], [ext |-> TRUE, code |-> 83]}

=============================================================================
