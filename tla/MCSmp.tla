------------------------------- MODULE MCSmp --------------------------------
(* Tables of an instance with room for three processors.                   *)
EXTENDS Smp

MCTables == { <<"boot", "bus", "proc", "proc", "proc">>, <<"proc", "boot">>,
              <<"boot", "proc", "unknown", "proc">>, <<"proc", "unknown", "boot">> }

=============================================================================
