------------------------------ MODULE MCUpcall ------------------------------
(* The instance is in the cfg files.                                       *)
EXTENDS Upcall

=============================================================================
