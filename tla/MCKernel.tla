------------------------------ MODULE MCKernel ------------------------------
(* Instances of Kernel for TLC; the other constants are in the cfg files.  *)
EXTENDS Kernel

\* One table of two pages: the stack below the exception stack.
MCUSTACK1 == <<0, 0>>
\* Three tables of one page: page 0, the stack, the exception stack.
MCUSTACK3 == <<1, 0>>

=============================================================================
