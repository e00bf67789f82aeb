\* The exception stack holds two nested frames and their handlers; the third overflows.
CONSTANTS
  UWORDS = 3
  XWORDS = 40
  HWORDS = 2
  StackFirst = TRUE
SPECIFICATION Spec
INVARIANTS TrapframeExact UpcallInv
PROPERTIES ReturnExact
