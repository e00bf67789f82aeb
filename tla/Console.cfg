\* A ring of three, filled by keys and by carriage returns and zeros of the serial port.
CONSTANTS
  CONSBUFSIZE = 3
  Keys <- MCKeys
  SerialBytes = {0, 13}
  KBDFIFO = 3
  None = none
SPECIFICATION Spec
INVARIANTS ConsoleInv
PROPERTIES InputInOrder
