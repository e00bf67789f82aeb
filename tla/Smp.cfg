\* Room for three processors, and a table that lists four.
CONSTANTS
  Cpus = {0, 1, 2, 3}
  NoCpu = none
  NCPU = 3
  Tables <- MCTables
  NoTable = noTable
SPECIFICATION Spec
INVARIANTS MutualExclusion NoSpinPanic StacksOwn
PROPERTIES NeverReset Started LockReleased
