\* A program and its descendants, in too little memory for all to copy everything.
CONSTANTS
  p = p
  c = c
  d = d
  Env = {p, c, d}
  Root = p
  Frame = {0, 1, 2, 3, 4, 5, 6, 7}
  Data = {0, 1}
  Pages <- MCHeapPages
  ReadOnly = {}
  TablesFail = FALSE
SPECIFICATION Spec
SYMMETRY MCSymmetry
VIEW MCView
INVARIANTS ForkInv
PROPERTIES PrivateMemories PanicMeansNoMem
CHECK_DEADLOCK FALSE
