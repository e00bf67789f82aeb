\* Every call that needs a page table may fail.
CONSTANTS
  p = p
  c = c
  d = d
  Env = {p, c}
  Root = p
  Frame = {0, 1, 2, 3, 4, 5, 6}
  Data = {0}
  Pages <- MCPages
  ReadOnly = {"text"}
  TablesFail = TRUE
SPECIFICATION FairSpec
PROPERTIES ForkReturns
CHECK_DEADLOCK FALSE
