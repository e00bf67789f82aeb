\* A program unmaps an address where nothing is mapped.
CONSTANTS
  NENV = 2
  ENVGEN = 2
  IDLIM = 4
  NPAGES = 5
  NPTENTRIES = 2
  UTOPX = 1
  RefMod = 64
  USTACK <- MCUSTACK1
  Watched = {}
  Calls = {"unmap", "stray"}
SPECIFICATION Spec
INVARIANTS PageZeroInUse
