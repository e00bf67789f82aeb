\* Two environments over six pages: memory runs out in most behaviours.
CONSTANTS
  NENV = 2
  ENVGEN = 2
  IDLIM = 4
  NPAGES = 6
  NPTENTRIES = 2
  UTOPX = 1
  RefMod = 64
  USTACK <- MCUSTACK1
  Watched = {}
  Calls = {"fork", "status", "destroy", "alloc", "map", "unmap"}
SPECIFICATION Spec
INVARIANTS TypeOK RefExact FreeExact TablesExclusive Cr3Valid
PROPERTIES Isolation NoWriteEscalation
