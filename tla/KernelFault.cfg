\* Three page tables of one page: segment, stack, exception stack; two pages'
\* bytes are followed.
CONSTANTS
  NENV = 2
  ENVGEN = 2
  IDLIM = 4
  NPAGES = 7
  NPTENTRIES = 1
  UTOPX = 3
  RefMod = 64
  USTACK <- MCUSTACK3
  Watched = {1,3}
  Calls = {"cputs", "destroy", "fork", "upcall", "alloc", "unknown", "fault", "exception", "store"}
SPECIFICATION Spec
PROPERTIES NoResidue NoMemChangesNothing SchedSpec
