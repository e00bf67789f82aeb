\* The exception stack is mapped read-only, or its frame overflows.
CONSTANTS
  NENV = 2
  ENVGEN = 2
  IDLIM = 4
  NPAGES = 7
  NPTENTRIES = 1
  UTOPX = 3
  RefMod = 64
  USTACK <- MCUSTACK3
  Watched = {}
  Calls = {"upcall", "alloc", "fault"}
SPECIFICATION Spec
PROPERTIES PageFaultContained
