\* Programs whose segments are not page-aligned.
SPECIFICATION Spec
CONSTANTS
  LONGMOD = 256
  UINTMOD = 256
  PRINTBUF = 4
  NULL = NULL
  CRT_COLS = 3
  CRT_SIZE = 9
  BUFLEN = 5
  MAXARGS = 3
  NPT = 16
  VPAGES = 128
  UENVS = 16
  UPAGES = 32
  UVPT = 48
  KSTACKTOP = 96
  KERNBASE = 96
  KSTKSIZE = 2
  BOOTSTACK = 6
  MPENTRY = 1
  IOPHYS = 4
  EXTPHYS = 6
  INFOS = 16
  ENVPAGES = 1
  PGSIZE = 4
  SECTSIZE = 4
  ADDRMOD = 32
  ULIM = 24
  NoTable = NoTable
  Garbage = Garbage
  MemSize = 12
  Texts = {}
  Formats = {}
  Keys = {}
  Lines = {}
  Stabs = {}
  Symbols = {}
  Machines = {}
  PageTables = {}
  Programs <- MCPrograms
  File <- MCFile
  Images <- MCImages
  Disk <- MCDisk
  Memory <- MCMemory
INVARIANTS
  UnalignedLoaded
