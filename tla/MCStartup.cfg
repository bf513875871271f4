\* A floppy of 20 sectors of 4 bytes, a FAT of 3 sectors; memory of 4 GB is 64
\* pages of 8 entries, and three tables fit below the kernel.
CONSTANTS
  BytsPerSec = 4
  SecPerTrk = 5
  NumHeads = 2
  Cylinders = 2
  NumFATs = 2
  FATSz = 3
  RootDirSectors = 2
  EntsPerSec = 2
  SEG = 8
  LOW = 20
  FAT_ROOM = 4
  BaseOfKernelFile = 4
  BaseOfLoader = 12
  OffsetOfLoader = 1
  PAGE = 8
  MB = 32
  WORD = 64
  HIGH = 120
  PageDirBase = 64
  PageTblBase = 72
  KernelEntryPoint = 96
  Floppies <- TheFloppies
  MemoryMaps <- Maps
  OldMemory <- OldMemories
SPECIFICATION StartupSpec
\* Without a file, or with an end that is none, the machine stops.
CHECK_DEADLOCK FALSE
INVARIANTS
  SearchInv
  LoadedWhole
  MapsMemory
  KernelLaidOut
  WildOnlyIf
PROPERTIES
  Starts
