\* Devices of all kinds at both positions; 2-bit bytes, so that numbers need two
\* of them; a FAT of 4 blocks, a root directory of 2, clusters 2 to 7 behind.
CONSTANTS
  Attachable = {"none", "ata", "atapi"}
  Geometries <- Disks
  BYTE = 4
  FAT_ROOT_BEG = 5
  FAT_DATA_BEG = 7
  FAT_ROOT_ENT_CNT = 4
  ENTS_PER_BLOCK = 2
  BLOCK_SIZE = 4
  CLUS_SIZE = 2
  NAME_LEN = 3
  EXT_LEN = 2
  mod_name <- XM_E
  XModPhyAddr = 12
  MEM_SIZE = 16
  Layouts <- Contents
  Others <- Names
SPECIFICATION Spec
\* A machine that runs wild stops in the model.
CHECK_DEADLOCK FALSE
INVARIANTS
  DisksInv
  LoaderInv
  WildOnlyAfterFailure
PROPERTIES
  LoadReturns
