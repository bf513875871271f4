\* Two blocks told apart by two contents.  With 6 polls and a byte of 4 values
\* a disk ready after the second poll is taken for one that timed out, as one
\* is in kenos whenever a multiple of 256 of its 30000000 polls is left.
CONSTANTS
  Data = {d1, d2}
  NoData = none
  Capacity = 2
  ATA_TIMEOUT = 6
  BYTE = 4
  UINT = 4
SPECIFICATION FairSpec
INVARIANTS
  ReadReturnsTheBlock
  MutexBalanced
PROPERTIES
  NoCommandInTransfer
  RequestReturns
