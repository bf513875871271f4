\* The task and two programs; the clock, the keyboard and both disks; one
\* glitch.  int 3, 4 and 0x90 are open to programs; 13 is an exception with an
\* error code, 0x20 the gate of the clock, and 0x91 has no gate.
CONSTANTS
  NR_TASKS = 1
  NR_PROCS = 2
  Wired = {0, 1, 14, 15}
  MaxGlitches = 1
  SoftVectors = {3, 4, 13, 32, 144, 145}
SPECIFICATION Spec
\* An exception halts the machine.
CHECK_DEADLOCK FALSE
INVARIANTS
  NoBadDescriptor
  ReportsWhatHappened
  PicInv
  RightHandler
