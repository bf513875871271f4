\* Keys and the output of a program on the same console, as at the start of kenos.
CONSTANTS
  NR_CONSOLES = 2
  SCREEN_WIDTH = 2
  SCREEN_SIZE = 4
  ConMemSize = 7
  TTY_IN_BYTES = 2
  Programs = {1}
  NrTty <- OnConsole0
  Typed = {"a", "NL", "BS"}
  FKeys = {0}
  Printed = {"b"}
SPECIFICATION Spec
INVARIANTS
  CursorInConsole
