\* Keys go to both consoles, with Alt+F1 and Alt+F2 between them, and the output
\* of a program to console 1; Alt+F3 is no console.  One row of two cells is
\* visible of two, and one cell of the memory is left over.
CONSTANTS
  NR_CONSOLES = 2
  SCREEN_WIDTH = 2
  SCREEN_SIZE = 2
  ConMemSize = 5
  TTY_IN_BYTES = 2
  Programs = {1}
  NrTty <- OnConsole1
  Typed = {"a", "BS"}
  FKeys = {0, 1, 2}
  Printed = {"NL"}
SPECIFICATION FairApartSpec
INVARIANTS
  InConsole
  NoKeyDropped
  ScreenFollowsSelection
PROPERTIES
  ImplementsTerminal
  OutCharReturns
