\* Three processes; registers and results are not told apart.
CONSTANTS
  N = 3
  Priority <- MCPriority3
  Floor <- MCFloor
  Irqs = {0, 1}
  UserEips = {"u"}
  TickWrap = 1
SPECIFICATION FairSpec
PROPERTIES
  StarvedOnlyByNesting
  KeyboardServed
