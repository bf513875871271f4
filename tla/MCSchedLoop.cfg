CONSTANTS
  N = 4
  Priority <- MCPriority
  Floor <- MCFloor
SPECIFICATION FairSpec
INVARIANTS
  LoopInv
PROPERTIES
  ImplementsScheduling
  CallReturns
  NoStarvation
