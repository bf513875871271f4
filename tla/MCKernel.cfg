\* Two processes, clock and keyboard, registers and results told apart.
CONSTANTS
  N = 2
  Priority <- MCPriority2
  Floor <- MCFloor
  Irqs = {0, 1}
  UserEips = {"u0", "u1"}
  TickWrap = 2
SPECIFICATION Spec
INVARIANTS
  NoSelfNesting
  ReadyIsPinned
  KernelInv
PROPERTIES
  ImplementsVirtualCPU
  ImplementsScheduling
