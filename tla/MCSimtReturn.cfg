SPECIFICATION FESpec
CONSTANTS
  WarpSize = 3
  Base = 1
  MaxInFlight = 1
  KernelSize = 3
  CallerSize = 3
  CalleeSize = 3
  Program <- DivergentReturn
INVARIANTS
  InSync
CHECK_DEADLOCK FALSE
