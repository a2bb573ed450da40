SPECIFICATION Spec
CONSTANTS
  WarpSize = 4
  WarpParts = 2
  LineSize = 64
  Banks = 2
  LimitedBroadcast = TRUE
  Insns <- Warp4
INVARIANTS
  ServedOnce
  StableCount
  AtomicSerial
  SharedCost
CHECK_DEADLOCK FALSE
