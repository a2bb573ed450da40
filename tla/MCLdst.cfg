SPECIFICATION FairSpec
CONSTANTS
  w1 = w1
  w2 = w2
  Warp = {w1, w2}
  Reg = {1, 2}
  Programs <- MCPrograms
  ResponseQueueSize = 1
  MaxInsn = 3
  MaxAccess = 2
  NoInsn = NoInsn
  NoAccess = NoAccess
INVARIANTS
  PendingExact
  ScoreboardExact
  ExitClean
PROPERTIES
  WarpsExit
