SPECIFICATION FairSpec
CONSTANTS
  Request <- MCRequest
  Attr <- MCAttr
  AllocOf <- MCAllocOf
  VictimOf <- MCVictimOf
  Modes <- MCModes
  nbk = 2
  SchedQueueSize = 2
  ReturnQueueSize = 1
  RwqSize = 2
  NSub = 2
  IcntL2 = 1
  L2Dram = 1
  DramL2 = 1
  L2Icnt = 1
  MissQueueSize = 3
  NoReq = NoReq
  NoRow = NoRow
INVARIANTS
  CreditsExact
  SchedulerConsistent
  TrackerExact
PROPERTIES
  RowOrder
  AllServed
CHECK_DEADLOCK FALSE
