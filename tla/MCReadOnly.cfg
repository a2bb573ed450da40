SPECIFICATION FairSpec
CONSTANTS
  Block = {A1, A2, A3}
  LocalBlock = {}
  set_index <- OneSet
  Assoc = 2
  Fetch = {f1, f2, f3, f4}
  AccessTypes = {"READ"}
  WritePolicy = "READ_ONLY"
  WriteAllocate = FALSE
  AllocPolicy = "ON_FILL"
  ReplacementPolicy = "LRU"
  MshrEntries = 2
  MaxMerged = 2
  MissQueueSize = 2
  FlushMode = "none"
  Idle = Idle
  NoFetch = NoFetch
PROPERTIES
  PortServed
  Answered
