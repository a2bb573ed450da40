SPECIFICATION Spec
CONSTANTS
  Block = {A1, A2, A3}
  LocalBlock = {}
  set_index <- OneSet
  Assoc = 2
  Fetch = {f1, f2, f3, f4, f5}
  AccessTypes = {"READ", "ATOMIC", "WRITE"}
  WritePolicy = "WRITE_BACK"
  WriteAllocate = TRUE
  AllocPolicy = "ON_MISS"
  ReplacementPolicy = "LRU"
  MshrEntries = 2
  MaxMerged = 2
  MissQueueSize = 3
  FlushMode = "none"
  Idle = Idle
  NoFetch = NoFetch
SYMMETRY FetchSymmetry
INVARIANTS
  TrackedOnce
  LimitsRespected
PROPERTIES
  ImplementsAbstractCache
