SPECIFICATION Spec
CONSTANTS
  Block = {A1, A2, A3}
  LocalBlock = {A2}
  set_index <- OneSet
  Assoc = 2
  Fetch = {f1, f2, f3, f4, f5}
  AccessTypes = {"READ", "WRITE"}
  WritePolicy = "LOCAL_WB_GLOBAL_WT"
  WriteAllocate = FALSE
  AllocPolicy = "ON_MISS"
  ReplacementPolicy = "LRU"
  MshrEntries = 2
  MaxMerged = 2
  MissQueueSize = 3
  FlushMode = "kernel_end"
  Idle = Idle
  NoFetch = NoFetch
SYMMETRY FetchSymmetry
INVARIANTS
  FillTarget
  MshrConsistent
PROPERTIES
  DirtyWrittenBack
