SPECIFICATION FairSpec
CONSTANTS
  Host = {h1}
  Stream = {s1, s2}
  Zero = Zero
  Event = {e1}
  OpTypes = {"kernel", "event"}
  LaunchBlocking = {FALSE}
  MaxConcurrentKernel = 2
  Ctas = 1
  CycleLimit = TRUE
  MaxCta = 0
  DestroyBusy = FALSE
  ProgramEnds = TRUE
  MaxOps = 3
  SimThread = SimThread
  NoThread = NoThread
  NoStream = NoStream
  NoCall = NoCall
INVARIANTS
  SyncedIdle
PROPERTIES
  OpsPerformed
  CallsReturn
CHECK_DEADLOCK FALSE
