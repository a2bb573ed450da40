SPECIFICATION Spec
CONSTANTS
  Host = {h1, h2}
  Stream = {s1, s2}
  Zero = Zero
  Event = {e1}
  OpTypes = {"memcpy", "kernel", "kernel_func"}
  LaunchBlocking = {FALSE, TRUE}
  MaxConcurrentKernel = 1
  Ctas = 2
  CycleLimit = FALSE
  MaxCta = 0
  DestroyBusy = FALSE
  ProgramEnds = FALSE
  MaxOps = 3
  SimThread = SimThread
  NoThread = NoThread
  NoStream = NoStream
  NoCall = NoCall
SYMMETRY HostStreamSymmetry
INVARIANTS
  ZeroExclusive
  GridRegistered
PROPERTIES
  PushSynchronous
