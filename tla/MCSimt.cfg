SPECIFICATION FESpec
CONSTANTS
  WarpSize = 3
  Base = 1
  MaxInFlight = 1
  KernelSize = 4
  CallerSize = 4
  CalleeSize = 3
  Program <- Supported
INVARIANTS
  InSync
  FetchMatches
  PipelineExact
  JoinTogether
  PostdominatorsExact
CHECK_DEADLOCK FALSE
