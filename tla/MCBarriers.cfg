SPECIFICATION FairSpec
CONSTANTS
  MaxCta = 2
  MaxWarps = 3
  BarId = {0, 1}
  Programs <- PassingPrograms
INVARIANTS
  BarrierConsistent
  NoEarlyRelease
  ResultDelivered
PROPERTIES
  CtaFinishes
