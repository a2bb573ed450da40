SPECIFICATION FairSpec
CONSTANTS
  f1 = f1
  f2 = f2
  f3 = f3
  b1 = b1
  b2 = b2
  b3 = b3
  l1 = l1
  l2 = l2
  Fetch = {f1, f2, f3}
  Block = {b1, b2, b3}
  Line = {l1, l2}
  SetOf <- MCSetOf
  FragmentSize = 3
  RequestSize = 1
  RobSize = 2
  ResultSize = 1
  NoBlock = NoBlock
  NoFetch = NoFetch
INVARIANTS
  RobInStep
  HitFindsBlock
PROPERTIES
  InOrder
  TexAnswered
