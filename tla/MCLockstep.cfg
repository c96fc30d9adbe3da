CONSTANTS
  AddrSpace = 5
  Seeds <- MCSeeds
  Vectors <- MCVectors
  MaxDepth = 3
  MaxPairs = 3
SPECIFICATION MCSpec
INVARIANTS
  SameInstruction
  SameReturns
  SameSP
  MasksNoMore
CHECK_DEADLOCK FALSE
