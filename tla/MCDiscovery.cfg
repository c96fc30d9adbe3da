CONSTANTS
  AddrSpace = 5
  Seeds <- MCSeeds
SPECIFICATION MCSpec
INVARIANTS
  ReachesExactly
  EntriesExact
  FunctionsExact
  JumpsCanBeLowered
PROPERTIES
  Terminates
CHECK_DEADLOCK FALSE
