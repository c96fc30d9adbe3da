CONSTANTS
  Half = 16
  Samples <- MCSamples
SPECIFICATION UnitSpec
INVARIANTS
  UnitTypeOK
  FlagsTellTheTruth
  HalfCarryIsTrue
  WideArithmetic
  DivUndoesMul
  RotatesAreInverse
