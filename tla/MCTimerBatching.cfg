CONSTANTS
  W = 3
  CountMod = 2
  BaseRoll = 2
  DefaultDivisor = 2
  Rate = 2
  Unit = 12
  DefaultClock = 3
  DefaultCeiling = 1
  MaxInsn = 2
  MaxOwed = 3
  Sessions <- MCSessions
SPECIFICATION Spec
INVARIANTS
  LagsByTheBlock
  PitchFollowsRegisters
CHECK_DEADLOCK FALSE
