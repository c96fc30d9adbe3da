CONSTANTS
  W = 3
  CountMod = 2
  BaseRoll = 2
  DefaultDivisor = 2
  Buttons = {a, b}
  MaxCycles = 2
  Divisors = {0, 1}
  Controls0 <- MCControls0
  Controls1 <- MCControls1
  ReloadRegs = {"t0prr", "t0lr", "t0hr", "t1lr", "t1hr"}
  Reloads = {0, 2}
  BtcrValues = {TRUE, FALSE}
  IEValues = {{"master"}}
  P3INTValues <- MCP3INTValues
  HandRaised = {0}
  Horizon = 9
SPECIFICATION MCSpec
INVARIANTS
  BatchingIrrelevant
  RaisesOnTime
  SteadyCadence
  TickIsTheLoops
