CONSTANTS
  Half = 16
  RamSize = 16
  XramSize = 6
  Lines = 4
  LineBytes = 1
  PairBytes = 3
  WramHalf = 2
  UpperHalf <- MCUpperHalf
  Rom <- MCRom
  Presses = {0, 2}
  Operands <- MCOperands
  Values = {0, 2, 255}
  Bits = {1}
SPECIFICATION MCSpec
INVARIANTS
  PopsWhatWasPushed
  ScreenIsFresh
PROPERTIES
  ParityIsReadOnly
  BanksAreSeparate
