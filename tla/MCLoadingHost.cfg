CONSTANTS
  Images <- MCImages
  Counts = {0, 1}
  MaxListing = 4
SPECIFICATION Spec
INVARIANTS
  HostSeesTheSameRom
CHECK_DEADLOCK FALSE
