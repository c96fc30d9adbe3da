CONSTANTS
  NIrq = 2
  Funcs = {f}
  SPSize = 8
  MaxBlock = 2
  MaxBudget = 3
  MaxDepth = 3
SPECIFICATION Spec
INVARIANTS
  EscapeReleasesHandler
