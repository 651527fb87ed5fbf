SPECIFICATION Spec
CONSTANTS
  Node = {n1, n2}
  REJECT = REJECT
  Concurrency = 2
  Attempts = 2
  MaxTests = 2
  MaxProcesses = 2
  MaxLate = 1
SYMMETRY Symmetry
INVARIANTS TypeOK SelectorExclusive MeasuresItsNode IdleIsBlocked
PROPERTIES NewestStays
CHECK_DEADLOCK FALSE
