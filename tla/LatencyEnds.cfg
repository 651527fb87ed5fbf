SPECIFICATION FairSpec
CONSTANTS
  Node = {n1, n2, n3}
  REJECT = REJECT
  Concurrency = 2
  Attempts = 2
  MaxTests = 1
  MaxProcesses = 2
  MaxLate = 0
INVARIANTS NothingLost
PROPERTIES TestsEnd
CHECK_DEADLOCK FALSE
