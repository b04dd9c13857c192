SPECIFICATION Spec
CONSTANTS
  w1 = w1
  w2 = w2
  Workers <- TwoWorkers
  BatchSize = 2
  MaxPages = 3
  MaxLeases = 2
  MaxFaults = 1
SYMMETRY Symmetric
INVARIANTS
  NothingIsDropped
  NobodyWaitsInVain
  CleanCloseIsComplete
PROPERTIES
  ImplementsPageLog
