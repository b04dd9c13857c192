SPECIFICATION Spec
CONSTANTS
  w1 = w1
  w2 = w2
  c1 = c1
  Workers = {w1, w2}
  Crawls = {c1}
  Unusable = {}
  NoWorker = NoWorker
  NoCrawl = NoCrawl
  MaxAttempts = 2
  MaxPages = 2
  MaxFaults = 1
SYMMETRY WorkerSymmetry
INVARIANTS
  TypeOK
  PagesOfLatestLease
  PagesGapFree
  FinishedIsComplete
  AttemptsLeftInQueue
  WorkerIdFences
PROPERTIES
  TerminalIsFinal
  ImplementsLifecycle
