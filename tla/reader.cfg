SPECIFICATION FairReaderSpec
CONSTANTS
  TerminalStates <- MCTerminalStates
  MaxAttempts = 2
  Limit = 2
  MaxPages = 5
  MaxRuns = 3
INVARIANTS
  WalkIsExact
  StreamTellsOutcome
PROPERTIES
  StreamEnds
