SPECIFICATION FairSpec
CONSTANTS
  Statuses <- MCStatuses
  RetryAfters <- MCRetryAfters
  Lengths <- MCLengths
  NoHeader = NoHeader
  MaxAttempts = 3
  MaxBytes = 3
  MaxChunk = 5
INVARIANTS
  CapIsExact
  MemoryIsBounded
  RetriesAreBounded
PROPERTIES
  FetchReturns
