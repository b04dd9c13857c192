SPECIFICATION FairSpec
CONSTANTS
  MaxPages = 2
  MaxSignals = 2
  MaxConcurrency = 3
  RequestBudget = 3
  MaxBytes = 3
  NaN = NaN
  NoLimit = NoLimit
  Unset = Unset
  Text = Text
  Inf = Inf
  MaxRedirects = 5
  MaxLength = 15
INVARIANTS
  RunIsReported
  AcceptanceIsKept
  FetchedIsPublic
  RunningCanLease
  LoadIsSafe
  PolicyIsOurs
  SpellingIsNoMatter
PROPERTIES
  PartsEnd
