SPECIFICATION FairSpec
CONSTANTS
  c1 = c1
  c2 = c2
  r1 = r1
  r2 = r2
  Crawls <- MCCrawls
  Reapers <- MCReapers
  MaxAttempts = 2
  Unwanted = {c1}
PROPERTIES
  ReapIsSound
  SilentRunsAreReaped
