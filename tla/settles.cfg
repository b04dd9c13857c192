SPECIFICATION FairSpec
CONSTANTS
  w1 = w1
  c1 = c1
  c2 = c2
  Workers = {w1}
  Crawls = {c1, c2}
  Unusable = {c2}
  NoWorker = NoWorker
  NoCrawl = NoCrawl
  MaxAttempts = 2
  MaxPages = 1
  MaxFaults = 2
PROPERTIES
  EveryCrawlSettles
