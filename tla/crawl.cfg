SPECIFICATION FairSpec
CONSTANTS
  s = s
  a = a
  a2 = a2
  b = b
  c = c
  d = d
  p = p
  x = x
  t1 = t1
  t2 = t2
  t3 = t3
  Urls <- MCUrls
  NoUrl = NoUrl
  Key <- MCKey
  Host <- MCHost
  Tasks = {t1, t2, t3}
  NoLimit = NoLimit
  Setups <- AllSetups
INVARIANTS
  OncePerKey
  Accounted
  PagesCapped
PROPERTIES
  StopsForGood
  ImplementsSiteWalk
  EveryCrawlEnds
