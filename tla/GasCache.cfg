CONSTANTS
  p1 = p1
  f1 = f1
  PriceCallers <- MCOneCaller
  FeeCallers <- MCNobody
  Refreshers <- MCRefresher
  Networks <- MCAnyNetwork
  TTL = 3
  MaxCacheAge = 2
  Interval = 3
  MaxRtt = 1
  MaxAge = 4
  MaxLag = 1
  None = None
SPECIFICATION FairSpec
INVARIANTS
  PricesAreRecent
  StaleForATickAtMost
PROPERTIES
  OneFetchForAll
  CallsReturn
CHECK_DEADLOCK FALSE
