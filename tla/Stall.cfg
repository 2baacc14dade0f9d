CONSTANTS
  r1 = r1
  r2 = r2
  s1 = s1
  x1 = x1
  Requests <- MCTwoRequests
  Paths <- MCPlainPath
  Syncers <- MCNobody
  SyncTags <- MCLatestTag
  Rescuers <- MCRescuer
  Rescues <- MCBothRescues
  MaxAge = 1
  ReplaceWindow = 1
  MinHeadAge = 1
  Fees <- MCAboveMarket
  NetworkFees <- MCMovingMarket
  MaxFee = 4
  None = None
  Permits = 1
  MaxTracked = 256
  InitialNonce = 0
  ChainStart = 0
CHECK_DEADLOCK FALSE
SPECIFICATION FairStallSpec
INVARIANTS
  OneClaimPerNonce
  CancelsAtTheHead
PROPERTIES
  BasisCoversTheHead
  HeadUnblocks
