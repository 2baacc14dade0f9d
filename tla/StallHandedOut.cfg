CONSTANTS
  r1 = r1
  r2 = r2
  s1 = s1
  x1 = x1
  Requests <- MCTwoRequests
  Paths <- MCPlainPath
  Syncers <- MCNobody
  SyncTags <- MCLatestTag
  Rescuers <- MCRescuer
  Rescues <- MCCancel
  MaxAge = 2
  ReplaceWindow = 1
  MinHeadAge = 2
  Fees <- MCOneFee
  NetworkFees <- MCMarket
  MaxFee = 4
  None = None
  Permits = 1
  MaxTracked = 256
  InitialNonce = 0
  ChainStart = 0
CHECK_DEADLOCK FALSE
SPECIFICATION StallSpec
INVARIANTS
  CancelIsNotHandedOut
