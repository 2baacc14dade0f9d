CONSTANTS
  r1 = r1
  r2 = r2
  s1 = s1
  Requests <- MCTwoRequests
  Paths <- MCBothPaths
  Syncers <- MCSyncers
  SyncTags <- MCBothTags
  None = None
  MaxAge = 0
  Rescuers <- MCNobody
  Permits = 1
  Fees <- MCTwoFees
  MaxTracked = 256
  InitialNonce = 0
  ChainStart = 1
SYMMETRY RequestsSymmetry
VIEW MCView
CHECK_DEADLOCK FALSE
SPECIFICATION Spec
INVARIANTS
  TypeOK
  OneClaimPerNonce
  StallIsVisible
  PoolFeesAreLedgered
PROPERTIES
  ImplementsPool
