CONSTANTS
  Requests <- MCRequests
  GasPrices <- MCGasPrices
  Tips <- MCTips
  BumpBps <- MCBumpBps
  Scalars <- MCScalars
  ChainId = 56
  Nonce = 3
  DefaultGasLimit = 500000
  MaxCancels = 2
  MaxU256 = 1000000000
  None = None
CHECK_DEADLOCK FALSE
SPECIFICATION Spec
INVARIANTS
  NodeReadsWhatWasSigned
  PricesAreValid
  ReplacementsOutbid
  BasisIsBacked
