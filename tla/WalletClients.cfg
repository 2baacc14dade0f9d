CONSTANTS
  Primaries <- MCPrimaries
  GasUrls <- MCGasUrls
  BroadcastLists <- MCBroadcastLists
  BlinkUrl <- Blink
  MaxBuilderCalls = 2
  MaxCalls = 2
  HTTPS_WARMUP_WINDOW = 2
  HTTP_WARMUP_WINDOW = 1
  None = None
CHECK_DEADLOCK FALSE
SPECIFICATION FairSpec
INVARIANTS
  SendsReachTheSet
  ReceiptVerdicts
PROPERTIES
  WarmupKnowsTheEndpoint
  CallsReturn
