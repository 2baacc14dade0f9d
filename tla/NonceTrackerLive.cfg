CONSTANTS
  t1 = t1
  t2 = t2
  t3 = t3
  Tasks <- MCTwoTasks
  NoTask = NoTask
  InitNonce = 0
  ChainNonces <- MCChain
  MaxNonce = 3
  MaxLeaks = 0
  Quiescent = FALSE
SPECIFICATION FairSpec
PROPERTIES
  OperationsReturn
