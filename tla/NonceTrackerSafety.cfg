CONSTANTS
  t1 = t1
  t2 = t2
  t3 = t3
  Tasks <- MCThreeTasks
  NoTask = NoTask
  InitNonce = 0
  ChainNonces <- MCChainRewind
  MaxNonce = 3
  MaxLeaks = 1
  Quiescent = TRUE
SYMMETRY TasksSymmetry
VIEW MCView
SPECIFICATION Spec
INVARIANTS
  TypeOK
  ExclusiveNonces
  NothingStranded
  TrackerIsTidy
  PendingNeverOvercounts
PROPERTIES
  RewindsOnlyFreeNonces
  ImplementsPool
