CONSTANTS
  t1 = t1
  t2 = t2
  t3 = t3
  t4 = t4
  Tasks <- MCTasks
  NoTask = NoTask
  InitNonce = 0
  ChainNonces <- MCChain
  MaxNonce = 5
  MaxLeaks = 0
  Quiescent = TRUE
SYMMETRY TasksSymmetry
VIEW MCView
SPECIFICATION SeqSpec
INVARIANTS
  CallsAddUp
PROPERTIES
  HandsOutTheLowest
