CONSTANTS
  e1 = e1
  e2 = e2
  e3 = e3
  Order <- MCOrder
  Private <- MCPrivate
  Strategies <- MCStrategies
  NoEndpoint = NoEndpoint
SPECIFICATION FairSpec
INVARIANTS
  VerdictsAreComplete
  NobodyIsAskedEarly
  RowsMatchTheResult
PROPERTIES
  ImplementsSendOutcome
  EveryoneIsHeard
CHECK_DEADLOCK FALSE
