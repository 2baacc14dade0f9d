CONSTANTS
  h1 = h1
  h2 = h2
  Nonces <- MCNonces
  Hashes <- MCHashes
  FeeOf <- MCFeeOf
  MaxTracked = 2
  MaxTime = 1
  MaxCalls = 5
SPECIFICATION Spec
INVARIANTS
  FeeBasisCovers
  AcceptedOfThisAttempt
PROPERTIES
  AgeRestartsWithTheAttempt
  LeavesFromTheBottom
