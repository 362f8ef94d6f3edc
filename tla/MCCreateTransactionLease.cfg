SPECIFICATION FairSpec
CONSTANTS
  e1 = e1
  e2 = e2
  e3 = e3
  k1 = k1
  f1 = f1
  f2 = f2
  NoOperation = NoOperation
  NoTransaction = NoTransaction
  NoResult = NoResult
  Executions <- TwoExecutions
  TransactionIds <- TwoExecutions
  Keys <- OneKey
  Fingerprints <- TwoFingerprints
  MaxAttempts = 2
  StaleTimeout = 3
  ExecutionWindow = 1
  MaxSkew = 1
  Punctual = TRUE
  MaxTime = 4
INVARIANTS
  LeaseExclusion
  LeaseInvariant
  PaymentsAreAccountedFor
PROPERTIES
  InProgressMeansLeased
  ExecutionsEnd
