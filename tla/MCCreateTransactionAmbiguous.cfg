SPECIFICATION Spec
CONSTANTS
  e1 = e1
  e2 = e2
  e3 = e3
  k1 = k1
  f1 = f1
  f2 = f2
  NoOperation = NoOperation
  NoTransaction = NoTransaction
  NoResult = NoResult
  Executions <- TwoExecutions
  TransactionIds <- TwoExecutions
  Keys <- OneKey
  Fingerprints <- OneFingerprint
  MaxAttempts = 1
  StaleTimeout = 2
  ExecutionWindow = 1
  MaxSkew = 0
  Punctual = TRUE
  MaxTime = 2
INVARIANTS
  ChargesAreRecorded
