SPECIFICATION Spec
CONSTANTS
  e1 = e1
  e2 = e2
  e3 = e3
  k1 = k1
  f1 = f1
  f2 = f2
  NoOperation = NoOperation
  NoTransaction = NoTransaction
  NoResult = NoResult
  Executions <- ThreeExecutions
  TransactionIds <- ThreeExecutions
  Keys <- OneKey
  Fingerprints <- TwoFingerprints
  MaxAttempts = 2
  StaleTimeout = 1
  ExecutionWindow = 1
  MaxSkew = 0
  Punctual = FALSE
  MaxTime = 2
SYMMETRY Symmetry3
INVARIANTS
  OneTransactionPerKey
  AnswersAgree
  StoreInvariant
  DoubleAgreesWithStatements
PROPERTIES
  ImplementsLedger
