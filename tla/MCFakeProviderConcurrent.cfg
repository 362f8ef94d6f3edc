SPECIFICATION Spec
CONSTANTS
  r1 = r1
  r2 = r2
  r3 = r3
  k1 = k1
  Requests <- ThreeRequests
  Keys <- OneKey
  NoKey = NoKey
  Outcomes <- RefusalTimeoutSuccess
  HasLatency = TRUE
INVARIANTS
  OnePaymentPerKey
