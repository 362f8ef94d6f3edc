SPECIFICATION FairSpec
CONSTANTS
  c1 = c1
  c2 = c2
  c3 = c3
  Callers <- ThreeCallers
  MaxRequests = 2
  Window = 5
  TicksPerSecond = 2
  MaxOrphans = 2
INVARIANTS
  LimiterInvariant
  RetryAfterIsEnough
  DoubleAgreesWithScript
PROPERTIES
  NotLockedOut
