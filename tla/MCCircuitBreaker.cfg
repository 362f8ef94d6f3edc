SPECIFICATION FairSpec
CONSTANTS
  c1 = c1
  c2 = c2
  c3 = c3
  Callers <- ThreeCallers
  FailureThreshold = 2
  OpenDuration = 3
  MaxDrift = 1
  MaxTime = 8
  MaxGeneration = 4
INVARIANTS
  OpenIsNotOverdue
  BreakerInvariant
PROPERTIES
  OpenIntervalIsRespected
  OnlyOwnEraMovesBreaker
  ProbeResolves
