SPECIFICATION FairSpec
CONSTANTS
  c1 = c1
  c2 = c2
  Callers <- TwoCallers
  MaxAttempts = 3
  AttemptTimeout = 1
  BaseDelay = 1
  MaxDelay = 2
  JitterPercent = 50
  RandomPercents <- ExtremeRandoms
  FailureThreshold = 2
  OpenDuration = 10
  MaxDrift = 1
  MaxTime = 18
  MaxGeneration = 3
INVARIANTS
  PermitHeldWhileCalling
  WithinRetryWindow
  HalfOpenProbeIsAlone
PROPERTIES
  ImplementsBreaker
