SPECIFICATION Spec
CONSTANTS
  c1 = c1
  c2 = c2
  Callers <- TwoCallers
  MaxAttempts = 2
  AttemptTimeout = 1
  BaseDelay = 1
  MaxDelay = 2
  JitterPercent = 50
  RandomPercents <- ExtremeRandoms
  FailureThreshold = 2
  OpenDuration = 2
  MaxDrift = 0
  MaxTime = 12
  MaxGeneration = 3
PROPERTIES
  TimeoutsAreRetried
