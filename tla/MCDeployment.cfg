SPECIFICATION DeploymentSpec
CONSTANTS
  b1 = b1
  p1 = p1
  j1 = j1
  j2 = j2
  f1 = f1
  f2 = f2
  Business <- OneBusiness
  Probes <- OneProbe
  Jobs <- TwoJobs
  Files <- TwoFiles
  Rerunnable <- SecondFile
  Defaults <- MCDefaults
  Environments <- MCEnvironments
  CloseTimeout = 1
  MaxSafeInteger = 9
  MaxStarts = 2
  MaxTime = 8
INVARIANTS
  ShutdownInvariant
  DrainedBeforeClose
  ShutdownIsBounded
  ReadyAnswersRunOut
  AppliedOnceInOrder
  ServingMeansMigrated
PROPERTIES
  OnlyOverdueIsForced
  ShutdownEnds
