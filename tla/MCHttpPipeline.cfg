SPECIFICATION Spec
CONSTANTS
  r1 = r1
  r2 = r2
  s1 = s1
  s2 = s2
  Requests <- TwoRequests
  Services <- TwoServices
  NoService = NoService
  MaxBodyBytes = 3
  MaxChunk = 2
SYMMETRY RequestSymmetry
INVARIANTS
  PipelineInvariant
  QuotaIsPaidByItsService
  StatusTellsEffect
