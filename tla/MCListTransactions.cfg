SPECIFICATION Spec
CONSTANTS
  Transactions <- MCTransactions
  Times <- MCTimes
  Limits <- MCLimits
  MaxPage = 3
INVARIANTS
  ListInvariant
  TotalMatchesPage
  WalkMissesNothing
