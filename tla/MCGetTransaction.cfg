SPECIFICATION FairSpec
CONSTANTS
  r1 = r1
  r2 = r2
  t1 = t1
  t2 = t2
  Readers <- TwoReaders
  Ids <- TwoIds
  Cacheable <- OneId
  NoEntry = NoEntry
  Garbage = Garbage
  MaxOutstanding = 2
INVARIANTS
  CacheInvariant
PROPERTIES
  ImplementsReads
  ReadsEnd
