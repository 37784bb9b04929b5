\* One agreement, whose terms pay for the data or not, overlapping handlers, one
\* collector run, a restart; IPFS, the database and the cache service may fail.
SPECIFICATION Spec
CONSTANTS
  a1 = a1
  r1 = r1
  NULL = NULL
  Agreements = {a1}
  Refs = {r1}
  RefOf <- OneRefOf
  UnsupportedRefs = {}
  Terms <- MixedTerms
  Amounts = {2}
  MetaSize <- Fits
  ActualSize <- ActualTwo
  Confirmations = 0
  GcRuns = {1}
  IpfsMayFail = TRUE
  DbMayFail = TRUE
  FaultyBlocks = {1}
  CacheMayFail = TRUE
  MaxBlock = 1
  MaxTime = 1
  MaxEvents = 3
  MaxStarts = 2
INVARIANTS
  TypeOK
  RowsFollowCache
PROPERTIES
  PrecachePins
VIEW Abridged
CHECK_DEADLOCK FALSE
