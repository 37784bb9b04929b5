\* One agreement, one start, nothing fails.
SPECIFICATION Spec
CONSTANTS
  a1 = a1
  r1 = r1
  NULL = NULL
  Agreements = {a1}
  Refs = {r1}
  RefOf <- OneRefOf
  UnsupportedRefs = {}
  Terms <- UnitTerms
  Amounts = {1}
  MetaSize <- Fits
  ActualSize <- Fits
  Confirmations = 0
  GcRuns = {1}
  IpfsMayFail = FALSE
  DbMayFail = FALSE
  FaultyBlocks = {}
  CacheMayFail = FALSE
  MaxBlock = 1
  MaxTime = 1
  MaxEvents = 2
  MaxStarts = 1
INVARIANTS
  StartedWithLatestState
CHECK_DEADLOCK FALSE
