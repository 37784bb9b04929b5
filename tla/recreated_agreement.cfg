\* An agreement is stopped and concluded again; nothing fails, no time passes.
SPECIFICATION Spec
CONSTANTS
  a1 = a1
  r1 = r1
  own = own
  other = other
  NULL = NULL
  Agreements <- OneAgreement
  Refs <- OneRef
  RefOf <- OneRefOf
  UnsupportedRefs = {}
  Terms <- UnitTerms
  Offers <- TwoOffers
  OwnOffer = own
  Deals <- OneDeal
  Amounts = {1, 2}
  MetaSize <- Fits
  ActualSize <- Fits
  Retries = 2
  Confirmations = 1
  GcRuns = {1}
  IpfsMayFail = FALSE
  DbMayFail = FALSE
  FaultyBlocks = {}
  EthMayFail = FALSE
  MaxBlock = 1
  MaxTime = 0
  MaxEvents = 3
INVARIANTS
  PinnedIsCollectable
CHECK_DEADLOCK FALSE
