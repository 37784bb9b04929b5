\* A deposit is saved between the query and the unpin of a collector run.
SPECIFICATION Spec
CONSTANTS
  a1 = a1
  r1 = r1
  own = own
  other = other
  NULL = NULL
  Agreements <- OneAgreement
  Refs <- OneRef
  RefOf <- OneRefOf
  UnsupportedRefs = {}
  Terms <- UnitTerms
  Offers <- TwoOffers
  OwnOffer = own
  Deals <- OneDeal
  Amounts = {1, 2}
  MetaSize <- Fits
  ActualSize <- Fits
  Retries = 2
  Confirmations = 1
  GcRuns = {1}
  IpfsMayFail = FALSE
  DbMayFail = FALSE
  FaultyBlocks = {}
  EthMayFail = FALSE
  MaxBlock = 3
  MaxTime = 2
  MaxEvents = 3
PROPERTIES
  UnpinnedWithoutFunds
CHECK_DEADLOCK FALSE
