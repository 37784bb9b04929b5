\* One agreement, two collector runs that may overlap, IPFS may fail.
SPECIFICATION Spec
CONSTANTS
  a1 = a1
  r1 = r1
  own = own
  other = other
  NULL = NULL
  Agreements <- OneAgreement
  Refs <- OneRef
  RefOf <- OneRefOf
  UnsupportedRefs = {}
  Terms <- UnitTerms
  Offers <- TwoOffers
  OwnOffer = own
  Deals <- OneDeal
  Amounts = {1}
  MetaSize <- Fits
  ActualSize <- Fits
  Retries = 2
  Confirmations = 1
  GcRuns = {1, 2}
  IpfsMayFail = TRUE
  DbMayFail = FALSE
  FaultyBlocks = {1, 2, 3}
  EthMayFail = FALSE
  MaxBlock = 3
  MaxTime = 2
  MaxEvents = 3
INVARIANTS
  TypeOK
  FundsFollowLedger
  StoppedIsInactive
  ServedWhileActive
PROPERTIES
  ImplementsMirror
CHECK_DEADLOCK FALSE
