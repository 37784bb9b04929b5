\* One agreement, also concluded with a foreign offer; sizes that do not fit the
\* terms; the IPFS node, the database, the Ethereum node and a collector run may
\* fail; fair.
SPECIFICATION FairSpec
CONSTANTS
  a1 = a1
  r1 = r1
  own = own
  other = other
  NULL = NULL
  Agreements <- OneAgreement
  Refs <- OneRef
  RefOf <- OneRefOf
  UnsupportedRefs = {}
  Terms <- MixedTerms
  Offers <- TwoOffers
  OwnOffer = own
  Deals <- MixedDeals
  Amounts = {3}
  MetaSize <- MetaTwo
  ActualSize <- ActualThree
  Retries = 2
  Confirmations = 1
  GcRuns = {1}
  IpfsMayFail = TRUE
  DbMayFail = TRUE
  FaultyBlocks = {2}
  EthMayFail = TRUE
  MaxBlock = 4
  MaxTime = 2
  MaxEvents = 2
INVARIANTS
  ServedWhileActive
PROPERTIES
  QueueDrains
  ExpiredIsCollected
CHECK_DEADLOCK FALSE
