\* Two jobs for the same data, paid for up to different sizes; data that fit or
\* not; IPFS and one write to the database may fail; addresses come and expire.
SPECIFICATION FairSpec
CONSTANTS
  a1 = a1
  a2 = a2
  r1 = r1
  j1 = j1
  j2 = j2
  NULL = NULL
  Agreements = {a1, a2}
  Refs = {r1}
  Jobs = {j1, j2}
  AgreementOf <- EachItsOwn
  RefOf <- SameRef
  PaidSize <- OneAndTwo
  Contents <- FitsOrNot
  Retries = 2
  Ttl = 1
  IpfsMayFail = TRUE
  DbFaults = 1
  MaxAnnouncements = 1
  MaxTime = 1
INVARIANTS
  TypeOK
  OutcomeInRow
  OversizedNotKept
  RetriesCounted
PROPERTIES
  JobsSettle
  
CHECK_DEADLOCK FALSE
