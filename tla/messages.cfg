\* Two broadcasts in flight about one agreement and about none; a consumer asks
\* for what he missed, or for the second message only.
SPECIFICATION Spec
CONSTANTS
  NULL = NULL
  Agreements = {a1}
  Callers = {c1, c2}
  Limit = 1
  Codes = {{2}}
  MaxMessages = 3
INVARIANTS
  TypeOK
  NewestKept
  PrunedWhenQuiet
PROPERTIES
  ResendCatchesUp
CHECK_DEADLOCK FALSE
