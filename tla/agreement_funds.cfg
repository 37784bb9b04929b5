\* Terms that divide the funds and terms that do not.
SPECIFICATION Spec
CONSTANTS
  Sizes = {1, 2}
  Prices = {1, 3}
  Periods = {1, 2, 3, 7}
  Amounts = {1, 2}
  MaxFunds = 9
  MaxTime = 15
  Scale = 1000
INVARIANTS
  TypeOK
  FundedIffPrepaid
  ExpiresInNotEarly
PROPERTIES
  ShortageIsStable
CHECK_DEADLOCK FALSE
