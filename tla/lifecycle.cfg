\* Two agreements; init, daemon and cleanup in any order, killed anywhere; anything
\* may fail; the chain changes and is reorganised.
SPECIFICATION FairSpec
CONSTANTS
  NULL = NULL
  Agreements = {a1, a2}
  MayFail = TRUE
  MayBeKilled = TRUE
  MaxChanges = 3
  MaxCommands = 5
INVARIANTS
  TypeOK
  ServingIsConfigured
  InitIsAllOrNothing
  ActiveIsPinned
  PinnedIsKnown
PROPERTIES
  CommandsSettle
CHECK_DEADLOCK FALSE
