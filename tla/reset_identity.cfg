\* One agreement; nothing fails and nobody kills the daemon.
SPECIFICATION FairSpec
CONSTANTS
  NULL = NULL
  Agreements = {a1}
  MayFail = FALSE
  MayBeKilled = FALSE
  MaxChanges = 2
  MaxCommands = 2
PROPERTIES
  RestartsAfterReorg
CHECK_DEADLOCK FALSE
