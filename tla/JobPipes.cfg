\* A job from its submit to its end, killed, swept, carried over an upgrade or
\* left by a server that goes, at any time.
CONSTANTS
  MaxPieces = 1
  MaxUpgrades = 1
  LetsGo = TRUE
  MayReuse = TRUE
  MaySweep = TRUE
  MayCancel = TRUE
SPECIFICATION FairSpec
INVARIANTS
  OutputIsWholeWhenDone
  KillIsDelivered
  NoneIsLeftRunning
PROPERTIES
  TheEndIsRecorded
CHECK_DEADLOCK FALSE
