\* Input and the end: a full pty, the writer, hang-ups, kills, the reap, a cancelled scope.
CONSTANTS
  MaxOut = 0
  MaxIn = 3
  Room = 1
  MaxSuspends = 0
  MaxHangUps = 1
  MaxUpgrades = 0
  Origins = {TRUE, FALSE}
  MayCancel = TRUE
SPECIFICATION ReadingSpec
INVARIANTS
  WrittenIffNothingWaits
  InputIsWhole
PROPERTIES
  InputIsWritten
  HungUpEnds
  NothingOutlivesTheScope
CHECK_DEADLOCK FALSE
