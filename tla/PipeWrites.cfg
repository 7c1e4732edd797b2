\* Three packets sent one after the other, the first of them the wire packet, sound,
\* and a restart said from another connection.
CONSTANTS
  Writers = {1, 2, 3, 4, 5}
  Spawned = {1, 2, 3}
  Urgent = {4}
  Foreign = {5}
  Long = {2}
  Big = {2}
  Wire = 1
  Zip = TRUE
  Room = 1
  TooSlow = 3
  Drainers = {d1}
SPECIFICATION FairSpec
INVARIANTS OneTurn FarEndCanRead NoDrainerOversleeps
PROPERTIES EveryWriteEnds
CHECK_DEADLOCK FALSE
