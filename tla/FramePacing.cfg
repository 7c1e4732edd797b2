CONSTANTS
  Keys = {lookup, mirror}
  Released = {lookup}
  FramesInFlight = 2
  BytesInFlight = 3
  MaxChanges = 2
  MaxInputs = 1
  MaxHolds = 2
  MaxUnread = 3
SPECIFICATION Spec
INVARIANTS NoFrameIsForgotten
PROPERTIES FramesAreDrawn
CHECK_DEADLOCK FALSE
