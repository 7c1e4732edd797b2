CONSTANTS
  MaxPages = 3
  MaxLooks = 4
  MaxLosses = 2
  MaxFailures = 1
  Room = 2
SPECIFICATION MirrorSpec
INVARIANTS FramesFitTheirPage UnseenIsPaused
PROPERTIES SeenCatchesUp StaleIsAnswered
CHECK_DEADLOCK FALSE
