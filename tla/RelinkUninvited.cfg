CONSTANTS
  MaxLinks = 2
  MaxBreaks = 1
  MaxRestarts = 0
  PingMisses = 2
SPECIFICATION Spec
INVARIANT HungUpStaysAway
CHECK_DEADLOCK FALSE
