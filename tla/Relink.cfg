CONSTANTS
  MaxLinks = 3
  MaxBreaks = 1
  MaxRestarts = 1
  PingMisses = 2
SPECIFICATION Spec
INVARIANTS ComesBackForAReason
PROPERTIES ComesBackToTheNext GhostsGo
CHECK_DEADLOCK FALSE
