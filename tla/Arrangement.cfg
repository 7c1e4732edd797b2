CONSTANTS
  Clients = {c1, c2}
  MaxSessions = 2
  MaxWindows = 3
  MaxPanes = 2
  Across = FALSE
SPECIFICATION Spec
INVARIANTS  FocusIsInPlace 
PROPERTIES NoEmptySessionStays
CHECK_DEADLOCK FALSE
