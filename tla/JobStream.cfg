\* A job's output and end, with a command that follows it and a pane that
\* views it, which is held at times.
CONSTANTS
  Keep = 1
  MaxBytes = 2
  Sizes = {1, 2}
  Followers = {f1}
  Viewers = {v1}
  MaySuspend = TRUE
  MayTimeOut = TRUE
SPECIFICATION FairSpec
INVARIANTS
  SleepersMissNothing
PROPERTIES
  TheEndComesLast
  StreamsAreTails
  TheEndIsHeard
CHECK_DEADLOCK FALSE
