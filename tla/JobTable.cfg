\* Jobs that come, end and are forgotten, with commands that wait for them and
\* panes that view them, over an upgrade.
CONSTANTS
  MaxJobs = 2
  Cap = 1
  Panes = {p1}
  MaxUpgrades = 1
SPECIFICATION FairSpec
PROPERTIES
  FinishesKeepTheCap
  WaitedStay
  EveryWaitEnds
CHECK_DEADLOCK FALSE
