\* Output: suspends and resumes, a program that ends, its last words, a hot upgrade.
CONSTANTS
  MaxOut = 2
  MaxIn = 0
  Room = 1
  MaxSuspends = 2
  MaxHangUps = 0
  MaxUpgrades = 1
  Origins = {TRUE, FALSE}
  MayCancel = FALSE
SPECIFICATION FairSpec
INVARIANTS
  LastWordsAreFed
  RedrawIsComing
  UpgradeLosesAPageAtMost
PROPERTIES
  OutputIsFed
CHECK_DEADLOCK FALSE
