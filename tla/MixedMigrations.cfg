SPECIFICATION FairSpec
CONSTANTS
  Servers = {s1}
  Workers = {w1}
  Versions = 2
  NoLock = NoLock
  MaxCrashes = 0
PROPERTIES AllUp
CHECK_DEADLOCK FALSE
