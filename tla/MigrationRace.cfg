SPECIFICATION Spec
CONSTANTS
  Servers = {s1, s2}
  Workers = {w1, w2}
  Versions = 2
  NoLock = NoLock
  MaxCrashes = 1
INVARIANTS TypeOK UpIsMigrated InOrder
CHECK_DEADLOCK FALSE
