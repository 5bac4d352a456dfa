SPECIFICATION Spec
CONSTANTS
  a = a
  b = b
  r = r
  s = s
  Files <- MCFiles
  Kids <- MCKids
  Tops <- MCTops
  Versions = {1, 2}
  MaxDrift = 1
  MaxTime = 6
INVARIANTS
  BuiltRight
PROPERTIES
  RecordKept
  CacheKept
  KillIsLocal
CHECK_DEADLOCK FALSE
