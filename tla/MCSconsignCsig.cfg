SPECIFICATION Spec
CONSTANTS
  a = a
  b = b
  r = r
  s = s
  Files <- MCFiles
  Kids <- MCKids
  Tops <- MCTops
  Versions = {1, 2}
  MaxDrift = 1
  MaxTime = 5
INVARIANT CsigDigestsContent
CHECK_DEADLOCK FALSE
