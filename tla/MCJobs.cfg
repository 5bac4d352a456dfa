SPECIFICATION Spec
CONSTANTS
  Nodes <- MCNodes
  Graphs <- MCGraphs
  Workers = {w1, w2}
  JobCounts = {1, 2}
INVARIANTS
  TypeOK
  JobsCounted
  ChildrenFirst
  SideEffectsApart
  WaitCounts
  NothingLost
PROPERTIES
  NeverTakenBack
  BuildEnds
CHECK_DEADLOCK FALSE
