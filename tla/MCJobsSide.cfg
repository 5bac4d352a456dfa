SPECIFICATION Spec
CONSTANTS
  Nodes <- MCNodes
  Graphs <- LogNeeded
  Workers = {w1, w2}
  JobCounts = {1, 2}
INVARIANT NothingLost
CHECK_DEADLOCK FALSE
