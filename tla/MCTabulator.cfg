SPECIFICATION Spec
CONSTANTS
  MaxCourses = 2
  Notes <- MCNotes
  Timeouts = {0, 1}
  PageWidths = {5, 7}
  MaxTime = 2
  MaxKeys = 3
INVARIANTS
  TablatureIsPlayed
  PageFits
CHECK_DEADLOCK FALSE
