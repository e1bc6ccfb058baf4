SPECIFICATION Spec
CONSTANTS
  Half = 8
  Intervals <- MCIntervals
  MaxLives = 2
  None = None
INVARIANTS
  TimeIsExact
  OnlyTheStaleIsHidden
PROPERTIES
  RestartIsNoticed
CHECK_DEADLOCK FALSE
