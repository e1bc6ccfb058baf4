\* The process may exit after a failed write: it stops, so no deadlock check.
SPECIFICATION Spec
CONSTANTS
  Drones = {d1, d2}
  droneId = d1
  Targets = {t1, t2}
  CommandIds = {1, 2}
  Positions <- MCPositions
  StartPosition <- MCStartPosition
  Stride = 1
  Tolerance <- MCTolerance
  EffectResults = {"succeeded", "failed"}
  WritesMayFail = TRUE
  MaxTime = 3
  None = None
INVARIANTS
  NeverLogicError
  EventTellsTheState
  OneEventPerSuccess
PROPERTIES
  ReportsAdvance
  KeepsPromise
CHECK_DEADLOCK FALSE
