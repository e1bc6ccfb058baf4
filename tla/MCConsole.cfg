\* A console that failed to write or ran out of identities has exited.
SPECIFICATION MCSpec
CONSTANTS
  Consoles = {c1}
  Drones = {d1, d2, d3}
  SpareDrones = {d3}
  Targets = {t1, t2}
  Positions <- MCPositions
  Rounded <- MCRounded
  Digits <- MCDigits
  EventIds = {1}
  Times <- MCTimes
  MaxCommandId = 3
  WritesMayFail = TRUE
  MaxSamples = 3
  Numbers <- MCNumbers
  NotANumber = NotANumber
  None = None
INVARIANTS
  CommandIdentitiesUnique
  ProjectionIsNewest
  IntentsAreGrounded
  OutcomesAreCorrelated
  AnswersAreTrue
PROPERTIES
  OneAssignmentPerDrone
  ScreenNeverGoesBack
SYMMETRY Symmetry
CHECK_DEADLOCK FALSE
