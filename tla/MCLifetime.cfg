SPECIFICATION LifetimeSpec
CONSTANTS
  Unlimited = Unlimited
  TickCounts = {1, 2}
  Slices = 3
INVARIANTS
  ReferencesStayValid
  NoSignalSkipsCleanUp
  HandlersAreRestored
  StopIsPrompt
PROPERTIES
  StopIsHonoured
CHECK_DEADLOCK FALSE
