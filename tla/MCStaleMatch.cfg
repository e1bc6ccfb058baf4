SPECIFICATION Spec
CONSTANTS
  Consoles = {c1}
  Automated = {c1}
  Late = {}
  drone = drone
  target = target
  TargetStart <- MCTargetStart
  TargetVelocity <- MCTargetVelocity
  MaxTicks = 2
  ReservedTicks = 0
  StartPosition <- MCStartPosition
  Stride = 1
  Tolerance <- MCTolerance
  MaxCommandId = 2
  MaxTime = 6
  IdleTime = 0
  Mortal = {"interceptor"}
  MaxRestarts = 1
  Acquainted = {}
  None = None
PROPERTIES
  SentOnlyWhenMatched
