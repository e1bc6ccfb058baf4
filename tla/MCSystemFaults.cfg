SPECIFICATION Spec
CONSTANTS
  Consoles = {c1, c2}
  Automated = {c1}
  Late = {c2}
  drone = drone
  target = target
  TargetStart <- MCStartPosition
  TargetVelocity <- MCTargetVelocity
  MaxTicks = 1
  ReservedTicks = 0
  StartPosition <- MCStartPosition
  Stride = 1
  Tolerance <- MCTolerance
  MaxCommandId = 2
  MaxTime = 5
  IdleTime = 1
  Mortal = {"observer", "interceptor", c1}
  MaxRestarts = 1
  Acquainted = {"observer", "interceptor", c1}
  None = None
INVARIANTS
  FreshIntentOnly
  DrainedConsoleIsCurrent
