SPECIFICATION FairSpec
CONSTANTS
  Consoles = {c1}
  Automated = {c1}
  Late = {}
  drone = drone
  target = target
  TargetStart <- MCTargetStart
  TargetVelocity <- MCTargetVelocity
  MaxTicks = 2
  ReservedTicks = 1
  StartPosition <- MCStartPosition
  Stride = 1
  Tolerance <- MCTolerance
  MaxCommandId = 2
  MaxTime = 6
  IdleTime = 0
  Mortal = {}
  MaxRestarts = 0
  Acquainted = {}
  None = None
INVARIANTS
  ConsoleLagsBehind
  IntentsAreAccepted
  OutcomesAreEarned
  TakenOutcomeIsRecorded
PROPERTIES
  PursuitCompletes
  ConsolesConverge
