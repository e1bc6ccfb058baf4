\* Once everything is destroyed, nothing is left to do.
SPECIFICATION FairSpec
CONSTANTS
  EndpointCount = 2
  MaxMatches = 2
INVARIANTS
  CleanUpIsComplete
  CallbackIsSafe
  SleeperIsTold
PROPERTIES
  TearDownEnds
CHECK_DEADLOCK FALSE
