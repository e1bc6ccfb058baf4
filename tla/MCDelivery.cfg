SPECIFICATION FairSpec
CONSTANTS
  Identifiers = {0, 1, 2}
  Finite = {"finite"}
  NonFinite = {"nan"}
  Milliseconds <- MCMilliseconds
  UnknownStatuses = {"DRONE_LOST"}
  None = None
  Topics = {"target_tracks", "drone_states", "assignments", "interception_commands", "explosion_events"}
  MaxArrivals <- MCMaxArrivals
  TakesMayFail = TRUE
INVARIANTS
  PortsSeeOnlyValidValues
  OwnSamplesAreUnderstood
  CommandsAreHandedOnce
PROPERTIES
  EverySampleIsTaken
CHECK_DEADLOCK FALSE
