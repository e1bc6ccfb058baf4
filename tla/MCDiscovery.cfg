SPECIFICATION Spec
CONSTANTS
  Topics = {"target_tracks", "drone_states", "assignments", "interception_commands", "explosion_events"}
  Writers = {w1, w2}
  Readers = {r}
  Keys = {k1, k2, k3}
  Capacity <- MCCapacity
  Present <- MCPresent
  MaxWrites <- MCMaxWrites
INVARIANTS
  ReaderHasWhatIsPromised
PROPERTIES
  StatusBecomesTrue
CHECK_DEADLOCK FALSE
