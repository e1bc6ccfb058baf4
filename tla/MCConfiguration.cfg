SPECIFICATION Spec
CONSTANTS
  Texts = {"--domain-id", "--participant-name", "--tick-ms", "--tick-count", "--auto-pursuit", "--other", "", "0", "232", "233", "too-long-a-tick", "name-of-37-characters", "name-of-38-characters", "name-of-56-characters"}
  NumberOf <- MCNumberOf
  LengthOf <- MCLengthOf
  NotANumber = NotANumber
  None = None
  MaxArguments = 4
  MaxDomainId = 232
  MaxNameLength = 55
  MaxTickInterval = 1000
INVARIANTS
  ParserReadsTheGrammar
  ReadyMeansUsable
CHECK_DEADLOCK FALSE
