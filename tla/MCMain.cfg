\* Three payloads stand for the five hundred, four characters for 256.
CONSTANTS
  MaxConnections = 1
  MaxCalls = 4
  MaxBulk = 3
  FieldCounts = {3}
  MaxPlaceholders = 9
  Loads = 3
  MaxBufferSize = 4
  Printable = {"a", "b"}
SPECIFICATION MainSpec
INVARIANTS
  NothingLeftBehind
  EveryPayloadAnswered
  PromptIsFaithful
PROPERTIES
  MainEnds
CHECK_DEADLOCK FALSE
