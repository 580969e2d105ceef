\* What the message "Failure: Not a json" says.
CONSTANTS
  Recipients = {"player"}
  MaxCalls = 1
  MaxChunks = 1
  HttpCodes = {200}
  MaxPayloads = 1
  LabelSizes = {1}
  Bodies = {"full", "text"}
  ContentTypes = {"application/json", "application/json; charset=UTF-8"}
SPECIFICATION Spec
INVARIANTS
  RefusedAsNotJson
CHECK_DEADLOCK FALSE
