\* Two calls, so that an error of one can be taken for that of the other; a good
\* status and a bad one; labels on both sides of both limits; two payloads, one
\* behind the other.
CONSTANTS
  Recipients = {"player", "other"}
  MaxCalls = 2
  MaxChunks = 2
  HttpCodes = {200, 404}
  MaxPayloads = 2
  LabelSizes = {0, 256, 257}
  Bodies = {"full", "text"}
  ContentTypes = {"application/json"}
SPECIFICATION Spec
INVARIANTS
  HandleTells
  HoldsWhatSucceeded
PROPERTIES
  StoredIsGoodAnswer
CHECK_DEADLOCK FALSE
