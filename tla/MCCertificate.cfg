\* What the comment of validate_certificate says of last_error.
CONSTANTS
  MaxCalls = 2
  MaxChunks = 1
  HttpCodes = {200}
  ContentTypes = {"application/json"}
SPECIFICATION Spec
INVARIANTS
  CertificateFailureLogged
CHECK_DEADLOCK FALSE
