\* Three URLs, so that a failed setup shifts the slots of two others; a
\* deadline one tick away, so that transfers end before, at and after it.
CONSTANTS
  NumUrls = 3
  MaxChunks = 1
  HttpCodes = {200, 404}
  Timeout = 1
SPECIFICATION FairSpec
INVARIANTS
  TypeOK
  PointersResolve
  BodiesBelong
  LossesAccounted
  FinishedAreAnswered
  CleanShutdown
PROPERTIES
  Termination
  ImplementsBatchFetch
CHECK_DEADLOCK FALSE
