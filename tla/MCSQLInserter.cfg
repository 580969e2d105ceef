\* Two connections, two calls of up to three payloads, and statements of too
\* few, the right and too many columns, at the server's placeholder limit.
CONSTANTS
  MaxConnections = 2
  MaxCalls = 2
  MaxBulk = 3
  FieldCounts = {0, 2, 3, 4}
  MaxPlaceholders = 8
SPECIFICATION Spec
INVARIANTS
  TypeOK
  AnswerTells
  StatementsFreed
  QueryIsInsert
  ConnectionsAccounted
PROPERTIES
  ImplementsBulkTable
  StatementComplete
CHECK_DEADLOCK FALSE
