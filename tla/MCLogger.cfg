\* Two writers of two messages each, so that a list grows 0 -> 1 -> 2 -> 4, and
\* one reader at any moment of it.
CONSTANTS
  Writers = {w1, w2}
  Readers = {r}
  NumWrites = 2
  Blocks = {1, 2, 3}
  NoThread = NoThread
  Raw = Raw
  Moved = Moved
  Empty = Empty
  Garbage = Garbage
SPECIFICATION Spec
INVARIANTS
  TypeOK
  MutualExclusion
  NothingLost
  WriterOrder
PROPERTIES
  QuietReadIsLast
  EveryWriteReturns
CHECK_DEADLOCK FALSE
