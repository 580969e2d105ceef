\* One writer, one reader: the reads that take no lock.
CONSTANTS
  Writers = {w1}
  Readers = {r}
  NumWrites = 2
  Blocks = {1, 2, 3}
  NoThread = NoThread
  Raw = Raw
  Moved = Moved
  Empty = Empty
  Garbage = Garbage
SPECIFICATION Spec
PROPERTIES
  EveryReadIsALog
CHECK_DEADLOCK FALSE
