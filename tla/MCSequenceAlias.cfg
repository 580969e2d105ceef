\* push_back of a reference into the Sequence itself, also when it is full.
CONSTANTS
  Objects = {a}
  Values = {v, w}
  MaxSize = 2
  MaxAdditive = 1
  Blocks = {1, 2}
  OwnAtCapacity = TRUE
  Raw = Raw
  Moved = Moved
SPECIFICATION Spec
INVARIANTS
  CopiesElements
