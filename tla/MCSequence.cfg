\* Two objects that copy, move and swap, of up to three elements of two values:
\* every range of erase and swap_with_last_erase, and every allocation may fail.
CONSTANTS
  Objects = {a, b}
  Values = {v, w}
  MaxSize = 3
  MaxAdditive = 2
  Blocks = {1, 2, 3}
  OwnAtCapacity = FALSE
  Raw = Raw
  Moved = Moved
SPECIFICATION Spec
SYMMETRY Symmetry
CONSTRAINT ShortIfMoreAdditive
INVARIANTS
  TypeOK
  OneOwnerEach
  FitsInBlock
  LifetimesMatchSize
  NoUndefinedBehaviour
PROPERTIES
  ImplementsList
  EveryStepGetsCloser
