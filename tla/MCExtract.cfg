\* Two calls, the second into a sheet that the first has filled or half filled.
CONSTANTS
  MaxCalls = 2
  MaxEntries = 2
SPECIFICATION Spec
INVARIANTS
  EntriesDoNotMix
PROPERTIES
  RefusedLeavesSheets
CHECK_DEADLOCK FALSE
