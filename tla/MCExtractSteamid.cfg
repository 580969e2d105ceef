\* What the comments and messages say of the steamid.
CONSTANTS
  MaxCalls = 1
  MaxEntries = 1
SPECIFICATION Spec
INVARIANTS
  SteamidIsChecked
CHECK_DEADLOCK FALSE
