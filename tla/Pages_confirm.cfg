SPECIFICATION Spec
CONSTANTS
  Visited <- OnlyNat44
  MaxConfig = 1
  MaxEdit = 0
  MaxReads = 2
INVARIANT DeleteWasAskedFor
