SPECIFICATION FairSpec
CONSTANTS
  Visited <- EveryKind
  MaxConfig = 2
  MaxEdit = 2
  MaxReads = 2
INVARIANTS
  TypeOK
  LayoutsAreKept
PROPERTIES
  NeverOlder
  ContentStays
  PageSettles
