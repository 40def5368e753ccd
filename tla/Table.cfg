SPECIFICATION Spec
CONSTANTS
  ColumnSets <- TwoTabs
  MinWidth <- MinOf
  Natural <- NaturalOf
  Unseeded = 2
  MaxMove = 1
INVARIANTS
  TypeOK
  PairFits
  MinimumIsKept
  AColumnIsVisible
PROPERTY ReloadChangesNothing
