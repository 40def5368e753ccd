SPECIFICATION Spec
CONSTANTS
  p1 = p1
  p2 = p2
  s1 = s1
  s2 = s2
  a = a
  b = b
  on = on
  Unset = Unset
  Unknown = Unknown
  Proc = {p1, p2}
  Scope <- OneScope
  Pages <- OnePage
  Leaf <- OneLeaf
  ScopeOf <- OneScopeOf
  Value <- OnlyUnset
  Tracked <- NoLeaf
  Watched <- NoRow
  MaxRow = 2
  MaxCommit = 1
  MaxStray = 0
INVARIANT HistoryShowsOnlyWhatWasSent
CHECK_DEADLOCK FALSE
