SPECIFICATION Spec
CONSTANTS
  p1 = p1
  p2 = p2
  s1 = s1
  s2 = s2
  a = a
  b = b
  on = on
  Unset = Unset
  Unknown = Unknown
  Proc = {p1}
  Scope <- TwoScopes
  Pages <- TwoPages
  Leaf <- TwoLeaves
  ScopeOf <- TwoScopeOf
  Value <- OnOrUnset
  Tracked <- OneLeaf
  Watched <- NoRow
  MaxRow = 3
  MaxCommit = 1
  MaxStray = 1
INVARIANTS
  NoDuplicates
  TrayReachesDesired
  HistoryShowsWhatWasSent
CHECK_DEADLOCK FALSE
