SPECIFICATION FairSpec
CONSTANTS
  p1 = p1
  p2 = p2
  s1 = s1
  s2 = s2
  a = a
  b = b
  on = on
  Unset = Unset
  Unknown = Unknown
  Proc = {p1, p2}
  Scope <- OneScope
  Pages <- OnePage
  Leaf <- OneLeaf
  ScopeOf <- OneScopeOf
  Value <- OnlyUnset
  Tracked <- NoLeaf
  Watched <- EveryRow
  MaxRow = 2
  MaxCommit = 2
  MaxStray = 0
INVARIANTS
  TypeOK
  SentOrStagedLate
  BatchLeavesTray
  SavedSurvivesReboot
PROPERTIES
  HistoryIsImmutable
  ImplementsLedger
  RequestsEnd
CHECK_DEADLOCK FALSE
