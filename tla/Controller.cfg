SPECIFICATION Spec
CONSTANTS
  Opened = {"users", "sites", "devices"}
  Row = {r1, r2}
  FirstRows = {r1}
  Site = {s1, s2}
  First <- FirstOf
  NoRow = NoRow
  Slots = {1, 2}
  MaxTyped = 1
  Budget = 3
SYMMETRY SitesAreAlike
INVARIANTS
  TypeOK
  ListIsTrue
  FormIsCurrent
  AccessAsShown
  NothingHangs
CHECK_DEADLOCK FALSE
