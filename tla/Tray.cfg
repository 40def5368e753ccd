SPECIFICATION FairSpec
CONSTANTS
  Row = {1, 2}
  CommitId = {1}
  Call = {x1, x2}
  MaxClock = 2
INVARIANTS
  TypeOK
  ReadYourWrites
PROPERTY StagedOpensTray
CHECK_DEADLOCK FALSE
