SPECIFICATION FairSpec
CONSTANTS
  Router = {r1, r2}
  Site = {s1}
  Addr = {a1, a2}
  Key = {k1}
  NoKey = NoKey
  NoRow = NoRow
  NoAnswer = NoAnswer
  MaxFaults = 1
INVARIANTS
  TypeOK
  KeylessIsOff
  RoundLeavesFreshStatus
PROPERTIES
  StatusSettles
