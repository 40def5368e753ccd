SPECIFICATION Spec
CONSTANTS
  t1 = t1
  t2 = t2
  t3 = t3
  Tile = {t1, t2, t3}
  First = t1
  Cols = 2
  MaxRows = 2
  ScanRows = 7
  LastRow = 5
  MinSize <- MCMinSize
  DefSize <- MCDefSize
  Legacy <- MCLegacy
INVARIANTS
  TilesFit
  NearHomeRestores
  PushedNoFurther
