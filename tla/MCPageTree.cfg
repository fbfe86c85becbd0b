CONSTANTS
  R1 = R1
  R2 = R2
  A1 = A1
  Empty = Empty
  NoRes = NoRes
  NoRef = NoRef
  Absent = Absent
  None = None
  InitTrees <- MCInitTrees
  ResVals <- MCResVals
  Annots <- MCAnnots
  MaxInserts = 2
  MaxAnnots = 1
SPECIFICATION Spec
INVARIANT TypeOK
INVARIANT TreeConsistent
INVARIANT WalkLocatesEveryPage
PROPERTY PageListRefinement
CHECK_DEADLOCK FALSE
