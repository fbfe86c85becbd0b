CONSTANTS
  R1 = R1
  R2 = R2
  Empty = Empty
  NoRes = NoRes
  NoRef = NoRef
  Absent = Absent
  None = None
  NoFile = NoFile
  Starts <- MCStarts
  ResVals <- MCResVals
  Annots = {}
  MaxInserts = 2
  MaxAnnots = 0
SPECIFICATION Spec
INVARIANT RoundTrip
