CONSTANTS
  Ids = {1, 2, 3, 4, 5}
  Gens = {0, 2}
INIT Init
NEXT Next
INVARIANT ChunksAreMaximalRuns
INVARIANT TableDecodesToPositions
INVARIANT StreamDecodesToPositions
