SPECIFICATION BlocksSpec
CONSTANTS
  Tasks = {t1, t2}
  Files = {1, 2}
  NBlocks = 3
  NDirect = 1
  NWords = 2
  Indexes = {0, 1, 4}
  IOErrors = TRUE
  Races = {}
SYMMETRY TaskSymmetry
INVARIANTS
  BlocksInv
  
  ContentsKept
