SPECIFICATION HdSpec
CONSTANTS
  NR_REQUEST = 4
  Sectors = {1, 2, 3, 4}
  MAX_ERRORS = 3
  Beyond = {1}
  LastBlock = {3}
INVARIANTS
  HdInv
PROPERTIES
  EndsWhole
  ImplementsQueue
  NoStarvation
