SPECIFICATION FloppySpec
CONSTANTS
  Drives = {0, 1}
  Tracks = {0, 1}
  MAX_ERRORS = 2
  SpinUp = 3
  Settle = 2
  Keep = 6
  Off = 4
  MaxQueue = 2
  Timeouts = 1
  MaxOp = 1
  Races = {}
INVARIANTS
  OneThing
  
  
