SPECIFICATION ProcSpec
CONSTANTS
  NR_TASKS = 4
  MaxPid = 4
  Sent <- MCSent
  Masks <- MCMasks
  Changers = {2}
  Handlers = {"function"}
  MaxSignals = 1
  MaxChanges = 1
  NoTask = NoTask
INVARIANTS
  ProcInv
  FatherLives
  DeathHeard
