SPECIFICATION NameiSpec
CONSTANTS
  t1 = t1
  t2 = t2
  Tasks = {t1, t2}
  NInodes = 5
  PerBlock = 3
  PathsOf <- OwnPaths
  StartFs <- TwoDirectories
  StartPwd <- OwnDirectory
INVARIANTS
  CountsExact
  
  DirTree
CHECK_DEADLOCK FALSE
