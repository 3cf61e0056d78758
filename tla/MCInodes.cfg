SPECIFICATION InodesSpec
CONSTANTS
  Tasks = {t1, t2}
  Admins = {t1, t2}
  NR_INODE = 4
  Devs = {1, 2}
  NumInodes = 3
  MaxLinks = 2
  MaxHeld = 1
  Races = {}
SYMMETRY TaskSymmetry
INVARIANTS
  
  
  
  DeviceStays
