SPECIFICATION SchedFairSpec
CONSTANTS
  Tasks = {1, 2}
  NoTask = NoTask
  Queues = {q}
  NoQueue = NoQueue
  Priorities = {1, 2}
  Seconds = {0, 1}
  NoAlarm = NoAlarm
INVARIANTS
  NoOrphan
  NoStalePointer
PROPERTIES
  WakeReachesAll
  EveryoneRuns
  
