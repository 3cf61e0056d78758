SPECIFICATION PipeFairSpec
CONSTANTS
  Tasks = {t1, t2, t3}
  NoTask = NoTask
  Queues = {i_wait_queue}
  NoQueue = NoQueue
  PAGE_SIZE = 2
  NR_FILE = 2
  NR_OPEN = 2
  Messages <- MCMessages
  Counts = {2}
  Faulting = {t1}
INVARIANTS
  PipeInv
PROPERTIES
  ImplementsStream
  PipeMoves
CHECK_DEADLOCK FALSE
