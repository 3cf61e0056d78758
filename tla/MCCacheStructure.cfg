SPECIFICATION CacheSpec
CONSTANTS
  t1 = t1
  t2 = t2
  t3 = t3
  NoTask = NoTask
  NoQueue = NoQueue
  buffer_wait = buffer_wait
  wait_for_request = wait_for_request
  NoBlock = NoBlock
  NoDevice = NoDevice
  NoValue = NoValue
  Queues <- MCQueues
  Blocks <- MCBlocks
  Sectors <- MCBlocks
  Device <- MCDevice
  v1 = v1
  v2 = v2
  Tasks <- TwoTasks
  NR_BUFFERS = 2
  NR_REQUEST = 2
  Values <- OneValue
  Workload = {"raw_write", "slow_write", "sync"}
  Failing = {0, 1}
SYMMETRY Symmetry
INVARIANTS
  CacheInv
  CacheUnique
PROPERTIES
  HeldStaysPut
CHECK_DEADLOCK FALSE
