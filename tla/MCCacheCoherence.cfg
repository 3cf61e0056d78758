SPECIFICATION CacheFairSpec
CONSTANTS
  t1 = t1
  t2 = t2
  t3 = t3
  NoTask = NoTask
  NoQueue = NoQueue
  buffer_wait = buffer_wait
  wait_for_request = wait_for_request
  NoBlock = NoBlock
  NoDevice = NoDevice
  NoValue = NoValue
  Queues <- MCQueues
  Blocks <- MCBlocks
  Sectors <- MCBlocks
  Device <- MCDevice
  v1 = v1
  v2 = v2
  Tasks <- TwoTasks
  NR_BUFFERS = 1
  NR_REQUEST = 3
  Values <- TwoValues
  Workload = {"read", "write", "sync"}
  Failing = {0}
PROPERTIES
  ImplementsStore
  
  
