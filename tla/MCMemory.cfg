SPECIFICATION Spec
CONSTANTS
  image = image
  heap = heap
  stack = stack
  Pages <- MCPages
  Table <- MCTable
  ImagePages <- MCImagePages
  ArgPage = stack
  NoExecutable = NoExecutable
  Zero = Zero
  Kernel = Kernel
  LowFrame = LowFrame
  NoFrame = NoFrame
  NoPage = NoPage
  NR_TASKS = 4
  NR_FRAMES = 8
  Executables = {e1}
  Written = {x}
  KernelWrites = {"verified", "unverified", "exec_sleep"}
  Callers = {2}
VIEW View

  
PROPERTIES
  UserIsolation
CHECK_DEADLOCK FALSE
