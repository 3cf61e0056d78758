SPECIFICATION TtyFairSpec
CONSTANTS
  Readers = {r}
  Writers = {w}
  NoTask = NoTask
  Size = 3
  Room = 0
  Low = 1
  Startup = 1
  Chars = {"c", "nl", "kill", "intr"}
  Counts = {2}
  Edits = FALSE

  
  
PROPERTIES
  ReaderServed
  WriterServed
