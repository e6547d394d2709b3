SPECIFICATION GSpec
CONSTANTS
  v1 = v1
  Vib = {v1}
  Attached <- OneVib
  NA = 2
  NV = 3
  Partial = TRUE
  GUI = TRUE
  Faults = TRUE
  PipeCap = 2
  SeekTo = {}
  MaxCmd = 3
  Jump = 1
  ThreadedTcl = TRUE
INVARIANTS GTypeOK TotalKnown ShownIsCurrent
PROPERTIES StopCompletes
CHECK_DEADLOCK FALSE
