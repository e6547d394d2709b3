SPECIFICATION GSpec
CONSTANTS
  v1 = v1
  Vib = {v1}
  Attached <- TwiceVib
  NA = 2
  NV = 3
  Partial = TRUE
  GUI = TRUE
  Faults = FALSE
  PipeCap = 3
  SeekTo = {}
  MaxCmd = 3
  Jump = 1
  ThreadedTcl = FALSE
PROPERTY StopReturns
CHECK_DEADLOCK FALSE
