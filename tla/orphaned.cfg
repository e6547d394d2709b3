SPECIFICATION GSpec
CONSTANTS
  v1 = v1
  Vib = {v1}
  Attached <- OneVib
  NA = 2
  NV = 3
  Partial = TRUE
  GUI = TRUE
  Faults = FALSE
  PipeCap = 30
  SeekTo = {}
  MaxCmd = 1
  Jump = 2
  ThreadedTcl = FALSE
PROPERTY VibEndsWithMusic
CHECK_DEADLOCK FALSE
