SPECIFICATION Spec
CONSTANTS
  v1 = v1
  v2 = v2
  Vib = {v1, v2}
  Attached <- BothVibs
  NA = 2
  NV = 2
  Partial = TRUE
  GUI = TRUE
  Faults = TRUE
  PipeCap = 30
  SeekTo <- Anywhere
  MaxCmd = 3
INVARIANT Aligned
CHECK_DEADLOCK FALSE
