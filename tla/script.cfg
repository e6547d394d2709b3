SPECIFICATION Spec
CONSTANTS
  v1 = v1
  v2 = v2
  Vib = {v1, v2}
  Attached <- OneVib
  NA = 2
  NV = 2
  Partial = TRUE
  GUI = FALSE
  Faults = TRUE
  PipeCap = 3
  SeekTo = {1, 2}
  MaxCmd = 5
INVARIANTS TypeOK Aligned LagIsQueued CloseIsLast CloseReachesAll
PROPERTIES EndTogether SessionSpec
CHECK_DEADLOCK FALSE
