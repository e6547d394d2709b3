SPECIFICATION Spec
CONSTANTS
  Conn = {0, 1}
  Target = 0
  MaxLen = 3
  DownLevel = 1
  Payload = 2
  MaxBytes = 5
INVARIANTS TypeOK FlushScheduled FreshBytes NotTwice TransparentAlone TickWanted
PROPERTIES Flushed
