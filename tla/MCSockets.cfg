SPECIFICATION Spec
CONSTANTS
  Conns = {c1}
  Letters = {}
  CR = CR
  LF = LF
  None = None
  MaxBuffered = 2
  Chunk = 2
  SendBuffer = 1
  Backlog = 1
  MaxHandle = 3
  MaxBytes = 3
  MaxSend = 2
INVARIANTS BytesAccounted LinesAsSent SendAllCounts
PROPERTIES HandlesAreNotReused ImplementsLineStream
CHECK_DEADLOCK FALSE
