SPECIFICATION LoopSpec
CONSTANTS
  Conns = {c1, c2}
  Letters = {}
  CR = CR
  LF = LF
  None = None
  MaxBuffered = 3
  Chunk = 2
  SendBuffer = 1
  Backlog = 2
  MaxHandle = 3
  MaxBytes = 2
  MaxSend = 0
PROPERTIES EveryLineComesOut
CHECK_DEADLOCK FALSE
