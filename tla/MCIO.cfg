SPECIFICATION Spec
CONSTANTS
  Paths = {p}
  Standard = Standard
  Missing = Missing
  None = None
  Letter = Letter
  NL = NL
  BufferSize = 1
  MaxSize = 2
  MaxSent = 2
INVARIANTS FlushedIsWritten StandardLinesInOrder
PROPERTIES SwitchesLoseNothing
CHECK_DEADLOCK FALSE
