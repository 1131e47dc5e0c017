SPECIFICATION Spec
CONSTANTS
  Names = {ann, bob}
  Rooms = {lobby, den}
  Lobby = lobby
  Everywhere = everywhere
  None = none
  MaxPending = 2
  Deadline = 1
  MaxHandle = 2
  MaxLines = 3
SYMMETRY NameSymmetry
INVARIANT ServerSurvives
CHECK_DEADLOCK FALSE
