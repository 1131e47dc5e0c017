SPECIFICATION Spec
CONSTANTS
  Names = {ann, bob, eve}
  Rooms = {lobby, den}
  Lobby = lobby
  Everywhere = everywhere
  None = none
  MaxPending = 2
  Deadline = 1
  MaxHandle = 3
  MaxLines = 5
SYMMETRY NameSymmetry
INVARIANTS OneAdmin NamesAreFree ConnectionsAreKept BroadcastReaches RoleReachesAdmin PendingExpires
CHECK_DEADLOCK FALSE
