SPECIFICATION FairSpec
CONSTANTS
  Client = Client
  Server = Server
  None = None
  Passwords = {right, wrong}
  Prefixes = {prefix}
  Texts = {"hi"}
  MaxCounter = 2
  Cap = 2
  MaxSalts = 2
INVARIANTS TypeOK NonceNeverReused OpenedInOrder SessionIsProved CutStreamHasNoSession
PROPERTIES ImplementsLink CallsReturn
CHECK_DEADLOCK FALSE
