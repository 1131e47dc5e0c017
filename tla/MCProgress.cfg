SPECIFICATION GoodSpec
CONSTANTS
  Client = Client
  Server = Server
  None = None
  Passwords = {right}
  Password = right
  Prefixes = {prefix}
  Texts = {"hi"}
  MaxCounter = 4
  Cap = 2
  MaxSalts = 1
PROPERTIES HandshakeCompletes EverythingIsOpened
CHECK_DEADLOCK FALSE
