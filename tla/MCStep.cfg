SPECIFICATION Spec
CONSTANTS
  Client = Client
  Server = Server
  None = None
  Passwords = {right}
  Prefixes = {prefix}
  Texts = {"hi"}
  MaxCounter = 3
  Cap = 1
  MaxSalts = 1
PROPERTIES StepMakesOneAttempt
CHECK_DEADLOCK FALSE
