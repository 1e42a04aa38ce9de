SPECIFICATION LiveSpec
CONSTANTS
  Clients = {c1, c2}
  None = None
PROPERTIES Recovers DisconnectSettles KeepsPromise
CHECK_DEADLOCK FALSE
