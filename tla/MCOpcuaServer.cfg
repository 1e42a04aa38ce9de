SPECIFICATION Spec
CONSTANTS
  s1 = s1
  s2 = s2
  s3 = s3
  client = client
  i1 = i1
  i2 = i2
  ObjectsFolder = ObjectsFolder
  AllowMsgFunc = TRUE
  Servers <- MCServers
  Port <- MCPort
  Commands <- MCCommands
  Tasks = {s1, s2, s3, client}
  Ids = {i1, i2}
  MaxCommands = 3
  None = None
CONSTRAINT Followed
INVARIANTS PortReleased KeyIsThere NeverSomethingElse FittingValueIsSet
PROPERTY CloseCompletes
CHECK_DEADLOCK FALSE
