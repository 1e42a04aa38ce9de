SPECIFICATION Spec
CONSTANTS
  s1 = s1
  s2 = s2
  s3 = s3
  client = client
  i1 = i1
  i2 = i2
  ObjectsFolder = ObjectsFolder
  AllowMsgFunc = FALSE
  Servers <- MCServers
  Port <- MCPort
  Commands <- MCCommands
  Tasks = {s1, s2, s3, client}
  Ids = {i1, i2}
  MaxCommands = 1
  None = None
CONSTRAINT Followed
INVARIANT RefusedChangesNothing
CHECK_DEADLOCK FALSE
