SPECIFICATION LiveSpec
CONSTANTS
  Nodes = {n1, n2}
  Managers = {m1, m2}
  None = None
  MaxRetries = 1
  Patient = {n1}
INVARIANTS SharedInUse UnusedIsReleased CalmRelease EventsReachUsers
PROPERTIES  CloseCompletes
CHECK_DEADLOCK FALSE
