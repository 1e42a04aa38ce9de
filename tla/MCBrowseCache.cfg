SPECIFICATION Spec
CONSTANTS
  Endpoints = {e1, e2}
  Managers = {m1, m2, m3}
  Requests = {r1, r2, r3}
  None = None
INVARIANT NoneOrphaned
PROPERTY IdleAreClosed
CHECK_DEADLOCK FALSE
