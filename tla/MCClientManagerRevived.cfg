SPECIFICATION Spec
CONSTANTS
  Clients = {c1, c2}
  None = None
SYMMETRY Perms
INVARIANT NobodyRevives
CHECK_DEADLOCK FALSE
